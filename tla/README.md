# Agent Veil: a verification project

Agent Veil is a local core process that stands between AI agents and their
providers. An agent integration *registers* its surfaces, a plan protects some of
them with *routes*, a *session* gives short-lived authority over routes, and the
proxy forwards requests on a route only under such a session, replacing secrets
by placeholders on the way out and restoring them on the way back. This directory
holds TLA+ models of that program, the TLC configurations that check them, and
TLAPS proofs. Paths below are relative to the repository.

1. [The system](#1-the-system)
2. [Modules](#2-modules)
3. [Runs, bounds and what they show](#3-runs-bounds-and-what-they-show)
4. [Fairness](#4-fairness)
5. [Proofs](#5-proofs)
6. [Disagreements with the documents](#6-disagreements-with-the-documents)
7. [Not modelled, and the plan](#7-not-modelled-and-the-plan)

Model-check with `tlc -config MCX.cfg MCX`, prove with `tlapm XProofs.tla`. The
names of runs, their modules and properties are in `PROJECT.json`, which also maps
each definition to the lines it models.

## 1. The system

| Component | State | Operations | Talks to |
|---|---|---|---|
| Session manager, `internal/session/manager.go` | table of sessions by identifier: routes, endpoint, expiry, parent, a cancellable context, a secret; one mutex | Create, AuthorizeRoute, ContainsRoute, Delete, DeleteRoutes, DeleteAll, DeleteChildAuthorized, PruneExpired, List, Close | called by every handler and the cleanup ticker; its contexts cancel in-flight requests |
| Integration registry, `internal/registry/registry.go`, with `internal/planner` | entries by agent (state, plan, generation, lease), generations of agents that were ever admitted, a bounded queue of routes to revoke, an order to revoke everything | Reconcile, ReconcileLeased, Heartbeat, Block, Remove, RemoveGeneration, Get, List, DrainRouteRevocations | handlers, ticker, the managed monitor |
| Core, `internal/core` | the two tables, the HTTP server, slots for requests and streams, the scanner and the policy under their own mutexes, browser tickets and sessions | one handler per endpoint; a ticker that sweeps; Start and Close | everything |
| Proxy, `internal/proxy/proxy.go` | one goroutine per request: vault, upstream response, stream | ServeHTTP: authorize, redact, forward, restore, stream | session manager, pipeline, upstream, audit |
| Legacy SSE, `internal/proxy/legacy_*.go` | listed channels with a binding, a vault, references and post slots | Open, Acquire, Release, Close, CloseAll, Len | a long GET and the POSTs that belong to it |
| Streaming redaction, `internal/pipeline/stream.go` | pending events of one response | Push, Close, flush | scanner, vault, proxy |
| Pipeline, `internal/pipeline` | none of its own | process a request or a response | scanner, policy, broker, vault, protocol adapters |
| Vault, `internal/redactor/vault.go` | placeholder to original, bounded | Store, Restore, RestoreParts, Destroy | pipeline, streams |
| Approval broker, `internal/policy/store.go` | pending approvals, each with a channel of one | Request, Pending, Resolve | pipeline goroutines and management handlers |
| Policy engine and store, `internal/policy` | rules; a file | Decide; Load, Save | pipeline; core |
| Rule and model stores, `internal/rulestore`, `internal/modelstore` | a directory per version, a pointer file | Install, Activate, Deactivate, Remove, Open, OpenActive, List | core handlers and startup |
| Detector, `internal/detector` | none | scan text, in chunks | pipeline, stream |
| Protocol adapters, `internal/protocol`, `internal/jsonsafe` | none | parse and rewrite provider JSON | pipeline, stream |
| Audit, traces, feedback, `internal/{audit,debugtrace,feedback}` | bounded append-only files or buffers | Append, Recent, Prune | proxy, handlers |
| Instance, `internal/instance` | a lock file and a state file | acquire, write, load, remove | command line |
| Command line, `cmd/veil`; SDKs, `sdk/*` | a launched child and its process group, a lease, an attached target | serve, launch (also nested), attach, maintain a lease, egress watch | management API, operating system |
| Transparent mode, `internal/transparent` | a local authority in trust stores, network scope | activate, rotate, revoke | command line |
| Egress observation, `internal/egress` | a process tree over snapshots | update, assess | command line, audit |
| Desktop shell, `desktop/src-tauri` | a supervised core process and its token | probe, start, monitor, stop, update | core, instance |

**What is hard.** The core has no lock over its two tables: a handler changes the
registry, drains the routes to revoke and deletes sessions in three separate
critical sections, so removals, registrations, creations, the ticker and requests
interleave between any two. Waiting happens with no lock held (post slots of a
channel, approvals), and what was read before the wait is used after it.
Everything bounded has a full state (queue, tables, channels, pending events,
approvals, versions, vault, logs). Leases and sessions expire by themselves.
Streams arrive cut at arbitrary places and are emitted before they are complete.
Stores are interrupted by failures and crashes between a rename and a sync. Clients
of one agent replace each other, lose answers, and clean up late; a child process
may outlive the one that was started. Cores are killed and leave files behind that
the next one, and the desktop, have to make sense of.

**What makes it correct.** A withdrawn route carries no traffic once its
withdrawal is settled, and never becomes active again; nothing withdrawn is
forgotten, however full the queue; a nested session never has authority its parent
lacks; every way out of the session table cancels what hangs on it; a vault lives
exactly as long as somebody who needs it; no byte leaves a stream that the policy
says to replace or block, and nothing is lost; a decision is used once; the store
always starts and keeps what it acknowledged.

## 2. Modules

| Module | Models | State and actions |
|---|---|---|
| `SessionManager` | `session.Manager` | `sessions` is the table, `cancelled` the contexts that were cancelled, `issued` identifiers once used, `now` the clock. One action per exported method. An operation that reads the clock before it takes the lock uses a time from `ClockReads`, up to `MaxLockWait` old. Tokens and secrets are a session's identity. |
| `Registry` | `registry.Registry`, the outcome of `planner.Build` | `entries`, `generations`, `pending`, `revokeAll`, `now`. `Expire` (expireLocked) is part of every operation that calls it. A route is `<<agent, surface, generation>>`, which is what `protectedRouteID` and the generation suffix make it. |
| `RouteCapability` | the promise of the core about one route | a route is opened once, starts closing, and is closed for good; requests start only while it is not closed, and closing it takes what is in flight along. |
| `CoreRevocation` | the management handlers, the cleanup ticker, the managed monitor, the proxy's authorization | extends `Registry` and instantiates `SessionManager`. `thread` holds what each goroutine has left to do: a sequence of locked calls, each one atomic step of one of the two. `Program` gives each request kind its calls in the code's order, deferred ones included. |
| `LegacySSE` | `LegacySSEManager` and the GET and POST that use it | `listed`, and per channel its binding, vault, references, slots and whether it is closing; program counters for GETs and POSTs. |
| `PolicyEngine` | `policy.NewEngine` and `Decide` | no state: `ValidRules`, `Decide`, and `Reference`, what the documentation of the rule order says. |
| `ApprovalBroker` | `policy.Broker` with the goroutines on both sides | `pending`, each approval's `channel`, `over` (contexts that are done), program counters, and what was decided. |
| `ProxyRequest` | `proxyHandler`, `Handler.ServeHTTP`, the request and response pipelines, the vault; extends `ApprovalBroker` and `PolicyEngine` | `engine` is the server's policy, `slots` the two pools, `req` what each request's handler holds: the body as sent and as processed, the policy it was admitted under, its vault, what the provider received, what came back and what the client has of it, and the audit event. One action per step of the handler and per early return. |
| `StreamProcessor` | `SSEProcessor`, the chunked scan, `ScanContent`'s choice of matches, `RestoreParts` | `pending` events, `arrived` and `emitted` text, the `places` of the events in it, `findings`, `status`. Text is a sequence over a few characters that differ in the ways the code tells apart: a credential byte or not, part of a marker or not, white space or not. |
| `ArtifactStore` | `rulestore.Store` and `modelstore.Store` | `images`: what a crash may leave on disk, the last being what is there now; `op`: the running operation and its step. |
| `ScannerControl` | the handlers of `policy_artifacts.go`, `policy.Store`, the configuration of a new core; extends `ArtifactStore` | `task` of each handler, the `scanner` requests run through, the model, the policy in memory and on file. Mutexes are predicates over the tasks. |
| `TransparentCA` | `CAStore`, the Linux trust directory, `LinuxCAController` | `material` of each authority, the pointer, `certs` and the `database` made of them; `work` is the step of the running operation. Each file operation and each refresh is a step with its failures. |
| `Instance` | `veil serve` from lock to release, `core.json`, the desktop's supervisor | `phase` of each core, `lock`, `stateFile` with `stateImages`, what a power failure may leave of it; the desktop's step, its `child`, and the core it waits for. |
| `LocalLogs` | the audit log, the developer traces, the feedback file | `log` with `logImages`; `writing`: the step of the operation that holds each log's mutex; a record is its number and size, torn or whole. |
| `BrowserAuth` | the store of browser tickets and sessions | expiries of tickets and sessions, and the clock reading each handler came to the lock with. |
| `CoreProcess` | the three modules above as processes that come and go | adds kills, interrupts and power failures, and that a core starts only if its logs can be read. |
| `CoreCalls` | the management API as its clients see it | one registration with its lease, the sessions on it, `open` or `expired` (out of time, swept or not); a call is refused, fails before it is served, is served, or is served and its answer lost. |
| `Launch` | `runProtected`, `runNestedProtected`, the lease and observation goroutines, os/exec and the process group; extends `CoreCalls` | steps of the launcher, of its two goroutines, of the child: its root, members it left behind, the pipe. |
| `Attach` | `Controller.Run` of `sdk/attach`, `MaintainLease` of `sdk/native`; extends `CoreCalls` | steps of the controller, which session its target uses, which it holds. |
| `Clients` | launchers, controllers and maintainers of one agent | composition only. |

The proofs are in `SessionManagerProofs`, `CoreRevocationProofs` (with `Registry`'s),
`ProxyRequestProofs` (with those of `ApprovalBroker` and `PolicyEngine`),
`StreamingProofs` (`LegacySSE` and `StreamProcessor`), `ScannerControlProofs` (with
`ArtifactStore`'s), `CoreProcessProofs` (with those of `Instance`, `LocalLogs` and
`BrowserAuth`), `TransparentCAProofs` and `ClientsProofs`.
`TransparentCA` and `Clients` state their inductive invariants in a section of their
own, behind the properties.
`MC*` modules give the constants their values and define symmetry. Operators called
"Faulty variant" are plausible mistakes in the operator that follows them; nothing
uses them, and replacing that operator by one of them must break the property
`PROJECT.json` names (`mutants`).

Abstractions worth knowing:

- `CoreRevocation` has one pool of slots where the core has two (`ProxyRequest` has
  both); `interactive` is always false; `Server.Close` is not an action.
- In `LegacySSE` a channel to be destroyed is first `doomed` and destroyed in a
  later step, so goroutines may act in between even where the code destroys it
  before they can: more behaviours than the code, never fewer.
- `ProxyRequest` takes a body for the sequence of its findings; what lies between
  them passes unchanged. Whether the session is alive is a free choice at
  authorization, since `CoreRevocation` follows it. Every refusal of a header,
  query, type, encoding or size is the one action `RefuseForm` or `RefuseAnswer`.
- `StreamProcessor` joins the fields of an event into one text, resolves a rule to
  allow, redact or block, and gives it whole events. A field of another choice
  arriving in between and the byte decoder are not in it; that a finding still
  pending is asked about once more at each flush is in `ProxyRequest` (`AskAgain`).
  A rule is a value behind a context; what follows a value is not looked at.
  The marker, the closing, placeholders and `[REDACTED]` never overlap in a text, and
  what a rule needs to see fits into the scanner's overlap.
- `ArtifactStore` assumes a journalled file system: renames and removals reach the
  disk in order, late, and syncing a directory takes all earlier ones along. Data
  of files is synced before they are renamed, as the code does. Signatures and
  digests are abstracted to a version being whole or torn. `ScannerControl`,
  `Instance` and `LocalLogs` keep the sets of images a crash may leave likewise.
- `TransparentCA` leaves out a second failure inside `CreateCA`'s own cleanup, and
  power loss: a process may die between any two steps, the file system may not.
- `CoreProcess` runs one workload per behaviour (the desktop, one of the logs, or
  browsers), and outside the desktop's a core starts in one step: the parts share
  nothing but the lives of the processes, so nothing is lost but interleavings of
  independent steps.
- In `CoreCalls` a lease and a session may run out at any moment, however soon: nothing
  bounds how late a client's heartbeat or rotation comes. Each call takes effect at one instant. The core's own handlers
  are not atomic; `CoreRevocation` is where they are taken apart.

## 3. Runs, bounds and what they show

| Run | Instance | Why it is enough, and what it shows |
|---|---|---|
| `session_manager` | 3 identifiers, 2 routes, 2 endpoints, `MaxTTL` 2, `MaxLockWait` 1, `MaxTime` 3 | Three identifiers give chains of depth three and siblings; two endpoints and two routes let a nested session ask for what its parent lacks; a lifetime of 2 in 3 ticks lets a child be clamped, expire with and before its parent, and be swept by a stale clock reading. Authority is derived (`AuthorityFlowsFromParent`), every removal cancels (`RevocationIsComplete`), `List` always returns a forest the call tree accepts (`ListedSessionsFormATree`). |
| `registry` | 3 agents for 2 identities, 2 surfaces, a queue of 2, 2 generations, 2 ticks | One removal fills the queue and the next overflows it; generation 2 is the saturated one; the third agent is refused at capacity. Revocations are never lost, withdrawn routes never return, a lapsed lease cannot be renewed and a tracked agent is never locked out by capacity. |
| `core_revocation` | 1 agent, 1 surface, 2 HTTP goroutines and the ticker, no clock | Two handlers and the ticker are needed for a drain by one and a deletion by another between the steps of a third. `SettledRoutesCarryNoTraffic`: when no goroutine still holds drained routes and the queue is empty, nothing is in flight on a route that is not active; and the refinement `ImplementsRouteCapability`. |
| `core_liveness` | all kinds of requests, 1 goroutine, the ticker, the monitor, 1 session that may outlive the lease (`MaxTTL` 2, `MaxLease` 1), 1 tick, fairness | Traffic is authorized whenever it starts; closing routes close, withdrawn traffic stops for good, idle expired sessions are revoked. |
| `clients` | a launcher (which a nested launcher joins) against a lease maintainer, or two programs that attach or maintain; 2 generations, 2 sessions, 1 lost call for each | The second generation is the successor a late cleanup must spare; two sessions are one rotation; with one failure each path of both clients is taken with every call refused, lost or answered in vain. Cleanup is complete unless two calls fail (`OneFailureLeavesNothingOpen`), in order (`NothingOutlivesTheLaunch`; `OnlyTimeEndsAuthority`: a target's session may run out, but nobody revokes it before the target has left it), and spares the successor (`CleanupSparesSuccessor`); lost protection stops the child (`LostProtectionStopsTheRoot`). |
| `launch_groups` | one launcher whose child leaves a process behind (expected to be violated) | See section 6. |
| `legacy_sse` | 2 GETs, 2 POSTs, 1 session, 1 channel, 1 slot, 1 tick, fairness | The second GET meets the limit, the second POST has to wait. A vault always has an owner while it lives and is not taken from a POST that acquired it (`VaultsFollowTheirUsers`), and both an unlisted vault's destruction and a waiting POST's return are inevitable. |
| `core_process` | 3 cores, 2 faults; sizes 1 and 2 of a limit of 2, 1 feedback entry, 3 records; 2 tickets, 2 browsers, one place in each table, 3 ticks; fairness | Three cores are one that died, one somebody started and the desktop's own; two faults are a kill and a second one while recovering. The third record meets compaction after a full log; two browsers hold readings of different ages for one ticket. The serving core is on file, acknowledged records survive in the file until they and the newer ones do not fit, logs stay within the limit up to which they can be read, a ticket buys one session, and an open desktop gets a core that it has the token of and has noticed. |
| `requests` | a post with two findings and a stream, or a request for models, of one session; 2 policies that replace each other; room for 1 approval, a vault of 1 entry, 1 item of an answer asked about up to twice; fairness | The two requests compete for the approval; the second finding of the post meets a full vault after the first took the place, or while the policy changed. Approvals may be answered, time out, be cancelled or race. Nothing is sent or shown unapproved, a decision is used once, nobody hangs. The module also compares `Decide` with `Reference` for every list of up to three rules over two dimensions. |
| `scanner_control` | 2 versions, 1 model, 2 policies, 2 handlers, 2 unsynced changes | Two handlers meet at both mutexes; two unsynced changes are an operation that failed to sync and the next one. Whatever is interrupted where, a core starts with the active version, nothing acknowledged is lost, and scanner and policy in memory are those acknowledged last. |
| `stream` | five rules: two secrets that share their second half, a third that overlaps both, a value told by a credential byte before it and one told by a blank; two placeholders of which one is known; lookbehind 2, chunks of 4 with an overlap of 2, 4 pending events, batches of 2, 6 characters | Every key is as long as the lookbehind and a placeholder longer; six characters hold a placeholder and the beginning of a key, and more than a chunk, so keys lie across and inside the overlap. Two rules are of one priority, what tells a value may go out before it, and an event may go on with a key and begin a placeholder; which responses are ordinary (`Ordinary`, section 6) depends on how these meet. Of an ordinary response nothing is emitted that a look at the whole text would have replaced or blocked, a stream closed without error emitted all of it, each finding is counted once. |
| `transparent_ca` | 4 authorities, room for 4 entries, 3 failures or deaths; fairness | A rotation holds three authorities (old, candidate, leftover), the fourth meets the store's limit; three faults are a failure, one in its rollback and one in the next reconciliation. The system's trust follows the store (`TrustFollowsTheStore`), and repeated reconciliation converges unless the store was torn (`ConvergesUnlessTorn`). |

Where processes, requests or streams come to an end, the configurations say
`CHECK_DEADLOCK FALSE`: streams close or fail, clients return, cores run out of
identities, requests depart, authorities are used up. Bounds that are not the
program's own limits: `MaxTime` (ticks of the clock), `MaxLockWait` (age of a clock
reading), `MaxText`, `MaxBatch`, `MaxItems`, `MaxRounds`, `MaxRecords`,
`MaxUnsynced`, `MaxFaults`, `MaxFailures`, the number of names in each set, and
`MaxGeneration`, which in `Registry` stands for the saturated 64-bit counter.
Symmetry is used for identifiers in runs without liveness properties only.

Where a property has an exception, it is one the code really takes:
`ScannerFollowsItsChoices` excepts the race of section 6 (`raced`), `TrustFollowsTheStore`
an activation that was undone under the pointer and reported as failed (`misled`,
`abandoned`), `AcknowledgedPolicyIsInForce` the time from the beginning of an update
to its success, `OneFailureLeavesNothingOpen` a second lost call, and
`OpenDesktopsGetACore` a core that is not the desktop's at the endpoint on file
(`AnotherAnswers`), a torn log, and somebody who starts and interrupts cores in a
shell for ever.

## 4. Fairness

Weak fairness of each goroutine's next step: Go schedules every runnable goroutine
and its mutexes are starvation-free. The cleanup ticker fires as long as the
server runs (`lifecycle.go:83-99`), so its rounds are fair too. A POST that waits
for a slot of a channel sends into a buffered channel; Go serves blocked senders in
order, which is strong fairness of taking the slot. A POST's exchange ends, because
the server's and the upstream client's timeouts bound it. The desktop's thread and
the processes of a core run on. In `Clients` the steps of a client and the lapse of
a lease that nobody renews happen: HTTP calls have timeouts, the lease is a time.
Strong fairness of beginning a reconciliation in `TransparentCA` says that the
administrator tries again, which is what `ConvergesUnlessTorn` is about. Nothing is
assumed of anybody else: clients need not send, delete or disconnect, providers need
not answer, administrators need not decide, no context has to end, children need
not exit, and the clock need not advance unless a property's premise says that time
has passed.

## 5. Proofs

Each argument is an inductive invariant, which TLC confirmed on small instances before
it was proved; the theorems hold for every value of the constants that satisfies the
modules' assumptions.

- **SessionManager** (`SessionManagerProofs`). `IInv`: types,
  `cancelled` is exactly `issued` minus the table, and the table is well derived:
  parents are present, a child has at most its parent's routes, its endpoint,
  interaction only with it and no later expiry, and no set of entries lacks a root.
  Containment alone is not inductive: the cascade must be known to leave no orphan,
  which the lemmas about `ClosedUnderChildren` provide. Theorems: `InductiveInvariant`,
  `AuthorityContainment`, `RevocationComplete`, `CallTreeTotal`, `SweepsAreExact`
  (an action property, from the invariant that expiries are clamped).
- **Registry** (`CoreRevocationProofs`). `IInv` adds to the types that each entry's
  generation is the tracked one, that no route was exposed in a later generation
  than the tracked one, and that the routes of which a client was told are protected
  or settled. Without the second part nothing says that a new plan's routes are not
  in the queue already. Theorems: `InductiveInvariant`, `RevocationsFailClosed`,
  `QueueIsStale`, `RoutesNeverRevive`, `TrackedAgentsHaveRoom`, `LapsedLeasesAreOver`.
- **CoreRevocation** (`CoreRevocationProofs`). `CoreIInv`: both tables keep their
  invariants, every goroutine is on a suffix of its program (`OnTrack`), drained
  routes are in its hands until it has revoked them, and a request that has passed
  the registry relies on a route that is protected, not yet told of, or about to be
  revoked (`Cleared`), under a live session. A step is described once, by what it
  does to the tables (`Surroundings`), and a goroutine that rests stays cleared for
  that reason alone (`StillCleared`). The refinement maps each step to one of
  `RouteCapability` or a stutter. Theorems: `CoreInductiveInvariant`,
  `CoreDrivesRegistry` (so that the registry's theorems hold in the core),
  `TrafficAlwaysAuthorized`, `SettledRoutesAreQuiet`, `CoreImplementsCapabilities`.
- **LegacySSE** (`StreamingProofs`). `ChannelsInv`: only open channels are listed, a
  channel doomed or destroyed is over or out of use, a channel's counters are the
  numbers of POSTs at the steps between acquiring and releasing, and the GET of a
  channel that opens has its vault. One POST moves at a time, so that a counter is
  recounted by one (`Moved`, `Recount`). Theorems: `ChannelsAreConsistent`,
  `VaultsAlwaysFollowTheirUsers`, `CountersCount`.
- **StreamProcessor** (`StreamingProofs`). The properties compare what was emitted in
  pieces with what becomes of the whole text, so most of the proof is about texts.
  *Scanning.* What is found in chunks and merged is what one scan finds
  (`ChunkedScanFindsEverything`): a match lies in the last chunk that starts before
  its context, and groups of overlapping matches are the same, with a leading match
  of the same priority, whether their members were merged before or not; of the same
  rule if ties agree. *Rewriting.* Redacting and then restoring is the same as both at
  once (`RedactThenRestore`), since neither creates, hides or touches a placeholder.
  *Boundaries.* `EmitCount` cuts a text where it cuts no credential (`Gap`) and leaves
  no marker open (`OpenEnd`, `EmitCountIs`); no value reaches over the end of an event
  of an ordinary response where there is such a gap (`GapIsJoint`), and a text cut
  there may be made safe in two parts (`SafeJoint`). `StreamInv` is then short: while
  the response is ordinary, what arrived is a part dealt with, followed by what is
  pending; there is a gap between them, at the end of an event; the first part has
  nothing at which a response must stop; emitted is the first made safe, and findings
  list its matches, each once. A response that is ordinary was so all along
  (`OrdinaryBefore`), and the events at hand stand where `places` says
  (`PlacesTogether`). A flush is one lemma for every number of events and every outcome
  (`FlushHandles`), so that `Push` and `CloseStream` are two uses of it. The recursive
  functions (texts of events, chunks) are unfolded by induction on a bound taken as a
  least counterexample. Theorems: those named, `StreamInvHolds`, `StreamIsSanitised`,
  `StreamIsComplete`, `StreamFindingsOnce`, `StreamTypesHold`. They hold of any rules:
  no condition is set on the detector. The last two but one and `StreamIsSanitised`
  say something of the responses that are `Ordinary`, one by one: section 6 lists what
  that leaves out.
- **ApprovalBroker** (`ProxyRequestProofs`). `BrokerInv`: the table is finite and
  fresh, and an accepted decision is in one place - with one resolver, in the
  channel, or returned. That it was used once follows only by counting these
  places. Theorems: `BrokerInvariant`, `DecidedOnce`, `CapacityIsReturned`.
- **ProxyRequest** (`ProxyRequestProofs`). `ProxyInv` is the broker's invariant and,
  for each request, that the body is cleared behind the pipeline and as it was sent
  before it, that what the provider received is cleared, that the vault holds the
  client's own values, that each item of the answer may be seen, and that items were
  asked about in the order they came, round by round (`AskedInOrder`), so that the
  answer an item was processed by is the last one. It rests on two
  facts: steps of the proxy are steps or stutters of the broker (`BrokerSteps`), so
  that its invariant carries over; and what allowed a finding once allows it for
  good (`AllowedStays`), because a request keeps the policy it was admitted under
  and an accepted decision does not change. Theorems: `RequestsAreConsistent`,
  `ProvidersGetWhatWasApproved`, `ClientsSeeWhatWasApproved`, `BrokerServesRequests`.
- **PolicyEngine** (`ProxyRequestProofs`). What the loop has found among the first n
  rules is nothing, a block, or the most specific rule that matches with no block
  among them (`Found`), and one turn keeps it so (`ChooseFinds`). No two scopes that
  match are equally specific, because the weights are those of a binary number
  (`SpecificityDecides`) and a valid policy has no scope twice. Theorem:
  `DecideIsUnordered`, for every policy that passes `ValidRules`.
- **ArtifactStore** (`ScannerControlProofs`). `IInv`: types, the running operation's
  step agrees with the disk, and every image a crash may leave is sound with
  respect to what was acknowledged. The steps must be in it: that removing a torn
  directory touches neither the active nor an acknowledged version follows only
  from its being torn. Theorems: `Invariant`, `RestartAlwaysSucceeds`,
  `ChoicesSurvive`, `VersionsSurvive`, `ChangesSurvive`.
- **ScannerControl** (`ScannerControlProofs`). `ControlIInv`: at most one handler holds
  `scannerMu` and at most one is behind the store's operation; the scanner, the
  model and the policy follow what was last acknowledged, in each step of the
  handler that changes them in what that step may rely on (`RulesFollow`,
  `ModelsFollow`, `PolicyFollows`). That every step is one of the store or a stutter
  (`StoreSteps`) carries the store's invariant over. Theorems: `ControlInvariant`,
  `ScannerAlwaysFollows`, `PolicyAlwaysInForce`, `StoreServesHandlers`,
  `HandlersLoseNothing`.
- **BrowserAuth** (`CoreProcessProofs`). `BrowserInv`: handlers hold minted tickets,
  and a ticket that was looked up is out of the table; a pruned table only loses
  entries, however old the clock reading. Theorems: `TicketsLeaveTheTable`,
  `OneAttemptPerTicket`.
- **Instance** and **CoreProcess** (`CoreProcessProofs`). `InstanceInv`: whoever is past
  the lock holds it, and between writing `core.json` and leaving, the file names the
  core. The second part is not inductive without the first: removal and power loss
  touch the file under somebody's name. Theorems: `OneCoreAtATime`,
  `ServingCoresAreFound`, and `TicketsSurviveNoRestart`, which carries the browsers'
  promise to the process.
- **LocalLogs** (`CoreProcessProofs`). `LogsInv`: types, the step of the operation that
  holds a log's mutex shows in the log (`StepsShow`), the feedback file is whole, and
  both properties; compaction may drop only what does not fit with all that is newer
  (`Displaced`), which is said without the code's loop. Records behind which a torn
  one lies are whole but no start reads them, and the property does not say so. `CoreLogsInv` adds that nothing is written unless a core serves.
  Each step touches one log. What compaction keeps is computed by recursive
  functions over the records (`SizeUpTo`, `KeptUpTo`); their bounds are proved by
  induction on the record's number, taken as a least counterexample (`Least`,
  `UpTo`, `Iterated`). Theorems: `LogsAreConsistent`,
  `AcknowledgedRecordsAlwaysSurvive`, `LogsNeverOutgrowTheirLimit`.
- **TransparentCA** (`TransparentCAProofs`). `TrustInv`: types, the property, and for the
  running operation what its step relies on (`WorkInv`): which candidate is placed
  where, what is being refreshed, issued, swept or retired, and what the pointer
  holds. Three courses - installing, sweeping, retiring - say what a step of them
  must establish, and five lemmas say what each file operation does to the trust
  that was there. Theorems: `OperationsKeepTheirGround`, `TrustAlwaysFollowsTheStore`.
- **Clients** (`ClientsProofs`). `ClientsInv`: open sessions belong to the client whose
  generation is in force; a session that its client will not revoke is the trace of a
  call that failed, and after the removal of two (`Accounted`); a launcher's child
  and goroutines live only between preparation and join (`Sheltered`); what a
  controller keeps is open, or out of time, while its registration is in force (`Covered`), and its
  target is where the last accepted binding put it (`Routed`). A call leaves the
  sessions of every other client alone or takes its registration with them
  (`Harmless`), so each action is proved for the client that takes it. Theorems:
  `ClientsAreConsistent`, `ReturnedClientsLeaveNothing`, `TargetsAreNotRevoked`,
  `AuthorityOutlivesTheChild`, `SuccessorsAreSpared` (an action property).

Assumptions on the constants are what the modules declare and TLC evaluates: limits
are natural numbers, and positive where a controller must be able to open a session
or a log to hold an entry; a client is a launcher or another program, not both;
the words of the stream processor never overlap, its rules are finitely many and fit
into the overlap, which is smaller than a chunk.

Every invariant and every action property of a passing run is stated by a theorem.
Only model-checked: everything about liveness, fairness and ENABLED, which TLAPS does
not reach (the liveness of `CoreRevocation`, `LegacySSE`, `ProxyRequest`,
`CoreProcess`, `TransparentCA` and the launcher). The call tree's
loop over the session list is stated by what it accepts (`CallTreeAccepts`), not
computed.

## 6. Disagreements with the documents

The run that is expected to find a violation:

- `launch_groups`. When the root of a launched group has exited and a process it
  left behind holds its output, `command.Wait` reads on and os/exec no longer looks
  at the context (`cmd/veil/launch.go:224`): neither a lost lease nor a failed
  observation ends the group. `doc/adr/0005-transparent-mode-boundary.md:18` says
  that a failed observation ends the isolated process group. What holds is that the
  root is stopped (`LostProtectionStopsTheRoot`).

Seen while modelling, in the models' behaviours or in the code next to them, with
no run of their own:

*Core.*

- `deleteAgent` answers 204 after its deferred `applyRegistryRevocations`
  (`internal/core/agents.go:33`), but if another goroutine has drained the queue and
  not yet deleted the sessions, it finds nothing to do and answers while requests of
  the removed generation are in flight. `internal/core/server_test.go:409` and `:414`
  take for granted that they are gone. The weaker `SettledRoutesCarryNoTraffic` and
  `ClosesRoutes` hold.
- `Server.Close` empties the tables before it stops listening
  (`internal/core/lifecycle.go:119`): a request accepted in between is served by an
  empty core.
- `deactivateRulePack` reads the semantic detector before it takes `scannerMu`
  (`internal/core/policy_artifacts.go:105`); a model activated in between is missing
  from the scanner. Only an embedder that calls `WithSemanticRuntime` is exposed;
  `veil serve` does not.
- A switch or a policy that is refused because a directory could not be synced is on
  disk all the same and takes effect at the next start, or, for a rule pack, at the
  next switch of the model. `Deactivate` finds no pointer after such an attempt and
  reports success without syncing (`internal/rulestore/store.go:221`).
- A removal that fails half way leaves a version that can be neither listed,
  removed nor installed again, and a crash during an installation leaves a staging
  directory on which `List` fails (`internal/rulestore/store.go:188`, `:262`), and
  which counts against the limit (`internal/modelstore/store.go:86`). In
  `ArtifactStore` these are torn versions and litter; startup is not affected.
- The audit event of a request that was redacted says ALLOW with no findings when
  the provider then fails (`internal/proxy/proxy.go:398-470`); `doc/02` (line 81)
  has the audit record the decisions made.
- An approval that arrives when the request's context is already done may be
  honoured, because `select` picks at random (`internal/policy/store.go:191`);
  `doc/adr/0001` and `doc/07` say a timeout blocks. `ApprovalBroker` has both
  outcomes; the exchange that follows runs under the same ended context.
- A record torn by a power failure or a full disk makes its log unreadable and every
  later start fails; ADR 0006 (line 29) has the desktop restart the core.
  `OpenDesktopsGetACore` excepts it.
- A `WriteState` whose sync fails leaves `core.json` behind.

*Streams.* The properties of the `stream` run, and their theorems, speak of a response
that is `Ordinary`, and cut into events in a way that is. That leaves out:

- An event that ends inside a value, or between it and what tells it, where one of the
  two bytes is not a credential's (`EvenlyCut`). The blank behind `Bearer`, or behind the
  equals sign of an assignment, is none (`internal/detector/detector.go:95`, `:98`), so an
  event that ends in it may go as soon as enough text has followed
  (`internal/pipeline/stream.go:108-118`). The match is left for a later flush (`:144`),
  which scans only what is still pending (`:126`): the value is passed on in clear.
  `doc/01-product-definition.md:94` has credentials split over chunks handled correctly,
  and `doc/06` (line 100) lets no split secret leak. Of a blocked value longer than the
  lookbehind with other bytes in it (a PEM key) the beginning is emitted before it is
  recognised, although `doc/03` (line 81) wants suspicious content blocked rather than
  flushed.
- An event that goes on with a credential and begins a placeholder (`EvenlyCut`): the
  second boundary search (`stream.go:118`) undoes the first and lets the credential's
  first part out. This is a hazard no property covers.
- Overlapping matches of one priority and of two rules (`TiesAgree`). The earlier one
  leads, but a match merged in one chunk has the start of its group, so that the end
  of a chunk can decide which of the two a merged finding is reported under, and with
  it the action (`internal/detector/detector.go:372-381`).
  Its place and its priority are the same. All critical secrets share a priority
  (`:390-400`), but two of them must overlap without being one.
- A value over a placeholder (`WordsStandFree`): a database URL or an assigned value in
  which one stands is redacted with it, before it would be restored.

*Transparent mode.* `controller_linux.go:13-15` says that an interrupted rotation
converges when it is called again. It does not when `Activate`'s rename succeeded
and its sync failed, or when the process died inside `CA.Remove` (`ca.go:251-258`):
each later `Rotate` and `Reconcile` fails. These are `Torn` in `ConvergesUnlessTorn`.
A candidate's material is removed even when its certificate could not be
uninstalled (`controller_linux.go:51`), and nothing can retire it then (`abandoned`).

*Attach.* `sdk/attach/controller.go:63-64` says that route credentials are rotated before
expiry. The rotation is due at half the session's time, but in the loop that also
sends heartbeats and applies bindings (`:113-147`); each call may take as long as the
client's timeout, 30 seconds by default, and a session may be as short as two. The
target is then routed through a session that has run out, until the rotation
(`expired` in `CoreCalls`).

*Launch and desktop.* The session of `veil launch` ends after a day
(`cmd/veil/launch.go:104`) and nothing renews it: a child that runs longer is cut off
while its lease goes on. A heartbeat in flight when the child exits is reported as a
lost lease. A nested agent's own group survives a SIGKILL of its launcher. When the
watcher fails to start, the group is not ended after `Wait`. In the desktop,
`refresh_sessions` reports 0 when it fails and races with new sessions before the
core is stopped (ADR 0006, line 27); `start_core` drops the handle of a child it
owns when another core answers; a core that is spawned while it waits is not stopped
on quit; a foreign program at the endpoint on file keeps the desktop from starting
one (`SomebodyAnswers`).

## 7. Not modelled, and the plan

Done: the tables and their composition, the requests with policy, approvals and
vault, streams and channels, the stores with the handlers above them, the clients,
the processes of the core with the desktop and the files they leave, the
transparent mode's authority, and proofs of all that is not liveness.

Next:

1. **Core**: `Server.Close` and interactive sessions in `CoreRevocation`.
2. **Streams**: events with fields of more than one choice.

Left out for good: provider JSON rewriting (data without state), reading `/proc`
and comparing its snapshots, signing and TLS, regular expressions and entropy
(data), discovery and diagnostic reports, the dashboard, the updater, and the
rewriting of third-party configuration files, which is formatting. The managed
monitor's snapshot file is an input of `CoreRevocation` (valid, invalid, changed).
