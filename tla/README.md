# TLA+ verification of the R-TRAPS reference implementation

R-TRAPS decides password logins at edges: an edge may reject a login locally when a
certified *positive screen* shows that the password belongs to no credential of the
account, or when a *negative cache* remembers that the verifier backend refused exactly
this password for exactly this credential-set version. Everything else is forwarded to
the backend. The point of the design is that the shortcut never costs a valid login,
while the control plane rotates credentials, deletes and re-creates accounts, edges crash
and recover, and replicas and certificates arrive late.

This directory holds the TLA+ specification of that behaviour, the TLC instances that
check it and the TLAPS proofs about it. Paths below are relative to the repository root.

## 1. Inventory

| Component (source) | State it keeps | Operations | Interacts with | Hard part | What makes it correct |
|---|---|---|---|---|---|
| Directory (`dataplane/directory.py`) | authoritative slots (view, epoch, last generation), edge replicas, aliases, crashed edges, next epoch | `reserve_epoch`, `publish_active`, `delete`, `add_alias`, `replicate_to_edge`, `mark_edge_uncertain`, `recover_edge`, `lookup` | called by the state machine and every login | replicas of any age, refused publications, reserved epochs published out of order | a PRESENT answer of an edge is the authoritative one |
| Verifier backend (`dataplane/backend.py`) | prepared, active and accepted versions, fail-open window | `prepare_version`, `activate_version`, `commit_directory_version`, `delete_account`, `verify`, `finalize_match` | state machine writes, logins read | the window between the backend and the directory step | the presented version is always accepted; revoked and deleted ones are not |
| Positive screen (`dataplane/positive.py`) | base and delta representations and their epochs, certificates | `publish_delta`, `compact`, `retire_delta`, `issue_certificate`, `install_certificate`, `clear_edge_certificates`, `query` | state machine writes, logins query | late and repeated certificates against representations that have moved on | one-sidedness: never reject a represented credential |
| Epoch tracker (`controlplane/epochs/watermark.py`) | watermark per edge and scope, uncertain edges | `advance`, `mark_edge_uncertain`, `get`, `covers` | state machine writes, only tests read | an `advance` that raises after everything else is written | watermarks never regress |
| Activation state machine (`controlplane/delta_activation/state_machine.py`) | one record per activation key (status, view, required edges, acknowledgements), latest key per username | `prepare`, `publish_delta`, `acknowledge_delta`, `activate`, `compact`, `acknowledge_compacted`, `retire`, `crash_edge`, `recover_edge`, `delete_account`, fault hook | calls the four components above | three operations run without its lock; `activate` may stop half-way | the component properties above hold through any interleaving |
| Singleflight (`dataplane/singleflight.py`) | flight per negative key (result, event, waiters), total waiters | `execute` | called by the engine | shared results, timeouts, two caps | counts are exact, a flight never outlives its leader's work, no valid login is denied for lack of room |
| Authentication engine (`dataplane/engine.py`) | none of its own; a login's local variables | `authenticate`, `authenticate_padded` | directory, negative cache, screen, singleflight, backend | every step reads state that may have moved since the last one | valid logins are accepted, accepted ones were valid, uncertainty is never a denial |
| Negative cache (`dataplane/negative_cache.py`) | bounded map of keys to entries with expiry, expiry heap, order of use or frequencies, index and count per account and region; rotating key | `derive`, `rotate`, `lookup`, `insert` | engine | quotas, eviction and expiry in one call; four redundant structures | entries are sound; bounds hold; the structures agree; nothing is evicted in vain |
| Service runtime (`service/runtime.py`) | admission flag, frontend and backend queues, pending requests, active workers, counters, negative cache | `submit`, frontend and backend workers, completion, `queue_snapshot`, `shutdown` | the two below, the backend verifier | a request passes five threads; shutdown may come at any moment | exactly one terminal record per admitted request; the shutdown report is true |
| Async singleflight (`service/singleflight.py`) | waiters per negative key, total | `join_or_lead`, `finish`, `cancel_all` | service workers, shutdown | the leader may be dropped by an overloaded queue | waiters are completed once, by the leader's outcome |
| Service padding scheduler (`service/padding.py`) | heap of pending releases, timer thread | `schedule`, `cancel_pending`, `shutdown` | completion, shutdown | full heap; a callback that runs while shutdown empties the heap | a response is released once |
| Service-fault processes (`experiments/runners/service_fault_evidence.py`) | edge: readiness, sequence and state file; proxy: its edge; backend: injected failures; client: the backend it was told of | `lease_expire`, recovery messages, `produce`, `delay_release`, `set_edge`, `set_backend`, `login`, `verify`, `finalize`, process start and kill | loopback connections between processes | processes die between memory and file; ports are reused; answers arrive late | an acknowledged expiry survives; answers come from the right process |
| Formal collection (`experiments/runners/failure_timing_bench.py`) | advisory lock, marker file, nonce registries, output files, seed children | `collect_raw`, `validate_raw` | files shared by calls, child processes | a call dies while its child measures on | one measurement at a time; one per nonce |
| Adaptive cuckoo filter (`reference/adaptive/cuckoo.py`) | two tables of tokens and fingerprints | `add`, `query`, `confirm_false_positive`, `delete` | benchmarks | chains of kicks, undone when they fail | no false negatives |
| Response padder of the data plane (`dataplane/padding.py`), static filters, optimizer, cost models, theory validators, other experiment runners (`reference/`, `models/`, `theory/`, `experiments/`, `scripts/`) | sequential data structures, numeric programs, benchmark drivers | | | numeric | outside this project, see section 8 |

The concurrency of the core and of the service is that of threads: logins and administrative calls run on caller threads,
each component has a reentrant lock of its own, and the state machine has one more that
only some of its operations take. Nothing of the core is persisted: a "crash" there is an edge losing its
certainty (`crash_edge`) or an activation that stops (`fault_backend_advance_before_directory`).
The two experiment runners add processes that are killed, and files that outlive them.

## 2. Modules

```
Credentials ── identities shared by all
   ├─ Directory ─────────┐
   ├─ InMemoryBackend ───┤
   ├─ PositiveScreen ────┼─ ActivationStateMachine ── ActivationStateMachine_proofs
   ├─ EpochTracker ──────┘        │ (implements, by INSTANCE)
   │                              ▼
   ├─ InMemoryBackend ──── AccountAuthority ─┐
   │  (InMemoryBackend_proofs)               │
   └─ Singleflight ──────────────────────────┴─ AuthDataPlane
                                                └─ AuthDataPlane_proofs
MCActivation, MCActivationEdges, MCAuthDataPlane: instances for TLC

AsyncSingleflight ─┬─ AuthenticationService ─┬─ MCAuthenticationService
PaddingScheduler ──┘                         └─ AuthenticationService_proofs
NegativeCache, ExpiryHeap, AdaptiveCuckooFilter ── MCEdgeStructures
   (NegativeCache_proofs, EdgeStructures_proofs)
EdgeTransport, RemoteBackend, FormalCollection ── MCEvidence
   (ServiceFault_proofs for the first two, FormalCollection_proofs)
```

**Credentials.** A *scope* (account ID, generation, credential-set version) is the identity
everything is bound to (`DirectoryView.scope`). An account ID belongs to one username, so an
`ActivationKey` is its scope. `Creds[s]` is the set of passwords of the authenticators
a scope is prepared with. Tokens, verifiers and negative keys are injective functions of
scope and password (collisions of 256-bit digests are left out, as in `theory/definitions.md`),
so a token of a scope is its password.

**Directory, InMemoryBackend, PositiveScreen, EpochTracker.** One operator per method, each
method being one critical section of its component's lock. A call that raises before it
writes anything has no step. `EdgeLookup` and `AuthoritativeLookup` are `lookup` with and
without an edge; `FailOpenSnapshot` and `ExpectedSnapshot` are the versions `verify` picks under
the lock, `CompareResult` the comparison it makes afterwards. `issued` remembers every certificate
that was handed out, because `install_certificate` takes any of them back at any time.

**ActivationStateMachine.** One action per operation. The lock (`activating # None`, tested by
`LockFree`) is held across the three component calls of `activate`, which are three
steps because logins and unlocked operations see the states in between. `crash_edge`,
`recover_edge` and `delete_account` are one step per component call, since they take no
lock. The other locked operations write to components nobody can see half-done and are one step.
Three constants name disciplines of the caller, so that each can be dropped:

| Constant | When TRUE | Justification |
|---|---|---|
| `SerializedAdmin` | administrative calls of a username come from one thread; crashes, recoveries, replication and certificate transport stay concurrent | the repository's drivers do so (`experiments/runners/fault_bench.py`); dropped in run `activation_delete_race` |
| `ReuseAfterDelete` | a new generation is prepared only after `delete_account` has removed the old one's verifiers | the documented reuse scenario; `prepare` does not enforce it |
| `ResumeInterrupted` | an activation that stopped is resumed before another version is activated | dropped in run `activation_window` |

At most one `delete_account`, one `recover_edge` and one `crash_edge` per edge are in progress; in run
`activation_edges` the constraint `OneCrash` lets one edge at a time be inside `crash_edge`.

**AccountAuthority.** The abstract specification: which scope is current, what the backend accepts,
and nothing of records, edges, certificates or epochs. `ImplementsAuthority` states that
the protocol implements it under `current <- authoritative[u].scope` and so on.

**Singleflight, AuthDataPlane.** `authenticate` is cut at every access to shared state: directory
lookup, cache lookup, screen query, joining a flight, the backend snapshot, completing the
flight, waking up, the retry, the insertion with the decision. The control plane is
`AccountAuthority`, which moves at any time (`Govern`). Of the edge's replica and
screen, the login path uses exactly what is proved of them below the abstraction: a view is
the authoritative one or not PRESENT (`PresentIsCurrent`), a screen is complete or uncertified
(`ScreenComplete`). Ghost variables record what happened while a login was underway: `continuous`
(its password was valid all along), `allowed` (some live version had it at some moment), `excuse`
(the verifier failed, or was made to refuse by fault injection).

**NegativeCache, ExpiryHeap.** `NegativeCache` has one action per outcome of `lookup` and
`insert_with_result`, each with the purge, the victims, the indexes and the policy of that call. An
ordered dictionary is the set of its pairs (k, j) with k before j. Time is the tick of the clock; a call may have
read it before another call ran (`ReadLag`), because callers pass `now`. Cells of the model hold what the code can
distinguish: whether a victim is the least recently used of a group, not a list position. The heap array that finds the expired
entries is a module of its own, because it is a cache of information `Purge` states directly.

**AsyncSingleflight, PaddingScheduler, AuthenticationService.** The service is cut where threads can
interleave: a queue operation, a critical section of the service lock, of the singleflight or of the
scheduler. `pc` holds the place of every worker, of the submitting threads, the timer and the thread in `shutdown`;
`todo` are the completions a thread still has to perform after it left the lock. Time is the shutdown's budget
(early, in its reserve, over). A verification may answer, raise, or hang until shutdown has given up on it.

**AdaptiveCuckooFilter.** Buckets and fingerprints of tokens are constants with collisions; the random
cell and table of `add` are free choices.

**EdgeTransport, RemoteBackend.** The recovery path and the login path of the fault experiment's processes.
A process identity is a session and a port, and a new session may get an old port. The
coordinator of the experiment is replaced by any order of the requests it can make.

**FormalCollection.** Concurrent `collect_raw` calls over the files they share. A call can fail
at each step (leaving what the code leaves) and die at each step (leaving its files and its child). The
auditor who disposes of leftovers is external, and disposes only of what nobody uses any more.

PROJECT.json's `map` gives the source lines of every definition.

## 3. Runs

| Run | Instance | Shows |
|---|---|---|
| `activation` | one account, generations 1–2, versions 1–2, one edge, three representation epochs | one-sidedness, currency of PRESENT, epochs that identify slots, window, revocation, deletion |
| `activation_authority` | the same with two representation epochs | types; the protocol implements `AccountAuthority` |
| `activation_edges` | one version, two interchangeable edges, an alias, one representation epoch | the backend covers the directory when accounts are deleted through either name and edges fail one by one |
| `login` | two logins, both generations, all injectable failures | soundness of the cache, acceptance, no false acceptance, no denial for unavailability |
| `login_flights` | three logins, two waiters per key, one in total | exact waiter counts and every login answered, refused waiters and timeouts included |
| `structures` | cache: four keys, three scopes of two accounts, two regions, capacity 3, six settings; heap: six keys, two expiries; filter: six tokens, two buckets of two cells in each table, three kicks | bounds, agreement of the structures, no eviction in vain, exact purges, no false negatives |
| `service` | one or two frontend workers, one backend worker, queues of one, one pending release, three connections, one waiter per key, seven requests in six workloads | one terminal record per request, truth of the answers and of the shutdown report, termination |
| `evidence` | three sessions and two ports per process, two sequence numbers; three collect calls, two seeds, two nonces, two outputs | expiry and sequence survive crashes, logins are right, deliveries end, measurements exclude each other |
| `activation_certificates`, `activation_window`, `activation_alias`, `activation_delete_race` | see section 6 | expected violations |

**Bounds and why they are enough.** A second version exercises the dual-verification window, a
second generation with a repeated version number exercises reuse (as in the repository's own
executable model), and the second version keeps one of the first one's passwords, so that both a
surviving and a revoked credential occur. `MaxRepresentationEpochs` bounds publications
and compactions together: three allow two rotations and a re-creation, or a full life cycle down to
retirement beside a rotation. Representations of different scopes do not interact, and the two
properties of the screen and the directory are proved for all values anyway. Two edges suffice
because an edge's replica and certificates are touched only by operations naming the edge; what
couples edges is `required_edges`, for which one edge inside and one outside is the interesting case.
Logins are numbered in the order of their first step, which removes only permutations of names.
The TLC view `BesidesTracker` leaves the tracker's two variables out of the state's identity: no guard and
no other variable depends on them. The data structures are sequential, so bounds on their contents suffice: a capacity of three lets an insertion meet
a full cache, a full account and a full region at once, six heap items give a heap of three levels in which an item put in the
place of one removed from the middle may have to rise, and buckets of two cells with colliding tokens make every chain of kicks revisit a cell. Service queues of one make
every queue fill; the seven requests are three wrong passwords that coalesce, a duplicate, two right passwords and one the screen
rejects, and the workloads combine those that interact. In the largest one the third wrong password may find the flight full
(`SINGLEFLIGHT_OVERFLOW`), and whichever request comes fourth may find three connections taken (`CONNECTION_DROP`). The cap on
the waiters of all keys never binds here, since two keys with one waiter each stay within it; it binds in the data plane's own
`Singleflight` (run `login_flights`), and the theorem `BoundsAreKept` holds for every pair of caps. Three scopes let a version
be published after one with a later epoch, or never; with two edges and an alias one scope must do. Three sessions allow a restart on an old port while
a message for the session before it is under way. Two calls can collide in the formal collection; the third
follows the death of one. The parts of `structures` and of `evidence` share no state, so a behaviour explores one part.
Runs do not check for deadlock, because the bounded system may
stop: all versions used up, all logins answered, the service shut down, all calls made.

## 4. Properties

*Control plane.* `ScreenComplete` (an edge that may reject holds every credential),
`PresentIsCurrent`, `EpochsIdentifySlots`, `BackendCoversDirectory` (the backend accepts what the
directory presents through interrupted and refused activations), `RevokedNotAccepted` (and nothing
older once no activation is in progress), `DeletedNotLive`, `ImplementsAuthority`.

*Login path.* `NegativeCacheSound`, `LoginInvariant` (no answer crosses over to another password
or version), `ContinuouslyValidAccepted`, `UnavailableIsNotDenied`, `AcceptedWasAllowed`, `FlightsAccounted`, `EveryLoginAnswered`.
The two logins of run `login` cannot fill a flight; that a login refused for overload is not denied is the theorem `UnavailabilityIsNoDenial`.

*Data structures.* `BoundsHold` (capacity and quotas after every call), `IndexesAgree` and `GroupOrdersAgree` (the redundant
structures describe the entries, and a group's order of use is the global one),
`HitIsCurrent` (a hit is of the right scope and within the clamped lifetime), `EvictionServesAdmission` (a living entry
leaves only for an admitted one it competes with), `PurgeIsExact`, `NoFalseNegatives`, `TablesHoldMembers`.

*Service.* `OneTerminalEach`, `Conservation` (every admitted request is pending or counted in exactly one terminal counter),
`NoRequestLost` (a pending request is somewhere: in a queue, a worker, a flight, a release), `DrainedStaysIdle` (the service is idle
when shutdown believes it is), `ReportIsTruthful` (a clean report means that everything has stopped and nothing is
pending), `AnswersAreRight` (a right password is never denied and a wrong one never accepted, through flights and the cache),
`BoundsKept`, `EveryRequestEnds`, `ShutdownEnds`.

*Experiment processes.* `ExpiryIsHonoured`, `ReportedIsDurable`, `LoginIsRight`, `ProductionEnds`, `MeasurementsDisjoint`,
`NonceBindsOneCall`.

Every property has a mutant of the modelled code that breaks it (named in PROJECT.json, defined
next to the operator it varies), so none holds by the shape of the model.

**Fairness.** `EveryLoginAnswered` needs weak fairness of `Proceed(r)` for each login. A login
runs on a thread of its own, every step of it except waiting for a flight is always enabled, and
the wait ends with the leader's event; no lock is held across a step. The timeout of a waiter is
*not* among the fair steps, so the property shows that leaders always complete.
The service's liveness assumes weak fairness of each worker, of the timer, of the thread in `shutdown`, of the submitting threads and of the
passing of its time, all of which are threads of their own that wait only on queues and on each other; a verifier that
hangs is *not* assumed to return, which is why `EveryRequestEnds` counts on shutdown for the requests it holds. `ProductionEnds`
assumes that the proxy's threads run and that time passes for them, not that the edge answers or that the coordinator ever releases a delay.

## 5. Proofs

All theorems hold for every value of the constants. Those of `ActivationStateMachine_proofs` are for finite or
infinite sets of users, edges, accounts, generations, versions and passwords; the first four hold for every setting of the
three disciplines, the last four assume them (`Disciplined`); those of `AuthDataPlane_proofs` for every finite set of requests and any
waiter caps; those of `AuthenticationService_proofs` for any finite sets of requests and workers, any queue
lengths, caps and workloads; those of `NegativeCache_proofs` for any finite set of keys and any capacity, quotas, policy, lifetimes and lag of
the callers' clocks; those of `EdgeStructures_proofs` for any hashes, table sizes, number of kicks, keys and instants. Lemmas about the verifier store that the first two use are in `InMemoryBackend_proofs`.

| Module | Theorem | Statement |
|---|---|---|
| `ActivationStateMachine_proofs` | `TypeCorrectness` | `ControlSpec => []TypeOK` |
| | `OneSidedScreen` | `ControlSpec => []ScreenComplete` |
| | `EpochIdentity` | `ControlSpec => []EpochsIdentifySlots` |
| | `CurrentPresence` | `ControlSpec => []PresentIsCurrent` |
| | `BackendCoverage` | `ControlSpec => []BackendCoversDirectory` |
| | `RevocationTakesEffect` | `ControlSpec => []RevokedNotAccepted` |
| | `DeletionReachesBackend` | `ControlSpec => []DeletedNotLive` |
| | `Refinement` | `ControlSpec => ImplementsAuthority` |
| `AuthDataPlane_proofs` | `LoginControl` | `DataPlaneSpec => [](AuthorityTypeOK /\ LoginInvariant)` |
| | `NegativeSoundness` | `DataPlaneSpec => []NegativeCacheSound` |
| | `FlightAccounting` | `DataPlaneSpec => []FlightsAccounted` |
| | `DataPlaneTypes` | `DataPlaneSpec => []DataPlaneTypeOK` |
| | `ValidIsAccepted` | `DataPlaneSpec => []ContinuouslyValidAccepted` |
| | `UnavailabilityIsNoDenial` | `DataPlaneSpec => []UnavailableIsNotDenied` |
| | `AcceptedIsAllowed` | `DataPlaneSpec => []AcceptedWasAllowed` |
| `AuthenticationService_proofs` | `OneTerminal` | `ServiceSpec => []OneTerminalEach` |
| | `CountersConserved` | `ServiceSpec => []Conservation` |
| | `DrainedIsIdle` | `ServiceSpec => []DrainedStaysIdle` |
| | `RightAnswers` | `ServiceSpec => []AnswersAreRight` |
| | `TruthfulReport` | `ServiceSpec => []ReportIsTruthful` |
| | `BoundsAreKept` | `ServiceSpec => []BoundsKept` |
| | `NothingIsLost` | `ServiceSpec => []NoRequestLost` |
| `NegativeCache_proofs` | `BoundsAlwaysHold` | `CacheSpec => []BoundsHold` |
| | `IndexesAlwaysAgree` | `CacheSpec => []IndexesAgree` |
| | `GroupOrdersAlwaysAgree` | `CacheSpec => []GroupOrdersAgree` |
| | `HistoryIsBounded` | `CacheSpec => []HistoryBounded` |
| | `HitsAreCurrent` | `CacheSpec => []HitIsCurrent` |
| | `EvictionsServe` | `CacheSpec => EvictionServesAdmission` |
| `EdgeStructures_proofs` | `NeverFalseNegative` | `FilterSpec => []NoFalseNegatives` |
| | `TablesAlwaysHoldMembers` | `FilterSpec => []TablesHoldMembers` |
| | `HeapAlwaysDescribes` | `HeapSpec => []HeapInvariant` |
| | `PurgeAlwaysExact` | `HeapSpec => PurgeIsExact` |
| `ServiceFault_proofs` | `ExpiryOutlivesProcess` | `TransportSpec => []ExpiryIsHonoured` |
| | `ReportedSurvives` | `TransportSpec => []ReportedIsDurable` |
| | `RemoteLoginRight` | `CallSpec => []LoginIsRight` |
| `FormalCollection_proofs` | `ExclusiveMeasurement` | `CollectionSpec => []MeasurementsDisjoint` |
| | `NonceBinding` | `CollectionSpec => []NonceBindsOneCall` |

The assumptions on constants are `IdentityAssumption` of `Credentials` (generations and versions
are positive, an account ID has one username, `None` is no scope and no user); for the login
control plane, `CallAssumption` (`None` is no call in progress); for the login
path, `FlightAssumption` and `DataPlaneAssumption` (caps are naturals, requests are numbered and finitely
many, `inject_once` is used with the kinds it is used with, `None` is no value of another sort); for the service,
`ServiceConstants`, `WaiterCaps` and `PaddingConstants` (finite, disjoint sets of requests and workers, positive capacities, every
request has a key or none, right keys pass the filter, which has no false negatives); for the experiment processes,
`TransportConstants`, `RemoteBackendConstants` and `CollectionConstants` (sequence numbers are positive, as the code validates,
and markers differ from values); for the edge's structures, `CacheConstants` (finitely many keys, a positive capacity, settings and lifetimes as the
constructor and `insert` validate them) and `FilterConstants` (offsets are numbers, fingerprints are not 0, an empty cell holds no token), and
`HeapConstants` (keys and instants are numbers, which stands for their being totally ordered).

*One-sidedness.* `ScreenComplete` is not inductive: it mentions certificates, and a certificate
says nothing of contents. `RepresentationsWhole` is: a representation that has an epoch
holds all of `Creds[s]`. A valid certificate names the current epoch of its source, so the source
has one. `retire_delta` takes the epoch away together with the tokens, which is why retirement before all
certificates have moved to the base cannot reject anybody.

*Currency.* A replica is compared with the authoritative slot by epoch alone, so the invariant
must say that an epoch identifies a slot. `EpochsIdentifySlots` says that each recorded scope has
its own reserved epoch below `next_epoch`, that a slot holding a scope has that scope's
epoch, and that a slot without a scope has an epoch reserved for none. It needs the record
of the scope being activated to exist, hence its last conjunct. Two slots of a
username with the same epoch then hold the same scope or none.

*The disciplined protocol.* Coverage, revocation, deletion and the refinement of `AccountAuthority` share one inductive invariant,
`AuthorityInv`. A username's verifiers are of one identity (`VerifiersOwned`, from `ReuseAfterDelete`), and each of them is the presented
version's or its successor's, except between publication and commit, whose purge restores it (`NextInLine`). The purge is what makes an interrupted activation safe to
resume: a version that is still ready can only be a successor, because a published one has left that state (`PublishedSettled`). With
`ResumeInterrupted` the backend's previous version is then the presented one, so the window built from it covers the directory (`Covered`). Calls
under way keep what they were started on (`ActivationHolds`, `DeletionHolds`, from `SerializedAdmin`); an alias never had a slot of its own
(`SlotsOwned`), so the user a deletion withdraws is the one whose entry it removes. Together with the theorems about logins over
`AccountAuthority` and with `OneSidedScreen` and `CurrentPresence`, which justify how the login path sees screens and views, this
carries the login properties down to the activation protocol itself.

*Negative cache.* An entry is inserted long after the view, the comparison and the completion of
the flight, by a login that may have compared nothing itself. `NegativeCacheSound` therefore rests on
`LoginInvariant`: a result a login holds is `Truthful` (a mismatch of a scope means that the scope lacks
the login's own password); a flight in the table is led by a login of that very key that is still
at work; and what a waiter finds in its leader's flight is the truth about the waiter's password,
because keys coalesce only equal scopes and passwords. Only the steps that enter or leave a flight
need more than `MoveKeepsInvariant`, which covers all other steps of a login at once.

*Waiter counts.* `WaitersCounted` with the types of the counters is inductive over `LoginInvariant`, which
says that a waiter's leader exists; entering and leaving add and remove one element of the two sets that
are counted.

*Logins and the control plane.* Three properties relate a decision to what the control plane did while the login was
underway. `HistoryInvariant` has four parts. `StoreFollows`: all the store keeps for a username is of one identity, and what the directory
presents is of that identity and accepted unless its deletion has begun. `LoginsKnown`: what the ghosts record of each login underway; in particular a
version of another identity than the view's was accepted after the lookup. `ResultsFit`: an answer is about a key, not a login, and travels to
logins that arrive after the comparison, so it speaks of two sets of keys. Whoever is keyed in `MatchKeys` is
allowed, because either the version of the view accepts the password or the directory has moved past that identity for good (`Past`) and nobody will be keyed so any more;
whoever is keyed in `MismatchKeys` is not valid throughout. Both sets only grow for as long as a key is in use (`KeysStay`), since generations only grow and a
deletion ends with nothing presented (`AuthorityMoves`). `Decided`: what a decision on a fitting result says.

*The service's ledger.* A completion may be owed several times (by a worker, the timer and shutdown), so
the records cannot be counted by looking at who still owes one. `RecordedOnce` says instead that a request is pending or
has one record; `Record` is guarded by `pending` and is, with `Submit`, the only step that writes the ledger, so all others are covered by
one lemma each for workers, the timer and shutdown. `DrainedStaysIdle` is inductive with `ShutdownInvariant`: admission is closed from the first step
of shutdown on, so a set of pending requests found empty under the lock can only stay empty.

*The service's answers.* `AnswersInvariant` follows a verdict through everything that carries it: queues hold requests, a flight holds requests of
its own key, the cache holds no right key, a worker's verdict is the truth about the request it holds, and every completion owed, delayed, released or
recorded is right for the request it names. Requests of one key share one truth, which is why a leader's verdict may answer its waiters.

*What the service keeps track of.* `ReportIsTruthful` needs a shutdown that reads queues, padding and threads one after the other to be
right about all of them at once. `ReportInvariant` says what each of its steps may rely on: nobody but the shutdown cancels, it does so only after it
gave up waiting, what is pending by then is owed by the shutdown itself (`PendingIsOwed`), and a thread noted as stopped stays so.
`BoundsInvariant` adds to the counters that a request is in one place at a time: in one queue, screened by one worker, waiting in one flight, so that entering a queue or a flight
adds one to exactly one count. `Custody`, the invariant of `NoRequestLost`, says of a service that has not given up that each pending request is in somebody's hands or waits
in a flight led by a request that is (`Led`); the step that ends a flight hands all its waiters to the process that completes them.

*The negative cache.* `CacheInvariant` holds of the cache what one call needs of the last: the policy's order, the key indexes and the counts describe the entries
(`Consistent`), the bounds hold (`Bounded`), the history is bounded (`Remembers`). Orders are reflexive relations, so that removing keys and moving one to
the end commute with restricting the order to a group (`WithoutWithin`, `AtEndWithin`), which is `GroupOrdersAgree`. The bounds rest on what a plan of victims achieves
(`FullPlan`, `MovePlan`): every group of the new entry is relieved, and so is the cache, by at most two residents, because a victim for the capacity is only
needed when no quota gave one up. `HistoryBounded` sums the counts as a set of pairs; halving maps each pair kept to two that were there (`HalvingForgets`).
`EvictionsServe` reads the same lemmas as a statement about a step.

*The adaptive filter.* `Holds` says that each token of a set is in one cell of its own buckets and nothing else is stored. A chain of kicks holds all but the token
it has displaced, and can be undone: restoring its cells, last write first, gives the tables it began with (`KickKeeps`, `RestoreLast`). Both the chains
and the restoration are recursive functions on an interval. The library's induction theorems take an operator, so these proofs bring their own: a non-empty set of naturals
has a least element (`LeastElement`, from the well-founded inclusion of finite sets), hence a set with 0 and all successors is `Nat`
(`NatInduced`), and the property to be shown is given as the set of the numbers that have it.

*The expiry heap.* `HeapInvariant` says that the array and the positions describe the entries (`Describes`) and that no item is due before its parent
(`Heaped`). Both loops keep `Loose`: only the item being moved may be out of order, with its parent or its children, and its children are in order with its parent, which is
what lets an item that took the place of a removed one move either way. A turn upwards keeps the children in order and one downwards the parent, and a loop that
runs as many turns as there are items has ended, because each turn moves by a level or finds nothing to do. That the head is the least item
(`HeadIsFirst`, by the least counterexample) then makes a purge exact (`DrainIsExact`).

*The edge's state file.* `ExpiryIsHonoured` speaks of the file while a process may be killed between memory and file. The invariant adds that
what is being saved is in the memory of the running process already, and that a running process knows every sequence number it has reported; an
injected message has a positive sequence number and is never taken for an expiry.

*The remote login.* Definite answers carry both the truth about the credential and the identity of the process they came from; only definite
mismatches are cached, and only a match is finalised.

*The formal collection.* `MeasurementsDisjoint` does not follow from the advisory lock, which a dying call gives up at once. The invariant says that
the call of a running child is the one the marker names, alive or not, and that no call starts a child without the marker. A nonce is registered before
anything is measured and held by the call that registered it, which is what `NonceBindsOneCall` rests on.

Checked by TLC only: liveness under fairness
(`EveryLoginAnswered`, `EveryRequestEnds`, `ShutdownEnds`, `ProductionEnds`) and anything about ENABLED, which are outside what the prover can do; and the properties
section 6 is about, which are violated.
Proved only, part of no run: `HistoryBounded` and what `HeapAlwaysDescribes` says of the heap.

## 6. What the code does differently from what is said of it

Each has a run that ends in the counterexample.

* `activation_certificates`. `controlplane/README.md` says that `ACTIVE` cannot be reached until all required
  edges hold signed certificates. `activate` checks remembered acknowledgements; an edge that
  crashed after acknowledging holds none. It fails open, so nothing is rejected wrongly.
* `activation_window`. The comment in `activate` says that the externally active credential stays
  verifiable when execution stops. The window is built from the backend's previous version; after two
  interrupted activations that is not the version the directory presents.
* `activation_alias`. "Uncertain state fails open", but for an alias the uncertain view
  does not carry the canonical username, and the backend is asked about an account that does not exist.
* `activation_delete_race`. Without a single administrative thread, `delete_account` can find nothing active in the
  backend, then a prepared first version is activated, published and committed, and the directory half puts
  a tombstone in its place: the backend keeps it live behind the tombstone.

## 7. Plan

Done: the control plane, the abstract authority, the login path, the negative cache and its heap, the adaptive filter, the
service with its flights and padding, the fault experiment's processes, the formal collection; the theorems of section 5.

What would add most from here:

1. `NegativeCache` shown to implement the set of keys `AuthDataPlane` uses (`LookUpNegative`, `Decide`, `Forget`).
2. The coordinator of the fault experiment (`_execute_matrix`) as one more component over `EdgeTransport` and `RemoteBackend`.

## 8. Not modelled

Cryptography and field encodings (taken as injective), counters and reasons, latency fields and histograms, the sleep of a refused
waiter, the rebuild coordinator (a wrapper of `compact`), the data plane's own response padder, the
static filters, the optimizer, the cost, router and recurrence
models and the theory validators (floating-point programs without concurrency). PROJECT.json lists each with its reason.

Most lines of the repository are experiment runners and analysis: validation of configuration and artifact fields,
workload generation, statistics, tables and figures. They have no state that a sequence of
steps could get wrong, and a model of them would restate their arithmetic. Of the runners, what has
processes, files and failures is modelled (`EdgeTransport`, `RemoteBackend`, `FormalCollection`).
The map therefore covers a small share of all lines, and most of those of the core, the service and the
edge's data structures.

Left out of the modelled runners: a seed child that survives being killed (`_terminate_seed_child` raises, the
lock is then released while the child may still run), the preregistered collection, which takes no lock and
records the operator's assertion of an exclusive host, an auditor who removes the marker of a running call, and the
attribution of injected failures to calls.
