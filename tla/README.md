# A verification project for gardenlogin-controller-manager

The repository holds two programs:

* the **controller manager** renders, for every `Shoot` of a Gardener landscape,
  a kubeconfig and keeps it in the configMap `<shoot>.kubeconfig`; it also serves
  a validating webhook for these configMaps;
* the **deployer**, a container started by the landscaper, installs the manager
  into one cluster, or into a runtime and an application cluster, and removes it.

This directory models both in TLA+: modules translated from the code, TLC
configurations that check them on small instances, and proofs that TLAPS checks
for every instance. `PROJECT.json` lists components, runs, mutants, findings,
hazards and theorems, and maps every definition to the lines it stands for.

    tlc -workers 2 -config ShootSettles.cfg MCShootController.tla
    tlapm ReconcileLoopProofs.tla

## 1. The system

| component (source) | state | operations | correct if |
|---|---|---|---|
| reconcile loop (`controllers/shoot_controller.go` `Reconcile`, the counters) | counter per namespace, behind a mutex; the work queue and workers of controller-runtime | take, admit or reject, handle, give back, retry | counters are exact, limits hold, no request is lost, waiting requests get in |
| request handler (`handleRequest`, predicates and mappings of `SetupWithManager`) | none of its own: informer caches, timers of the queue | a request per shoot: read Shoot, configMap, quotas, ShootState; create, update or delete the configMap | at rest every shoot has the kubeconfig it should have, and none if it is gone; no write goes back in time |
| quota (`hasSufficientQuota`, `resourceQuotaPredicate`, `internal/util/quota.go`) | none | verdict over the quotas of a namespace; filter of quota updates | a shoot waits only while there is no room |
| rendering (`clusterCaCert`, `validate`, `generate`, `internal/util/x509.go`) | none | Shoot, ShootState and identity to kubeconfig | kubectl reaches the advertised addresses, the plugin learns the shoot |
| webhook (`webhooks/`) | none; permissions live in the cluster | admit or refuse a write | only managers change kubeconfig configMaps |
| configuration (`internal/util/config.go`), `main.go` | fixed at start | read, default, validate; start | a manager runs with what was imported or documented, and it suits the loop |
| deployer, reconcile (`.landscaper/container/pkg/gardenlogin/operation_reconcile.go`) | memory of a run; objects and a TLS secret in the clusters | restore or generate a certificate, apply overlays, wait for a token, store the certificate | a successful run leaves a trusted webhook; repeated runs get there |
| deployer, delete (`operation_delete.go`) | objects in the clusters | delete seven objects in order | repeated runs remove everything |
| deployer, command, imports, contents, images (`cmd/`, `pkg/api/`, `operation.go`) | none that lasts; the inputs change between runs | read and validate files, choose the clusters, start an operation | an operation gets what it needs and touches nothing else; repeated runs roll out what is asked for |

How they interact: the handler is called by the loop, reads caches that lag
behind the API server and writes to the API server; its writes come back as watch
events which, filtered by predicates, become requests again. The webhook stands
between every writer of a labelled configMap, the handler included, and the
storage. The deployer creates the webhook's configuration in one cluster and its
server in another; the two must agree on a certificate.

What is hard about it: events that are coalesced, delayed or filtered; values
read from a cache and used several calls later; objects recreated under their
name; answers of writes that get lost; a process whose counters, timers and queue
are gone after a restart; slots and quotas that several workers compete for; runs
of the deployer that end between any two calls and are repeated years later.

## 2. The modules

    NamespaceSlots <. (implements)          KubeconfigPromise <. (implements)
                    :                                          :
                ReconcileLoop --- ShootController ------- ShootHistory
                    |              |        |                  |
    Quota --- GardenCluster -------'        |                  |
      |             |                       |                  |
      |     ReconcileLoopProofs --- ShootControllerProofs -- ShootHistoryProofs
    QuotaWatch --- QuotaProofs
                        Kubeconfig --- KubeconfigProofs    Webhook --- WebhookProofs
                        Deployer --- DeployerProofs        Rollout --- RolloutProofs

Solid lines are EXTENDS, dotted ones refinements. Each `MC*` module and `.cfg` file instantiates the module of its name for TLC.

**ReconcileLoop** - `Reconcile` with `increaseCounterForNamespace` and
`decreaseCounterForNamespace`. Each of the two is one critical section of the code
and one action (`Admit`/`Reject`, `Decrease`). The queue (`dirty`, `timer`), the
workers (`phase`) and `Restart` stand for controller-runtime. Delays are "soon"
(an error, or a full namespace), "later" (60 minutes, or
`QuotaExceededRetryDelay`) and "never". Outside this repository, but relied upon:
a key is processed by one worker at a time; of two `AddAfter` the earlier counts.
**NamespaceSlots** is what it promises, without counters: a request asks, gets a free
slot or is refused, and is refused only while every slot is in use. The refinement
mapping `SlotStages` forgets queue, timers and counters.

**Quota** - the pure operators. Resource lists are functions from the names they
mention, since it matters which keys are missing (`LessThan` skips them).
**QuotaWatch** puts them to use: a cache of quotas that change from any object to
any other, and a shoot that gave up until a quota event passes the filter.

**GardenCluster** - everything outside the controller: gardener, operators, the
garbage collector, the quota controller with quota admission. A watched object is
kept as a log: its first entry is what the controller's cache holds, its last what
is stored, those between are events under way. An informer delivers the next
entry, or, when its watch broke, jumps to the last one.

**ShootController** - `handleRequest` with one action per API call, composed with
`ReconcileLoop` (its `Handle` is the return of `handleRequest`) and
`GardenCluster`. `pc` is the next call, `local` what was read so far. Each
predicate and each mapping of `SetupWithManager` is an operator; `Deliver*` applies
it to an event (`Passes`: creations and deletions always pass, a relist that finds
nothing where nothing was known is no event). The lists behind a quota event go to metadata informers of their
own (`mShoots`, `mConfigMaps`) that exist only after their first use and may lag;
`MetadataLags = FALSE` idealises this away, to ask what holds apart from it.
Errors that cannot be told apart by what they lead to are one: an address that is
no URL, a version that cannot be parsed and a failed read are all `CallFails`
(`Kubeconfig` has them apart). `CreateOrUpdate` reads again, and an object that
vanished meanwhile cannot be created because it still carries a resourceVersion.
`LoseQuotaEvent` is a list that fails inside the quota mapping.

**KubeconfigPromise** - what the controller promises without caches, calls and
failures: versions of Shoot and ShootState come one after the other, and each write
follows from one version of each, neither older than at the write before; a
kubeconfig is withdrawn only for a version in which one of the two is gone.
**ShootHistory** adds the auxiliary variables the refinement needs (the versions so
far, which of them the handler read, what it wrote last) to ShootController.

**Kubeconfig** - from Shoot, ShootState and identity to the kubeconfig, and what
kubectl makes of it. Names are tuples of their parts; within one kubeconfig they
differ only in the last part, so that nothing depends on how they are joined.

**Webhook** - `Handle` and `canManageConfigmapsAccessReview` between several
clients and the storage of one configMap. The label selector, the refusal when the
webhook cannot be reached (`failurePolicy: Fail`) and the check that an update
applies to the object it was admitted with belong to the API server.

**Deployer** - `Reconcile` and `Delete` call by call. `buildAndApplyOverlay`
applies any subset of the objects, because the applier goes on after an error, and
fails unless it was all of them. The edits of the kustomize directory are memory of
the run (each starts from a fresh copy): their failure is `RunFails`. A
certificate is a serial number and a date; a pair holds a certificate and a key.
Outside the code: the landscaper starts one run at a time, again and again, and may
change its mind between runs; operators remove, replace or damage the stored
secret, or mix up its key (`Foreign`, one that fits no certificate here; the code
loads the two without comparing them); the token controller takes its time; a deleted namespace terminates for a
while. The clock moves between runs, not within one.

**Rollout** - what surrounds the operations: options, imports, component descriptor
and contents, the choice of clusters by `NewOperation`, the configuration written for
the manager, and `main` that decodes and validates it. Inputs begin complete and are
edited between and during runs, in every way the checks look for. Each check of `run`
is one step (`Check`), in the order of the code; a run keeps the inputs it was
started with (`job`). A client is the cluster it talks to; a kubeconfig that is only
found broken when the client is made passes the validation and fails here. `Decoded`
is what yaml.v2 does to a struct that holds the defaults. What the edits of the
kustomize files come to is modelled where it depends on the inputs: `setImages` adds
replacements of image names to a folder, and `BuiltImage` lets one take effect only if
that folder has a container of that name (`Blueprint`); `patchResourceRequirements`
merges, so that what a requirement does not mention stays "shipped". Coarser than Deployer:
an overlay is applied in one step, a deletion takes effect at once, and the manager
that runs stays until the next one starts, or its namespace is deleted.

## 3. What the runs check

| run | question | result |
|---|---|---|
| ReconcileLoop | counters, limits, no lost request, with restarts at any moment; the loop implements NamespaceSlots; once inputs stop, each waiting request is admitted | hold (144 000 states) |
| QuotaWatch | no quota update that makes room is filtered out while a shoot waits | holds (2 000) |
| ShootSettles | five scenarios of one shoot: life cycle and a broken watch; addresses, CA and broken watches; addresses, CA, edits, removals; damage and upgrades; a lost owner reference. With failed calls, lost answers, restarts | settles right (2.9 million) |
| TwoShoots | two shoots, two workers: one quota that comes, goes and changes; CA, addresses and a broken watch; a shoot or its state comes or goes. The controller settles right and implements KubeconfigPromise | hold (2.4 million) |
| ShootConverges | quota used by others, lists that fail, metadata informers that lag: a timer always remains; after the last change the goal is reached for good and the controller is at rest | hold (490 000) |
| Kubeconfig | each context connects; rendered anew it differs exactly if it must | hold |
| Webhook | kubeconfig configMaps are written by managers only | holds |
| Deployer | one cluster and two: success means trusted, a certificate stored beside a foreign key apart; trust is not broken by a run; repeated runs reach what is asked for | hold (930 000) |
| Rollout | inputs that are wrong and edited: only the clusters that are named for it change, project namespaces stay, managers have settings that were imported or documented, what is asked for is rolled out | hold (870 000) |
| Finding... | see section 6 | violated |

The central property is `PromptlySettled`: when nothing is under way outside and a
shoot is neither queued, running nor on a short timer, its configMap is what the
cluster demands (`Goal`). It fails as soon as one event is filtered wrongly, one
error is not retried or one stale read is acted upon for good. `SettledIsGoal` is
the weaker form that also allows the long timers; it is what holds when the
metadata informers lag. `GoneIsGone` is the half of it that concerns access: it is
asked in every scenario of the run, those that `PromptlySettled` makes exceptions for
included.
`KeepsPromise` is about every write instead of the states at rest: a value put
together from reads that do not belong together, a deletion on a mistaken reason and a
return to an earlier state would each violate it, even if repaired a moment later.

`RollsOut` says what inputs in order are (`InOrder`) without the code's validation:
the clusters of the scenario, a namespace that is no project's, one image for each
container, limits in order once the defaults are added. What must then be rolled out is
the webhook, the deployment with its link to the application cluster, the image of the
manager, the resource requirements of both containers and a manager that runs on the
imported configuration; not the image of the sidecar, which never arrives
(FindingProxyImage). It asks for the endpoint of the application cluster and for
a `managerConfig`, which the code does not validate: without the first every run
fails half way, without the second the file says `null`, which resets the defaults,
and no manager starts (`SettingsAreMeant`: every manager that runs has, setting by
setting, what a document says or the documented default, never those zeros).

`Trusted` in Deployer relates four places: the pair in the secret, the one the
server uses, the CA the webhook configuration trusts, and the clock; `Agreed` is the
same without the question whether the key is the certificate's.

Every property of a passing run has a mutant in `PROJECT.json`: a definition
changed the way a bug would, defined next to the real one under a comment
"Mutant", which makes the property fail.

### Bounds

* `Shoots`: one, and two (with two workers) for the quota, the only thing shoots
  share apart from the loop's slots, which ReconcileLoop covers with three requests;
  there one or two changes at a time of what is read for them.
* `Scenarios` of a Shoot run: each names the kinds of change it allows, how many
  changes (1 to 3) and how many faults (0 to 2); a behaviour picks one and spends its
  `budget`. Three changes are a change, one that overtakes it and one that undoes it;
  enough for "deleted, recreated, changed" and for every finding. Faults are failed
  calls, lost answers, failed lists, broken watches and restarts together; two include
  a fault during the recovery from the first. All kinds at once with three changes are
  beyond TLC; every kind occurs in some passing run.
* `MaxBacklog` 2 or 3 bounds how far the cache may lag when garbage is collected
  or a quota recounted; other changes lag without a bound of their own.
* QuotaWatch has no bound on steps: two quotas, amounts 0 to 2 (below, at and above
  a limit), a second resource and lists with missing keys.
* Deployer: `Validity = 5`, so that 80 % is a whole number with dates on both sides
  of it, `MaxTime = 6` past the end; one foreign key; eight serials, since seven can be in use at once
  (`SerialsAssumption`); `MaxChanges`, `MaxFaults` and `Disturbances` bound what happens.
* Kubeconfig: lists of up to two addresses in both orders, malformed ones, and each
  way a CA resource can be wrong; changes without a bound.
* Rollout: two clusters, one namespace besides two of projects; `MaxEdits` 2, so that
  one thing is wrong and put right, or two are wrong; `MaxFaults` 1. An edit replaces
  one input by any other, or all by a complete offer of the other scenario. Descriptors
  name the shipped image of the sidecar or another one, and an image twice; two
  quantities, each required of a container or left as shipped.
* Webhook: two users, four writes, two changes of permission, sizes around the limit.

Deadlock is checked except where the modelled system may really stop: when the
bounded changes are used up and the controller is at rest (Shoot and Finding runs
on it), or all writes are made (Webhook).

### Fairness

* ReconcileLoop: workers go on and `handleRequest` returns (client calls carry
  timeouts); the queue is first in first out, which is strong fairness of `Take`;
  short timers fire. `WaitersAreAdmitted` assumes that new requests, errors,
  restarts and long timers stop; otherwise other requests may win the slot each time.
* ShootController: informers deliver, garbage is collected, quotas are recounted,
  workers go on, timers fire. Changes and faults are never forced and are finite.
* Deployer, Rollout: runs go on and are started again, which is what the landscaper does with
  an installation; the controllers of the clusters finish their work; a manager that
  ends is started again (a Deployment). Failures and edits are finite in number.

## 4. What is proved

`tlapm` checks these for every set of requests, shoots, quotas, users and addresses,
every limit, and any number of changes and faults.

* **ReconcileLoopProofs** - from `LoopAssumption` (what `validateConfig` accepts;
  limits of 0 and below included): `TypeCorrect`, `CounterIsExact`,
  `DecreaseFindsEntry` (the code never panics), `LimitsAreHeld`, `NothingIsLost`.
  `LoopInv` is the inductive invariant. `CounterExact` alone is not inductive: that
  the decreased counter is a natural number needs `CounterPositive`, and that a
  missing entry means an empty handler must be stated for each namespace. The steps
  are the cardinality lemmas `AdmitCounts` and `DecreaseCounts`.
  `SlotsAreImplemented` is the refinement `LoopSpec => ImplementsSlots`: by
  `CounterDecides` the counter compares as the number of holders does, which again
  needs `CounterExact`; `SlotStep` has one step per action.
* **ShootControllerProofs** - `ControllerRunsLoop`: every step of the controller is a
  step of ReconcileLoop or leaves its variables alone, so `Spec => LoopSpec`, and what
  was proved of the loop carries over (`ControllerKeepsSlots`). Then the promises of
  the controller, each for every shoot on its own; see below.
* **ShootHistoryProofs** - `PromiseIsKept`: `HistorySpec => KeepsPromise`, the
  refinement of KubeconfigPromise, and `HistoryIsKept`, the invariant behind it.
  `Followed` says that the log of an object is the end of its history and that the
  last write came from versions the cache knows by now; `Faithful` that what a handling
  holds is what it read at the positions recorded for it. Between two calls the caches
  advance; only because a handling starts after the write before it has ended (one
  worker per key) do its positions lie between those of that write and the present.
  `PromiseStep` has one case per kind of step: reads are stutters, a write is
  `Publish` or `Withdraw`.
* **KubeconfigProofs** - from `ListAssumption` and `NoneAssumption`:
  `EveryAddressConnects` and `OnlyChangesAreWritten`. The invariant (`Kept`) is only
  that the kubeconfig was generated from a source that could be rendered; the work is
  in `EveryContextConnects` (each composed name is found, and is unique because the
  names of addresses are) and `OnlyRelevantCounts` (what the user depends on can be
  read back from the kubeconfig), which are about every source.
* **QuotaProofs** - `FilteredStaysExhausted`: an update that the predicate drops
  leaves an exhausted quota exhausted, by cases on which keys are there. From it
  `NoWakeUpMissed` (a waiting shoot has an exhausted quota in the cache) and
  `WaitersAreRefused`. Nothing is assumed of the quotas but that amounts are natural
  numbers; updates may skip versions.
* **WebhookProofs** - `LabelledAreManaged` and `LabelledAreKept`. The inductive
  invariant `WebhookInv` says what each stage of a write has established; that a
  permission may be withdrawn between review and storage is why it speaks of
  `everPermitted`.
* **DeployerProofs** - from `SerialsAssumption` (a generated certificate has a serial
  number that is not in use; `SerialIsNew` shows that eight are enough):
  `DeployerIsTyped`, `SuccessIsTrust`, `TrustIsAlwaysKept`. The inductive invariant
  says that a run works with a certificate in order, beside its key or a foreign one
  that it found, and that in the latter case this certificate is not stored with its own
  key again meanwhile (`PairInv`, which keeps a run that holds the wrong key from ever
  being taken for one that restores the trust), what the overlays have put
  where at each `pc`, a namespace that vanishes under the run included (`PlacedInv`),
  and that a run which started from a trusted pair works with this pair (`TrustInv`).
  `OverlayIsApplied` is the heart of it: objects applied in any combination come from
  the pair of the run, so the only trust that can result is the one in this pair.
* **RolloutProofs** - from `RolloutAssumption` (the values the model makes up are
  distinct; documents hold integers): `RolloutIsTyped`, `ProjectsAreKept`,
  `SettingsAreAlwaysMeant`, `ClustersAreRight`. `RolloutInv` says what the run has
  established at each `pc` (`Established`: which checks its inputs have passed, and
  that each client is the one its target names), and that every manager has the settings
  of a document, with limits in order (`LimitsAreInOrder`: what is proved of the loop
  from `LoopAssumption` holds for every manager that was rolled out); without the former nothing keeps an operation from a nil cluster. The
  action property follows from it by one case per operation.

### The promises of the controller

An informer that is behind makes every claim about what the cache knows depend on
what is still under way. The proofs therefore speak of a log by two sets: `Entries`,
its versions, and `Steps`, its changes from one version to the next. A write adds one
of each (`LogGrows`, `StepsGrow`), a delivery takes the first away (`LogAdvances`,
`StepsAdvance`), a relist or a restart takes several. `EnvironmentStep`, `DeliverEvents`,
`HandlerWrites` and `HandlerFlow` sum up what the environment, an informer and a call of
the handler do to one shoot; the invariants below are shown to be preserved from these
four, not action by action.

* `ControllerIsTyped` (`TypeOK`) - beyond types: a handling that has read the Shoot
  holds one, a handling that writes holds a configMap.
* `TroubleCostsNothing` (`KubeconfigKept`) - `KeptInv`: of a shoot that exists, no
  version still to be delivered is a deletion, every configMap belongs to its uid, and no
  handling is about to delete. Without the part about versions under way the property
  is not inductive: the handler believes its cache.
* `AccessEndsWithShoot` (`GoneIsGone`) - `GoneInv`: as long as a shoot that is known to
  be gone has a configMap, a request is queued, or the event of the configMap is still to
  come, or a handling has yet to read what is missing. `OwnInv`, that configMaps are
  created with an owner, is why such an event is mapped to the shoot.
* `ShootsSettle` (`SettledIsGoal`), `ShootsSettlePromptly` (`PromptlySettled`) -
  `SettledInv`: every change to be delivered passes its predicate (`ChangesInv`); a
  handling holds what the cache says, or its shoot is queued again (`UpToDate`); a shoot
  that can be rendered has a request, a handling, a configMap with the right contents
  stored or under way, or waits on a long timer for a quota that is exhausted
  (`CaredFor`). The last case needs the lemma of QuotaProofs again, now about the
  composed controller: an update that is filtered out leaves the quota exhausted.

TLC found no violation of these invariants on the instance of ShootSettles, nor of those of
ShootHistoryProofs on TwoShoots.

Their hypotheses name the scenarios in which the code keeps the promise:

* `Owned` - `AccessEndsWithShoot` is about scenarios where owner references are taken
  away or faults happen, not both: a restart after the one leaves a configMap that
  no event leads to (section 5; a few steps are enough).
* `Watched` - `ShootsSettle` leaves out what the predicates do not compare (versions,
  owners, the repair of damaged CA data; section 6), and relists where somebody deletes or
  edits as well (`RelistsAreSpared`; section 5 says what they can hide then). Where
  they are allowed, `KeptInv` keeps the configMap from being deleted and `ChangesInv`
  says that two versions of a Shoot with the same addresses are the same, so that
  the only thing a relist can merge away is a change that was undone.
  `ShootsSettlePromptly` excludes lists that lag or fail; the three kinds of change
  are exceptions of the property itself. One relist during a shoot's life cycle hides
  nothing that matters, which TLC checks in ShootSettles; two can.

### What the constants are assumed to be

`LoopAssumption` is what `validateConfig` accepts; `SerialsAssumption` and
`RolloutAssumption` are about values the models make up. `ObjectAssumption`
(GardenCluster) says that no object is mistaken for `Absent`, no CA for one of the marks
`NotProvisioned`, `Unparsable` and `Invalid`, and that limits are natural numbers.
`ListAssumption` (Kubeconfig) says that references and addresses have the fields the
model gives them and that a shoot advertises at most one address of a name, which
is gardener's part; the code relies on it, since contexts are named after addresses.
`NoneAssumption` says that `None` is none of the values it stands for the absence of.
TLC evaluates each of them in every run of a module that uses it.

### Only model-checked

All liveness (`WaitersAreAdmitted`, `Converges`, `ComesToRest`, `Settles`, `RollsOut`),
since fairness and ENABLED are out of the prover's reach, and `PromptlySettled`
where a single watch breaks during the life cycle of a shoot.

## 5. Not modelled

* Flags, health checks, metrics; leader election (losing it ends the process, a restart).
* Constructors of clients; the YAML kustomize produces, but for which objects belong to
  which overlay, and the images, requirements and configuration of the deployment.
* Two managers at once: when scenario, namespace or prefix change between runs of the
  deployer, what the former run deployed stays. No operation looks for it.
* The encoding of kubeconfigs, PEM and JSON; `Kubeconfig` is about the structure
  before encoding.
* Edits or removals of a configMap combined with broken watches: a relist can show
  the same edited object twice, or hide a configMap that was created and removed by
  hand at once, and no predicate could notice. The life cycle of a shoot combined
  with two of them: the first relist shows a shoot that was recreated with the same
  addresses, which `shootPredicate` takes for no change, while its handling works for
  the former one; the second hides that configMap's creation and collection. The shoot
  stays without kubeconfig until its next event. The scenario has one fault.
* A restart of the controller while a configMap has lost its owner reference: the
  first lists find a left-over configMap by that reference, so one whose Shoot and
  ShootState both went during the downtime stays. The scenario has no faults.
* Test helpers, fakes and generated mocks.

## 6. Disagreements met

* **FindingDamagedCa** - `shootStatePredicate` says it "returns true for update
  events in case the cluster ca changes", but drops every update whose old object had
  unreadable CA data. A ShootState that is damaged and repaired with another CA
  leaves a kubeconfig with the old one: neither the damage nor the repair raises an
  event.
* **FindingQuotaFreed** - the comment of `QuotaExceededRetryDelay` promises a
  reconciliation of all shoots without a configMap when quota is freed. The lists
  used for it come from informers that may be behind the quota event: a shoot whose
  configMap was just deleted may be skipped and waits up to 24 hours.

* **FindingProxyImage** - `setImages` "uses kustomize cli to set the image for the
  controller (gardenlogin) and kube-rbac-proxy", but its second edit names
  `gcr.io/kubebuilder/kube-rbac-proxy` in the folder `manager`, while the sidecar is
  `quay.io/brancz/kube-rbac-proxy` and comes with a patch in the folder `default` (as
  the comment of `DefaultPath` says and `apply-image` of the Makefile does it). The edit
  hits nothing and fails nowhere; the shipped v0.8.0 is deployed. The component
  descriptor of this commit names the same v0.8.0, which is why it does not show yet.

Two more came up that have no run of their own.

* An upgrade of a shoot across v1.20.0 passes no predicate (`shootPredicate` compares
  only addresses), so the legacy kubeconfig stays until something else happens to the
  shoot; `UpgradeKubernetes` therefore occurs only where `PromptlySettled` is not asked.
* `loadOrGenerateTLSCertificate` "generates a new ca and tls certificate in case none was
  restored, it is invalid or not within the validity threshold", but looks at the
  certificate alone: one in date is deployed with whatever key lies beside it, and every
  run until its renewal reports success over a webhook server that cannot serve. A key
  that cannot be decoded ends this run and every later one instead.
  `ReconciledIsTrusted` makes an exception for the first, `Settles` for both
  (`KeyIsWrong`).

## 7. Plan

Done: the loop, the handler, the quota filter, the rendering, the webhook, the
deployer from its inputs to its operations, the configuration and start of the manager;
the two abstract specifications with their refinements, both proved; the proofs of
section 4, so that every safety property a run checks is stated by a theorem. New
properties join an existing run where its instance fits. Next, in this order:

1. **Relists** - `PromptlySettled` for a life cycle with a single broken watch: an
   invariant that counts what one relist may merge.
2. **Webhook and controller composed** - the handler's writes pass the webhook while
   the deployer exchanges certificates.
