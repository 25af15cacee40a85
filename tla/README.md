# whoiam: specifications and proofs

TLA+ modules for the identity system of this repository, the TLC runs that
check them on small instances, and TLAPS proofs of the identity contract, of the
key store, of the wallet, of a persona's page and of the readers. Paths and line numbers are
those of the repository (`common/...` is `src/common/...` in `PROJECT.json`).

## 1. The system

A user has one master seed. Personas (identities) are ed25519 keys derived from
the seed and an index. Each persona has a public contract, keyed by its public
key, that holds signed *slots* (avatar, profile, ...) or, for ever after its
destruction, a signed *marker*. The web app keeps the seed and the list of
personas (`META`) as two secrets in a delegate of the local Freenet node, signs
writes itself, and sends them to the node, which spreads them between the
hosts of the contract.

| component | state it keeps | operations | talks to |
|---|---|---|---|
| identity state and merge, `common/src/state.rs`, `merge.rs` | none, pure | `sign_slot`, `check_slot`, `merge_state`, `validate_full`, `summarize`, `delta_since` | linked into contract, app and toolkit |
| identity contract, `contracts/identity-contract` | the stored state of one identity, per host | `validate_state`, `update_state`, `summarize_state`, `get_state_delta` | hosts exchange states, deltas, summaries |
| key-store delegate, `delegates/whoiam-delegate` | secrets per origin | `Store`, `Get`, `Delete`, `List` | the app, through the node |
| app: dispatch, `ui/src/api.rs`, `state.rs` | global signals: `SEED_LOADED`, `META`, `META_LOADED`, `IDENTITY_STATES`, ack counters | requests out; `dispatch_kv`, `dispatch_contract`, `apply_contract_bytes` in | node websocket |
| app: actions, `ui/src/actions.rs` | locals kept over awaits | `create_seed`, `restore_seed`, `create_identity`, `publish_slot`, `destroy_identity`, `store_meta`, `fetch_all_identities` | poll the signals until an ack shows or time is up |
| app: screens, `ui/src/views.rs` | which screen, busy flags, edit form | start actions; boot watchdog | a component owns the tasks it spawned |
| watermark, `common/src/delegate_api.rs` | `IdentityMeta` | `alloc_index` | stored by the delegate |
| key derivation, `common/src/derive.rs`, `ui/src/keys.rs` | none | seed and index to key | |
| connect proof, `common/src/connect.rs` | none | build, verify | app signs, demo verifies |
| resource schemas, `common/src/resources.rs` | none | limits, decoding | app, toolkit |
| client toolkit, `toolkit/whoiam-client` | one connection | `fetch`, `identity_from_state` | node websocket |
| demo, `demo/src/main.rs` | pending challenge in the page | start, verify callback | app, by URL |

What is hard here:

* **Order and delivery.** Hosts see writes in different orders, with equal
  times, from clocks that differ; deltas are computed from old summaries,
  arrive twice, late or never. Correct: hosts converge, nothing goes back, an
  acknowledged write is not lost, a destroyed identity stays destroyed.
* **Limits.** A slot cap, a state cap and a tolerated clock lead decide what
  merges. Correct: whatever merges is a state `validate_state` accepts.
* **Waiting without request ids.** An action sends, then waits until a counter
  of acks for the same secret or the same contract has moved, or thirty (ten)
  seconds have passed. Answers to other requests move the same counters, and
  answers come after the wait was given up. Correct: a wait ends; what it
  reports is what happened.
* **State kept over an await.** `create_identity` clones `META`, waits twice,
  then writes it back; a component that goes away takes its tasks with it in the
  middle. Correct: the list of personas loses none, the watermark only climbs,
  the index of a destroyed persona is never used again.
* **A form filled once.** The edit form is a copy of the local state, made when it
  is first there; publishing replaces the whole profile. Correct: it is never
  filled from a fetch that is still under way, so that the blank of what has not
  arrived is not published. The code promises no more: text that another device
  has replaced since is written back.
* **URLs that stay.** A connect request and its answer are URLs that can be opened
  again, late, or at another app. Correct: an app shows a persona only on its
  owner's consent to that app, recent enough.
* **Nodes that are not trusted.** A reader gets states in any order, old ones and
  other contracts'. Correct: it shows what the owner published, and does not go
  back.
* **Swallowed errors at boot.** The node answers a failed delegate call with
  nothing in it. Correct: an absent seed is told from an unreadable one, a
  stored seed is never overwritten, no spinner lasts for ever.

## 2. The modules

| module | models | composed with |
|---|---|---|
| `IdentityState` | the data of one identity and the pure functions over it | |
| `IdentityContract` | the four entry points at several hosts over a hostile network | extends `IdentityState` |
| `IdentityRegister` | what the contract promises: a last-writer-wins register per name until a final end | implemented by `IdentityContract` |
| `IdentitySync` | hosts that keep each other up to date, for convergence | extends `IdentityState` |
| `PersonaWallet` | app, delegate and one contract per persona, with all tasks, requests and answers | uses the contract in the abstract (`Takes`, `After`) |
| `KeyStore` | the delegate alone: every request, its answer, the flat map of secrets | |
| `PrivateStores` | what the delegate promises: one private store per app | implemented by `KeyStore` |
| `PersonaPage` | the page of one persona: local copy, edit form, publishing, the node | extends `IdentityState` |
| `ConnectFlow` | the demo app and whoiam's connect picker, over URLs; the app's profile view | extends `IdentityState` |
| `ClientFetch` | one `fetch` of the toolkit | extends `IdentityState` |
| `Readers` | both readers over the same contracts and clock | extends `ConnectFlow`, instantiates `ClientFetch` |
| `IdentityStateProofs`, `IdentityContractProofs`, `KeyStoreProofs`, `PersonaWalletProofs`, `PersonaWalletListProofs`, `PersonaPageProofs`, `ReadersProofs`, `ReadersStateProofs` | lemmas and theorems | extend the modules they prove about |
| `MC*` | instances for TLC | one `.cfg` per run |

### IdentityState

A slot's content is a member of `Contents` with a size and a hash, a signature
is the pair of key and message, and the message is the record of what the signed
bytes contain (domain, key, name, time, content hash); so a signature fits one
name, time and content only. `blake3` is assumed to have no collisions on the
contents in play (`HashAssumption`), ed25519 to be unforgeable. The slot map is
total, with `None` at the names not held. `StateSize` is the sum over the slots
of a fixed overhead and the content's length: the CBOR frame is left out, which
shifts the cap by a constant. `MergeAccepts` says when `merge_state` returns
`Ok`, `MergeResult` what it leaves behind, `MergeState` both, with the current
state untouched on `Err`, which is what every caller sees (`update_state`
drops its working copy and `apply_contract_bytes` clones).

### IdentityContract

`Host` is the node storing a PUT or a fetched copy after `validate_state`.
`BeginUpdate`, `FoldUpdate` and `FinishUpdate` are the loop of `update_state`:
`now` is read once, every update is merged into a working copy, one failure
rejects the batch, and the replica changes only at the end; `Crash` drops the
working copy. An update is a full state or a delta: the code merges either the
same way. `SummarizeState` and `GetStateDelta` fill `sums` and `net`, which
only grow: every payload may be delivered anywhere, any number of times, in any
order or never. `Garble` puts payloads on the network whose signature is a real
one of the owner's over something else, or another key's. Clocks are per host
and only move forward. Undecodable payloads, which every entry point rejects
before doing anything, and the parameters' version are left out; a related
contract never matters to it.

### IdentityRegister

The abstract specification: per host, a timestamp and digest per name, each of
which only moves to a newer write of the owner, until the host's identity ends
for good. Signatures, sizes, batches, summaries and messages are gone. It
promises no progress; that is `IdentitySync`'s part.

### IdentitySync

The same functions under a fair link. Between each ordered pair of hosts one
exchange is under way: summary out, delta back, merged on arrival; either may
be lost, the delta may be delivered twice. Writes reach one host, which may
reject them.

### PersonaWallet

`store` holds the delegate's two secrets, `chain` the contract of each key
(absent, live, dead), `tab` the signals of each session, `task` the async tasks
behind its busy flags, `kvq` the delegate requests, read in order, `wire` the
contract requests and `answers` everything on its way back, both unordered. A
task's program counter names the `wait_until` it is in; `hit` records that an ack
counter passed the baseline the task read, which is all that `wait_until` looks
at. Each action runs from one await to the next, with everything that happens
in between:

| code | actions |
|---|---|
| `create_seed` | `GetStarted`, `ConfirmSeed`, `ConfirmMeta` |
| `restore_seed` | `Restore`, `ConfirmSeed`, `EndProbe`, `ConfirmMeta` |
| `create_identity` | `Create`, `ConfirmPut`, `ConfirmMeta` |
| `publish_slot` | `Publish`, `ConfirmSlot` |
| `destroy_identity` | `Destroy`, `ConfirmMarker`, `ConfirmMeta` |
| `wait_until` running out | `GiveUp` |
| `fetch_all_identities`, boot watchdog, navigation | `FetchAll`, `Watchdog`, `OpenDetail`, `OpenBackup`, `Back` |
| `schedule_reload`, or the user loading the page again | `Reload` |
| `dispatch_kv`, `dispatch_contract`, `note_empty_delegate_response` | `Dispatch` |
| `apply_contract_bytes` | `Arrive` |
| `handle_request` of the delegate | `ServeKv` |
| the contract behind PUT and UPDATE | `ServeContract` |

Points a reader should know:

* **Tasks and screens.** `spawn` in Dioxus 0.7 ties a task to the component that
  called it and drops it when the component goes away. `Become` does this: after
  any change of the signals, a task whose component is no longer mounted is
  idle again. With `KeepsTasks = TRUE` a task outlives its screen. Both readings
  are used: FALSE, the framework's, in the runs about Home and Detail, where
  tasks are cut in the middle; TRUE in the two runs about onboarding, since under
  FALSE a restore ends with its screen as soon as the seed is loaded and what
  follows would never be reached. The loss `wallet_restore` shows needs
  only that Home is offered before the probes are in, which both readings have.
* **Ack counters.** The code keeps a number per key and contract and a task
  compares it with the number it read at its start; a Boolean per waiting task
  says the same and keeps the state space finite.
* **Who sees which answer.** A contract ack moves the counter of its key for
  every task, whichever request it answers; a Stored ack the counter of its
  secret. This is the code's behaviour, not a fault. Request ids exist only
  to tell when a request has come to rest (`Settled`) and whether a state shows
  the slot that was published. The code takes any slot of that name with a time
  not before its own (`s.time_ms >= time_ms`), another device's too; here the
  contracts have no slots and the echo is tied to the request, and no property of
  the wallet depends on it. `PersonaPage!Confirmed` has the comparison.
* **Faults** are named and switched on per run: `refuse` (a contract request
  is not carried out), `fail` (a delegate request is not, and is answered with
  nothing or an error that is only logged), `corrupt` (an undecodable value),
  `cut` (sending fails), `slow` (a wait may run out with its answer still under
  way), `reload` (the page is loaded again; the delegate has read a prefix of the
  queued requests and takes it in one step, the contract requests stay).
* **Initial states.** Either nothing is stored, with any history of the backup
  seed's personas on the network, or a wallet at rest: any list below any
  watermark, the listed ones alive and the retired ones dead, with room left
  for one more persona (`RestMetas`).
* The model starts when the connection is up and the boot requests are sent. Before
  that no watchdog runs: a connection that never opens leaves the loading screen
  (a hazard no property covers yet).
* `User` acts only after `FetchAll`: the effect behind it runs in the render
  that first shows the screen. A watchdog that finds both answers changes
  nothing, and its step is left out. `empties` counts to two, all that is read.
* An action whose first request cannot be sent is left out: it leaves nothing behind
  but an error message. Two re-PUTs of one key under way at once count as one.
* Labels and contents are left out; the contents and the edit form are in
  `PersonaPage`. So is the screen of a connect request (`ConnectView`), which
  takes the place of Home and is in `ConnectFlow`.

### KeyStore

Texts are sequences of characters, so that prefixes and separators mean what they
mean in the code. `secrets` is the runtime's one map for the delegate, filed
under `OriginPrefix(o) \o k`. `Store`, `Get`, `Delete` and `List` are the arms of
`handle_request` with the name, the runtime call and the answer; a runtime that
fails to set a secret is answered with an error, one that fails to remove it is
not told of. `Refuse` is what `process` turns away: no app behind the message, a
message already processed, an unreadable payload. One message is handled at
a time, so there is nothing to interleave. `PrivateStores` has the same requests
over `kept[app][key]`; the refinement reads `kept` off the flat map.

### PersonaPage

| code | actions |
|---|---|
| `Detail` mounted, unmounted, its seeding effect | `Open`, `Leave`, `Rendered` (part of every step that changes the page or the local copy) |
| the edit form: change, type, cancel | `Change`, `Type`, `Cancel` |
| `save_profile`, `publish_avatar`, `remove_avatar`, each up to `publish_slot`'s wait | `SaveProfile`, `PublishAvatar`, `RemoveAvatar` |
| `publish_slot` after the wait, or out of time | `Confirm`, `GiveUp` |
| `apply_contract_bytes`, `bump_contract_ack` | `Arrive`, `Ack` |
| the contract behind the requests, the owner's other devices | `Serve`, `WriteElsewhere` |

`local` is the session's entry in `IDENTITY_STATES`; it is `None` while it is
pending, and `Arrive` makes it a state whatever came, as the code does. `page`
holds the component's signals and `touched` the fields whose text is the
user's own, which the code does not keep and the property needs. `states` is every
state the contract went through: the node may send any of them at any time, and
single slots of them (`Deltas`) once a state has arrived, or with the fault
`early` before that. An ack moves every waiting task of the persona, as in
`PersonaWallet`, here with the contents at stake. Signing is `SignSlot` with the
page's clock; two publishes of one page are never in the same millisecond
(`PublishSlot`'s guard), which is a person's speed. A request carries in `beside`
what was under way when it was sent (`Underway`), for `PublishedWasTaken`; no
step reads it. With the fault `refuse` the node turns an update away, and
sends nothing back that the app would look at. The page and the hosts share one
clock, so a state of the contract always merges into the copy, and the error path
of `apply_contract_bytes` (`ui/src/api.rs:343-346`: the entry is already a
default when the merge fails) shows only as what it comes to, a pending entry that
became a state for no good reason, with `early`.

### ConnectFlow

`requests` and `callbacks` are the URLs that exist: anyone may open any of them at
any time, any number of times, and a callback at any app (`Load(app, url)`: the
proof names an app, the browser loads one). `decide_mode` and `verify_callback`
are `Load`, with both ends of the freshness window; `ConnectView` is `picker`
with `Approve`, `Deny`, `ClosePicker`, where a click may fail to leave
(`LeaveTo`). `Foreign` are malformed requests from elsewhere. The signature of a
proof is the pair of key and message, as for slots; its domain keeps the two
apart. `fetch_profile` is `SocketOpens`, `Watchdog` and `Arrive`: updates come from
any contract (`Updates`), and `ApplyContract` merges what verifies under the
proven key. Updates that cannot be decoded or that nobody signed, which
`apply_contract` drops before it touches anything, are left out; what does not
verify is there, as the states of the other keys. The properties of the view are
about the slots it shows, not about the marker. `IdentityState` is instantiated
for each key (`Of(pk)`). `approved` records the clicks for the property.

### ClientFetch and Readers

A fetch connects, asks, and returns with the first `GetResponse` (`Receive`), an
error (`Fail`) or at its deadline (`Timeout`); messages it passes over change
nothing and are stutters. The payload may be absent, undecodable, or a state any
contract went through. `VerifiedOutcome` is `validate_full` before
`identity_from_state`, which reports a broken schema as a whole. In `Readers` the
site looks up the very key it was shown a proof for, while owners publish well-
and ill-formed contents; one clock serves the hosts and the readers.

## 3. The runs

| run | question | states | result |
|---|---|---|---|
| `contract` | does a host stay valid, signed and monotone and keep its word, over batches, rejections, crashes and damaged payloads; is a delta for an old summary as good as the whole state; does it implement the register? | 501,613 | holds |
| `sync_converge` | do hosts come to agree, and does every acknowledged write spread? | 24,695 | holds below the cap |
| `sync_cap` | the same at the state cap | | violated |
| `wallet_seed` | boot, onboarding, restore: is the session's seed the stored one, is a stored seed safe, does every boot spinner end? | 289,422 | holds while waits do not end early |
| `wallet_life` | over creations and destructions, is an index never used again, does every listed persona exist, is a persona seen dead never shown alive? | 1,386,720 | holds for one session that is not loaded again |
| `wallet_use` | does what the delegate is sent last hold every persona the session shows; does every busy flag clear? | 221,046 | holds while no store fails and no marker is refused |
| `wallet_restore` | is a retired index safe during a restore? | | violated |
| `wallet_destroy` | is a persona dropped from the list only once it is dead? | | violated |
| `page` | is a publish that was told of, taken; does a late publish undo a later one; is a field the user did not type into published as it was published before? | 351,686 | holds: the first where nothing else of the contract was under way, the last once a whole state has arrived first |
| `page_erase` | the same for the untouched fields when a part of the state comes first | | violated |
| `keystore` | is the flat map a private store for each app? | 15,309 | holds |
| `readers` | consent, authenticity and order of what the app and the toolkit show; do their timers end the wait? | 130,116 | holds |

### What the violations say

* `sync_cap`: which slots fit under the state cap depends on which came first.
  Two hosts that took different writes reject each other's delta for ever,
  against the order-independence the tie-break is there for.
* `wallet_restore`: `restore_seed` sets `SEED_LOADED`, which makes the app offer
  Home, before it knows which indices are taken. A persona created in those
  eight seconds gets index 0, destroyed or not.
* `wallet_destroy`: the PutResponse of the re-PUT every boot sends confirms a
  destroy whose marker the node refused; the persona is dropped from the list
  and lives on.
* `page_erase`: a notification with the avatar alone, or a state that does not
  merge, turns the pending entry into a state without a profile; the form is
  seeded blank, and publishing it erases the profile the answer to the Get was
  about to bring.

Six more limits of the code come out of the same models, with other constants or
with a formula no run checks, and have no run of their own:

* `WatermarkClimbs` (kept in `PersonaWallet` for this) is violated with
  `Deeds = {"create", "destroy"}`, `Faults = {}`, `MaxSent = 3`. Leaving Home between
  the PUT's confirmation and the Stored ack drops the task that would have
  written `META`; the stored list has the new persona, `META` has not, and the
  next action that stores `META` takes it away again, alive, watermark included
  (`common/src/delegate_api.rs:35-36`: "bump on create, never decrement").
  `ShownIsKept` states what remains true: nothing the session shows is lost, and
  what the store has besides is above the session's watermark.
* `ShownIsKept` itself is violated in `wallet_use` with
  `Deeds = {"create", "destroy"}`, `Faults = {"fail"}`, `MaxSent = 3`: a task is cut with its screen after it sent a meta, the Stored
  ack of that meta confirms the next one, and the next one fails. `META` shows
  what the store does not hold, against `ui/src/actions.rs:82-83` ("only after
  the delegate confirms, so the UI never shows identities the store doesn't
  hold"). With `"refuse"` it fails as in `wallet_destroy`.
* `LoadedSeedIsStored` is violated in `wallet_seed` with `"slow"` added to the
  faults: `create_seed` gives up, is started again with another random seed, and
  the Stored ack of the first confirms the second. The session derives
  personas from a seed the delegate does not hold.
* `PublishedTakesEffect` (kept in `PersonaPage` for this) is violated with
  `Faults = {"refuse"}`, `MaxSent = 1` and `SPECIFICATION FairSpec`, under which the
  node handles each request it was sent. The answer to the boot re-PUT is still on
  its way when the user publishes; it moves the ack counter past the baseline, the
  wait ends (`ui/src/actions.rs:258`), the slot is mirrored and "published ✓" is
  shown. The node refuses the update, and the contract never holds it, against
  `ui/src/actions.rs:243-244`: `"published ✓" must mean the node accepted it`.
  `wallet_destroy` is the same mechanism at a destruction. `PublishedWasTaken`
  states what remains true: where nothing else of the contract was under way,
  neither when the request was sent nor later while it was, what was told was
  taken.
* `UntouchedIsShown` (kept in `PersonaPage` for this) is violated in `page`: the
  form is filled when the page opens, a profile from another device arrives and
  is shown, the user presses "change", which fills nothing, and publishes; the
  text from before goes out to replace the one on the screen, and does, unless
  the clocks disagree. `UntouchedWasPublished` admits this, as that text was the contract's once, be it the blank of a contract
  without a profile; no comment of the code claims more.
* `FreshIndex` is violated with `"reload"` among the faults after six requests:
  the page is loaded while the delegate has requests of the old session to
  read, what it had not read is lost, and the watermark the page comes back with
  is below the index of a destroyed persona, which is then given out again. Found
  by TLC on an instance led towards it; a run that would reach it unaided is too
  large.

### Bounds

* Contract: two names are enough for signatures to be moved between names and for
  one update to carry progress at one and a stale write at the other; two messages
  give ties, a write against a marker, and marker against marker. Contents
  are a tombstone, one that fits and one over the slot cap, with the
  tombstone's hash between the others so that ties go both ways; two full slots
  exceed the state cap. Clocks run over `0..1` with no lead allowed, so a write may
  be ahead of the host, even, or behind. One host is modelled in this run: what
  other hosts hold reaches it as payloads, which `DeltaIsEnough` takes every valid
  one of as a sender's state; hosts that answer each other are in
  `sync_converge`. The theorems cover any number of hosts and all other values.
* Sync: two hosts and two writes (every pair of them, at every time, each
  through either host) in `sync_converge`, from every pair of initial clocks. In
  `sync_cap` the caps have the code's proportion: four slots of the largest
  size do not fit, three do.
* Wallet: `MaxSent` bounds the requests after which the user starts nothing new
  (a task under way may still send its second); two to three requests, with
  the personas of `RestMetas` already there, let two actions overlap and a third
  follow. `MaxIndex = 1` leaves room for a retired or listed persona and a new
  one. Three seeds let a retried onboarding and a restore draw different ones;
  one probe index stands for each of the sixteen, which do not interact.
  One session is checked; `Tabs` is a constant since sessions share nothing
  but the delegate and the network.
* Page: two publishes give one that is given up and overtaken by the next, or
  answered before it, and two that wait at once.
  `MaxStates = 2` lets the contract change once besides them (a profile from
  another device, an avatar, a marker). Texts are blank, old, new, new with a
  space to trim, and one too long; the user types names only, so that the other
  field is always one not touched. Times `0..2` put the other device's clock at,
  behind or ahead of the page's.
* Key store: the ids are `a` and `ab`, one a prefix of the other; the keys `a`,
  `ba` and `:a` would meet under them if the separator were left out or in
  another place.
* Readers: two apps, two personas, a freshness window of one in times `0..2`, so a
  proof can be of today, on the boundary and too old; one request, one click,
  one callback, which can be opened again and elsewhere; contracts of two states.
  The theorems lift all of these bounds.
* Every bound on counting is in a guard (`MaxTime`, `MaxIssued`, `MaxBatch`,
  `MaxSums`, `MaxGarbled`, `MaxWrites`, `MaxSent`, `MaxStates`,
  `MaxChallenges`, `MaxAnswers`).

`CHECK_DEADLOCK FALSE` in the wallet, page and readers runs: an idle app with an
idle node waits for its user and may stay so. The contract, sync and key-store
runs check deadlock.

### Fairness

* `IdentitySync!FairSpec`: clocks run (WF); hosts keep sending summaries (WF);
  an answer and a delivery that are possible again and again happen (SF), for a
  link that may lose any message but not all of them. This is what a host set
  that keeps synchronising means; the contract code itself is only called.
* `PersonaWallet!FairSpec`: timers fire, nothing else. `wait_until`'s loop ends
  by its own deadline, the probe after eight seconds, the watchdog after its
  sleep. No answer of the node, delegate or network is assumed.
* `Readers!Spec`: the page's watchdog and the fetch's deadline fire once they are
  set. Both are set after the connection is open; before that the code has no
  timer, and nothing is claimed.

## 4. The proofs

`IdentityStateProofs` has the facts about the operators: merging climbs
(`MergeClimbs`) in an order that is reflexive and transitive, keeps validity
(`MergeValid`), which only grows with the clock (`ValidLater`), puts the incoming
state below the result (`MergeReflects`), and a delta for a summary the receiver
covers merges like the whole state (`DeltaSufficient`).

`IdentityContractProofs` proves, for all hosts, names, contents, caps and
bounds:

| theorem | states |
|---|---|
| `Invariance` | `IInv` is an invariant |
| `TypeCorrect`, `Authenticity`, `Validity`, `Acknowledgement`, `DeltaSync` | `TypeOK`, `ReplicasAuthentic`, `ReplicasValid`, `AcknowledgedIsApplied`, `DeltaIsEnough` always hold |
| `Monotone` | `NeverRegresses` |
| `Refinement` | the contract implements `IdentityRegister` |

None of the safety properties is inductive alone. `IInv` adds that
signatures of the owner on the network cover messages it signed
(`NetUnforged`: otherwise a payload could bring in what was never signed), that a
call under way holds a valid, signed state above the replica, read no later
than the host's clock says (`JobsSound`: otherwise finishing it could lose or
corrupt the replica), and that a host's replica still covers every summary it
sent (`SumsCovered`: otherwise a delta for it could leave something out). Each
action has a lemma; the refinement maps a replica to its order keys and the
signed messages to the writes, `FinishUpdate` and `Host` to `Advance` or
`Collapse`, and everything else to a write or a stutter.

`KeyStoreProofs`: `TypeCorrect`, and `Isolation`: the flat map implements
`PrivateStores` for any ids without the separator and keys of any characters. The
argument is that two full names are equal only if app and key are
(`OriginAssumption` makes the first separator the end of the id), so that a
change at one name is a change at one place of `kept`; a listing strips exactly
the prefix it asked for.

`PersonaWalletProofs` and `PersonaWalletListProofs`, for any indices, bounds and
deeds:

| theorem | states | scope |
|---|---|---|
| `WalletTypeCorrect` | `TypeOK` | any |
| `SessionSeedIsStored`, `StoredSeedIsKept`, `ListedPersonasExist` | `LoadedSeedIsStored`, `SeedKept`, `EntriesExist` | `SeedScope`: the delegate holds a seed from the start (any number of sessions, every fault), or there is one session and no wait ends early (`"slow"`) |
| `NoIndexIsUsedAgain`, `SeenDeadStaysDead` | `FreshIndex`, `DeadIsSeenDead` | `ListScope`: the delegate holds a seed and there is one session; no `"reload"` |
| `NothingShownIsLost` | `ShownIsKept` | `KeptScope`: `ListScope`, a task ends with its screen, no `"fail"`, no `"refuse"` |

The scopes are what the code can keep, not what the prover could reach: outside
them TLC has the counterexamples listed under "What the violations say", save that
two sessions were not tried. Within them the theorems hold for faults the runs
leave out, as `wallet_life` does `"slow"`, `"cut"` and `"corrupt"`.

* *Types.* The ids stay within `Ids` only because no task sends more than two
  requests: `SentBound` counts the tasks that may still send their second
  (`Owing`) against the requests sent.
* *The seed.* With an installed seed no screen with an onboarding task is ever
  reached (`InstalledInv`). Without one, `OnboardInv` says that a session asks for
  the seed once and that at most one seed is on its way to the delegate: a wait
  for it ends only when the request has come to rest, and from then on the
  session knows of the seed or is stuck at boot. With `"slow"` a second seed can
  be sent.
* *Entries.* `EntryInv` follows a persona from the answer that confirmed it
  through the task, the request and the store back to the session; a confirmed
  contract never goes away again (`ChainKept`).
* *Indices.* `BootInv`: the meta is asked for and answered once, before anything is
  created. `IndexInv`: the watermark shown is above all that is listed, dead or
  about to be (`Covers`, `Doomed`), and a persona under creation is above it.
  `FreshIndex` alone says nothing of a destruction under way that began before a
  creation ended and writes back the older watermark.
* *What is shown.* `KeptInv`: a task in `store_meta` waits for what is sent last,
  and whatever is last holds what is shown. Two tasks cannot both be there,
  since one belongs to Home and one to Detail (`Fits`); a marker on its way
  will be taken (`MarkersLand`), so what is left out is dead or will be.
* The steps of a session are first sorted by what they do to the list
  (`ListSteps`): most of them leave it alone (`Plain`). TLC found no violation of
  `KeptInv` with `Fits` on the instance of `wallet_use` with `"corrupt"` added.

`PersonaPageProofs`: `PageTypeCorrect` (with `WaitsForSent`: a waiting task waits
for a request that was sent, otherwise `Confirm` would look at nothing), and
`LastWordStands`, for any number of publishes and other devices. `WordInv` adds
that the times of a page's publishes climb (`TimesClimb`) and that the contract is
at or above every publish it took, or destroyed and empty (`ChainInv`).
`ToldIsTaken` states `PublishedWasTaken`, for every fault. `TakenInv` adds that the
contract has held what it took and that only that is answered (`AckedInv`);
that a task waits for the last publish of its own slot, and, while nothing else is
under way, for the only request still to be answered (`WaitInv`: otherwise an ack
could be another's); and that the local copy holds slots of the contract or
slots the user was told of (`CopyInv`), of which the page's own are older than the
one waited for. A publish ends the solitude of the other flag's task
(`PublishKeepsTaken`), refused or not: its ack would confirm both.
`UntouchedStands` states `UntouchedWasPublished` without `"early"`, the fault with
which `page_erase` violates it. `KnownInv` follows a text from the contract to what
is sent: the local copy's profile is one the contract held or this page published
(`ProfileKnown`); the form is filled as soon as there is a copy, and a field not
typed into holds a text of such a profile (`FormInv`). The first arrival is where
`"early"` matters: a whole state, being valid (`StatesValid`), is taken as it is
(`FirstArrival`), so the copy without a profile is that of a contract without
one. That publishing a text again is no change of it rests on trimming twice being
trimming once (`SentInv`). TLC found no violation of these parts on the instance
of `page`.

`ReadersProofs`: `Consents`. `ConsentInv` adds that the picker shows a well-formed
request that was made (`PickerInv`), and that every callback with a proof comes
from a click on such a request, not later than now (`UrlsAreConsents`); a proof
that checks at an app then names this app, key, challenge and time.

`ReadersStateProofs`: `FlowTypesCorrect`, `ShowsPublished`, `Climbs`,
`FetchReturnsOnlyPublished`, `FetchReadsHonestState`. `PublishedInv` says that
every state of a contract is signed by its key and by no other, so that only the
empty state passes for two contracts (`TwoKeys`); `PageInv` that a page with a
connection has a proven key; `OwnerValid` that every state the owner's
contract went through is valid by the clock of now; `FetchInv` is the two properties of a well-typed fetch. `Climbs` rests on `MergeClimbs` of `IdentityStateProofs`.

Assumed: the owner is a key, sizes and caps are natural numbers, hashes do not
collide, `None` is not a value it stands beside (`IdentityState`); ids have no
separator and keys are texts (`KeyStore`); sessions are finitely many, the
backup and the installed seed are seeds, the probes stay within the indices, the
markers for no answer, no value and a corrupt one are none of the values
(`PersonaWallet`); the texts, limits, initial profiles
and other devices' writes have their types, `str::trim` is idempotent, initial
profiles are valid states (`PersonaPage`); personas are keys,
owners' writings are states, foreign requests are malformed (`ConnectFlow`); a
tombstone is empty (`Readers`). TLC evaluates these on the instances.

Only model-checked: liveness, which is out of the prover's reach (`Converges`,
`AcknowledgedSpreads`, `NoEternalSpinner`, `BusyEnds`, `ProfileSettles`,
`FetchEnds`), and everything in `IdentitySync`.

## 5. Not modelled

* Opening the websocket and its status, in the app, the demo and the toolkit: there
  is no timer around it, so a connection that never opens waits for ever; the
  models start when it is up, or let it fail.
* `readd_index` and `rename_identity`: nothing calls the first, labels are not
  modelled. The backup's text and its parsing: pure conversions.
* What a backend does with a challenge (`docs/resources.md:87-91`): the demo keeps
  none, and accepts a proof as often as it is opened within the window; `Consent`
  promises no more.
* The bridge message by which a framed app leaves, which older shells drop
  silently: it is a click that does not lead away (`LeaveTo`).
* Two clocks for a reader and the hosts. A reader whose clock is behind by more
  than the tolerated lead calls a genuine state a forgery.
* Image shrinking, markup, styles, scripts, end-to-end tests: no state of the
  system. Nonces and ciphers: no property is about them.

## 6. Plan

Done: `IdentityState`, `IdentityContract` and `IdentityRegister`, with the proofs;
`IdentitySync`; `PersonaWallet`, with the proofs; `KeyStore`, `PersonaPage`,
`ConnectFlow`, `ClientFetch`, `Readers`, with the proofs.

What is left, in this order:

1. The list with two sessions on one delegate, each with its own `META`; restore
   with the probe limit below the installed watermark.
2. Connections that open late or never, with the timers that are missing.
