# Formal models of dbsc-rs

`dbsc` is a server-side Rust library for Device Bound Session Credentials. A
web application calls a `Manager`, which keeps sessions in a `SessionStore`,
checks the proof JWTs browsers send, and answers with status codes, cookies,
headers and JSON instructions. This directory holds TLA+ modules translated
from that source, TLC configurations that check them on small instances, and
TLAPS proofs that hold for instances of any size.

Paths below are relative to the crate (`src/manager.rs` is the file the
project map calls `src/src/manager.rs`).

## 1. Inventory

| Component | State | Operations | Hard behaviour | Modelled |
|---|---|---|---|---|
| `manager.rs` `Manager` | none of its own: a shared store and a configuration | `initiate`, `register`, `refresh`, `close`, `get_session` | called by many threads at once; each call reads a session, works on the clone, reads the clock, and writes the clone back, with nothing held in between | yes |
| `store.rs` `SessionStore`, `MemoryStore` | a map from identifier to session behind one mutex | `create`, `get`, `update`, `delete`, `get_by_user_id`, `delete_by_user_id` | `update` is an insert; expired sessions are hidden and not removed; `get_by_user_id` reads the clock once per session; every call waits for the mutex | yes |
| `session.rs` `Session` | identifier, user, lifecycle state, key, algorithm, challenge, expiry, creation time | `new`, `is_expired`, `now_unix` | the clock is the system's and may step; expiry at equality | yes |
| `jwt.rs` | none | `decode`, `verify_registration`, `verify_refresh` | the order of checks; `alg=none`, which `verify_signature` always accepts; two purposes for one kind of token | yes |
| `header.rs` | none | serializers and parsers of five header fields | quoting and escapes; the list parser that splits before it unquotes | yes |
| `instruction.rs` | none | JSON form of session instructions | defaults, skipped fields; `continue: false` collapses everything else | yes |
| `examples/demo.rs` | the browser's device key, cookie, latest challenge | `sign_proof`, and the order of requests | lost and late answers, retries, cookies that run out | yes |
| `error.rs` | none | error variants | none | the variants, not their wording |
| `lib.rs`, manifest | none | re-exports | none | no |

How they interact: the manager calls the store (`get`, then `create` or
`update`, or `delete`), the functions of `jwt.rs` on the proof that
`header::parse_session_response` extracts, and `now_unix` through `apply_ttl`.
The store calls `is_expired` with `now_unix` inside its lock. Applications may
also call the store directly, for instance to drop a user's sessions. Browsers
see the manager only through responses, which may be lost.

What makes each correct:

* **Manager and store under concurrency.** A used challenge never becomes
  current again; a proof counts only for the session whose challenge it signs;
  only keys that were proved are stored; binding is not undone; a session that
  is over is not revived. Without overlapping calls, also: a challenge is good
  for one proof, the key is pinned, and the manager behaves as the sequential
  protocol `SessionLifecycle`.
* **Store.** Each operation is one step to its callers, and it never hangs.
* **Expiry.** What is stored as the expiry is the TTL after some moment of the
  session's life.
* **Proofs.** A proof is accepted only if the right key signed these very
  claims, and for one purpose.
* **Headers, instructions.** What is read is what was written.
* **Browser and server together.** A browser that believes its session bound is
  right; one that keeps asking is refreshed again and again.

`PROJECT.json` lists the hazards, each at its line, with the properties that
cover it. Two are left without a property: sessions that expire stay in the map
until their user is dropped, and the cookie of a session that is refreshed runs
out. The models have both so; nothing in the code promises otherwise.

## 2. The modules

| Module | Models | Role |
|---|---|---|
| `Optional`, `Dbsc` | `Option<T>`; the shared vocabulary | constants with their assumptions |
| `Session` | `session.rs`, `Manager::apply_ttl` | the session record, its expiry, integer width |
| `ProofJwt` | `jwt.rs` | tokens and their verification, by error kind |
| `SessionStore` | `store.rs`, the trait | each operation as one step |
| `Handlers` | `manager.rs` | what the handlers decide and compute on a clone |
| `Manager` | `manager.rs` | the state machine: threads, store, clock, replies; its properties |
| `SessionLifecycle`, `ManagerRefinement` | (abstract; mapping) | what the manager promises of each session |
| `AtomicStore`, `MemoryStore` | (abstract); `store.rs` with its mutex | the store under contention |
| `Instruction`, `InstructionWire` | `instruction.rs`; a sender of instructions | the conversions and the derived serialization |
| `Header`, `HeaderWire` | `header.rs`; texts that grow | serializers and parsers |
| `ProofWire` | a proof that is signed and then changed | the checks of `ProofJwt` against tampering |
| `Wire` | (composition) | the three formats, one at a time |
| `Responses` | the responses of `manager.rs` | cookie, headers and body of every answer |
| `Browser` | `examples/demo.rs` | what the browser sends and makes of an answer |
| `DbscFlow` | (composition) | browser, manager, store, clock and a network that loses answers |
| `MCManager`, `MCStore`, `MCWire`, `MCFlow` | | instances for TLC |
| `ManagerProofs`, `ManagerSerialProofs`, `LifecycleProofs`, `StoreProofs`, `ProofWireProofs`, `InstructionProofs`, `HeaderProofs`, `FlowProofs` | | theorems |

Some definitions have a sibling marked *Mutant* just before them: the same
operation with a plausible bug. They are used nowhere in the models; each
property of each run is violated when one of them takes the place of its
original, so no property holds whatever the code does.

**`Session`.** Strings that are only stored or compared are elements of sets.
`I64Max` stands for `i64::MAX`; `AsI64` is the `as i64` cast of the u64 TTL.
The sum in `apply_ttl` panics on overflow when `OverflowChecks` holds (a debug
build) and wraps otherwise. `created_at` and the clock are never negative, as
`now_unix` has it.

**`ProofJwt`, `ProofWire`.** A token is the first part of it that does not
parse, its claims, and `signer`: the key under which the signature bytes verify
over exactly these claims, if there is one. That is the usual assumption that
signatures cannot be forged. `ProofWire` has it in action: any claim of a signed
proof may be changed, any part damaged, any number of times, and the signature
verifies again only if everything is back. `JwkKind` says whether a JWK is a
well-formed EC or RSA key, or neither. `Base64` and `Json` errors are one kind,
`Decoding`.

**`Handlers`, `Manager`.** `Handlers` holds the checks in the order of the early
returns (`RegisterStatus`, `RefreshStatus`) and the new field values. `Manager`
keeps one record per worker thread that says where in a call it is. A call is
cut exactly where it touches what other threads touch:

| Action | Code |
|---|---|
| `Initiate`, `Register`, `Refresh` | from the entry to just before `apply_ttl`: `store.get`, every check, every assignment to the clone. Early returns end the call at once |
| `ApplyTtl`, `ApplyTtlPanics` | the clock read and the addition in `apply_ttl` |
| `Write`, `WriteFails` | `store.create` or `store.update`, and the response |
| `Close`, `CloseFails`, `GetFails` | `close`; the `?` on `store.get` |
| `Deliver`, `Lose` | the response reaches the client or does not |
| `DropUser` | `delete_by_user_id`, called by the application |
| `Tick` | `SystemTime` moves; backwards only if `ClockStepsBack` |

Merging the checks with `store.get` loses nothing: they read only the clone and
the constant configuration. Session identifiers and challenges are fresh when
drawn, as 122 and 256 random bits are. Clients present any challenge that has
reached some client in a response, on any session, under any of the proofs in
`Shapes`; `owner`, `revealed` and `accepted` are history variables that record
which session a challenge was generated for, which challenges clients have, and
which proofs took effect. The identifier of a session is known to clients from
its first reply on, which is also what reveals its first challenge (`Known`).
Identifiers nobody has been given are presented too. A store behind the trait
may report an error with or without having done its work (`StoreMayFail`);
`MemoryStore` never does.

`Overlap = FALSE` restricts the model to executions where no call on a session
starts while another holds a clone of it: what an application gets that
serializes requests per session. The library does not do this, and two of the
divergences below are what follows.

**`SessionLifecycle`.** A session opens, is bound once, is renewed, ends; every
step from a proof uses up the current challenge, which has not been used
before. `ManagerRefinement` maps a session to *unborn* until its `create`, to
the stored state while it lives, and to *ended* from the moment the store hands
it out no more and no call holds a clone. A refresh that was accepted before
the expiry and written after it either renews the session (its TTL is counted
from the later clock) or lets it end with its challenge used up.

**`MemoryStore`.** `Lock`, then either `Perform` (insert, get, remove, retain) or
`Filter` once per stored session and `Collect`, then `Unlock`; the clock runs
meanwhile, and may step back. The map's order is any order, as `HashMap`'s is.
`AtomicStore` has each call take effect in one step between call and return;
only the list of a user's sessions is looser, since it reads the clock anew for
each session: it contains every session that is live by every reading of the
clock since the call began (`readings`), and none that is live by none of them.
More cannot be promised: a clock that steps back during the filter lets in a
session that was over when the call began. A poisoned lock cannot occur: nothing
panics while holding it.

**`Instruction`.** A JSON object is a record with the fields that are present.
`ToRepr`, `FromRepr` are the two `From` conversions; `ToJson`, `FromJson` add
what the derives skip, default and require, of the instruction and of its
scopes, rules and credentials. `InstructionWire` builds objects field by field,
so any may be missing; scopes and credentials that lack a required field of
their own are among the values. A `null` for an `Option` is the same to serde as
a missing field; values of the wrong type, which serde refuses, do not appear.

**`Header`.** A text is a sequence of symbols: the characters that quoting and
splitting tell apart, and whole words the code compares. Which symbols there are
besides those of the formats (`Syntax`) is left to the constant `Symbols`; no
text is `None` (`SymbolsAssumption`). `HeaderWire` grows a
list of skipped sessions whose identifiers may hold quotes, backslashes,
separators and imitations of list entries; the same texts serve as values of
the other headers and as headers no serializer wrote. The parsers are compared
with a declarative grammar of quoted strings (`Says`) and with a splitter that
respects quotes (`SplitOutside`).

**`Browser`, `DbscFlow`.** The browser of the demo signs the last challenge it
was sent, or sends no proof, and goes by the status of the answer. A 403 brings
a challenge; a 400 to a registration may mean an earlier answer was lost, so it
may try to refresh or log in again; any other refusal means a new login. In
`DbscFlow` it waits for one answer at a time and may stop waiting whenever it
likes (`GiveUp`: the answer was lost, or took too long), while the call goes on
in the server and may write after the browser has asked again. The user may
close the session, the application may drop it, sessions and cookies run out.
Time never stops: `StepClock` sets the clock anywhere up to `MaxBack` behind the
furthest it has been, and `PassFurthest` moves that furthest point on by moving
all stored times one nearer to it, since only their distance matters; a time
that has been passed by more than the clock can step back stays so. The write of
a call includes its `apply_ttl` (`Manager` has the two apart). Identifiers and challenges that nothing
refers to any more are drawn again; that keeps the model finite and changes
nothing a browser can see.

## 3. The runs

| Run | Instance | States | Shows |
|---|---|---|---|
| `races` | two sessions, two threads, two devices, overlapping calls, TTL 1, clock 0..1 | 55,988 | `TypeOK`, `StoredChallengeUnspent`, `ProofsStayInTheirSession`, `KeysAreProved`, `NeverUnbound`, `ExpiryHonoursTtl`, `DeadStaysDead` |
| `failures` | one session; store errors, TTL 2 and a clock 0..2 that also steps back, overflow panics, unsigned registrations | 75,351 | `StoredChallengeUnspent`, `NeverUnbound`, `KeysAreProved`, `KeylessIsUnsigned` |
| `serial` | as `races`, calls on one session do not overlap | 25,561 | `SingleUse`, `PinnedKey`, `RemovedStaysRemoved`, and the refinement `ImplementsLifecycle` |
| `store` | two threads, two sessions of two users, clock 0..1 both ways | 239,366 | the refinement `ImplementsAtomicStore`, and `SomeCallReturns` |
| `wire` | lists of up to four entries and pieces of text together (so identifiers of up to three pieces), the pieces from nine; instructions with each of six fields absent or of two to five values; five proofs changed in any way | 12,399 | `ParsesAsString`, `HeadersReadBack`, `EntriesNotMisread`, `ParsedSurvives`, `TerminationIsMinimal`, `SignedClaimsOnly`, `OnePurpose` |
| `flow` | one browser, two threads, session TTL 2, cookie TTL 1, an endless clock | 92,447 | `BoundTogether`, and `KeepsRefreshing` |
| `flow_long` | one browser, one thread, session TTL 3, cookie TTL 2, an endless clock that steps back by up to 2 | 3,168 | `KeepsRefreshing` |
| `registration_race` | overlapping registrations by two devices | | `PinnedKey` is violated |
| `close_race` | a close during a register | | `RemovedStaysRemoved` is violated |
| `keyless_binding` | an unsigned registration | | `BoundHasKey` is violated |
| `empty_authorization` | `flow` with the authorization `Some("")` | | `GetsBound` is violated |
| `split_in_strings` | `wire` | | `SkippedReadBack` is violated |

The `MCManager` runs use symmetry over threads, challenges and identifiers.
That is sound: these values are only compared for equality, no constant
distinguishes them, and the checked formulas mention none of them. The runs
with liveness properties use none.

Why the bounds are enough to be interesting. Two threads exhibit every race the
manager has, since each is between one call's get and its write and one other
call. Four challenges let one session be opened, bound by two racing
registrations, and refreshed, or two sessions be opened and bound; a run of
`Manager` stops generating when they are used up, and everything else goes on.
Two sessions are there for proofs that cross over. A clock that moves once past
the TTL lets a session expire between any two steps, and be extended before; in
`failures` `I64Max` is 3 and the TTL 2, so that a session of clock 0 runs out at
2 and comes back when the clock does, and the sum leaves the range at 2. In
`flow` a session lives for two ticks and longer if it is refreshed in between,
with calls that write late, while the cookie is gone after the first; in
`flow_long` it lives for three, and again if the clock steps back far enough. In
`flow` four challenges always leave one to draw, or TLC would stop, and two
identifiers are one for the browser and one for a call it gave up on: the guard
that there be one to draw delays a login at most until that call has written.
In `wire` three pieces make an identifier of
every combination of three characters, such as a quote, an escape and a
separator, and one that imitates an entry with a parameter of its own; four
entries and pieces together put two such identifiers beside each other.
`CHECK_DEADLOCK FALSE` is said of the two runs of `Wire` only: texts and objects
grow to their bound and stop. Everywhere else some step is always possible.

### Fairness

`SomeCallReturns` assumes what a mutex gives: a thread inside the lock runs on,
and a free lock goes to some thread that waits, not to any particular one. So
only that some call always returns is claimed; a given call may be overtaken for
ever.

`KeepsRefreshing` assumes:

* threads of the server run on (`WF` of each thread's write), and the browser
  asks again when it is not waiting and does not wait for ever;
* of the calls of one operation that are accepted again and again, some finish
  while the browser still waits (`SF` of `InTime(op)`): otherwise a server that
  is always slower than the browser's patience helps nobody;
* of the answers that say yes to one operation again and again, some arrive
  (`SF` of `Yes(op)`), and so do some of those that say no. It has to be per
  operation: with one condition for all, every 200 to a registration might be
  lost while the 400 to the retry and the 200 to a new login always arrive, and
  the browser would go round in that circle.

Nothing makes the user close a session, the application drop one, the browser
lose patience, or time pass. Under these conditions a browser is refreshed
infinitely often, unless sessions are closed or dropped or run out infinitely
often (`EndsAgainAndAgain`; `RunsOut` is a step of the clock that ends a session
the browser has or is being given, or takes its cookie). The exemption is needed: where each session ends
before its first refresh, the browser logs in for ever. It leaves the behaviours
in which from some point on sessions are refreshed before they run out, however
long the clock goes on. `GetsBound` has the same exemption and follows from
`KeepsRefreshing`, since only a bound browser refreshes: it holds wherever
`KeepsRefreshing` does, and its violation with an empty authorization is not one
of sessions that end.

The delicate cases are the lost 200 of a registration, which leaves the browser with
a session it does not know to be bound, and a late write that rotates the
challenge of a 403 before the browser has signed it.

### Divergences

Between the code and what it says of itself, each with the run that shows it:

1. *Keyless binding.* `alg=none` at registration binds the session to no key
   (`manager.rs:207`), against the documentation of `SessionState::Bound`; no
   refresh can ever succeed on it.
2. *Registration race.* Two overlapping registrations are both answered 200,
   and the second replaces the first's key: it is not pinned.
3. *Close race.* `update` inserts: a register or refresh under way when the
   session is closed (or its user dropped) puts it back.
4. *Empty authorization.* The header omits an empty authorization
   (`header.rs:74`), `register` insists on it (`manager.rs:200`): a browser that
   echoes what it was sent is never bound.
5. *Split in strings.* `parse_session_skipped` splits the list at commas and
   semicolons inside quoted strings (`header.rs:161`), although the crate
   promises RFC 9651 parsing: an entry whose identifier holds one is not read.
   What holds in spite of that is `EntriesNotMisread`: nothing is read that was
   not sent.

Smaller ones need no run of their own:

* A TTL of 2^63 seconds or more is negative after the `as i64` cast
  (`manager.rs:122`), and every session over when it is created; `AsI64` has it
  so, and `ExpiryHonours` assumes a TTL that fits.
* `refresh` sets no cookie (`manager.rs:267`) although the instruction names the
  cookie as the credential the client must present: it runs out while the
  session goes on. `flow` has such sessions, and the browser refreshes them by
  their identifier.
* A token with an undecodable part yields `Base64` or `Json` (`jwt.rs:124-135`)
  rather than `MalformedJwt`, which `error.rs:8` documents for it too.

## 4. The proofs

Every proof is for any number of threads, sessions, users, keys, challenges and
texts. They rest on the assumptions on the constants (`None` is a value of its
own; the configuration has the types it has in Rust), which TLC evaluates in
the runs, and on the meaning of `signer`.

| Module | Theorem | States | Assuming |
|---|---|---|---|
| `ManagerProofs` | `TypeCorrect`, `ChallengesStaySpent`, `ProofsStay`, `KeysProved`, `BindingLasts` | `TypeOK` and the four safety invariants of `races` | nothing more: overlap, store errors, lost replies, clock steps, any TTL |
| | `KeylessSessionsAreUnsigned` | `KeylessIsUnsigned` | nothing more: clients may send `alg=none` |
| | `TheDeadStayDead` | `DeadStaysDead` | the clock does not step back |
| | `ExpiryHonours` | `ExpiryHonoursTtl` | the clock does not step back, the TTL fits |
| `ManagerSerialProofs` | `ChallengesAreSingleUse`, `KeysArePinned`, `RemovalsLast` | `SingleUse`, `PinnedKey`, `RemovedStaysRemoved` | calls on one session do not overlap |
| `LifecycleProofs` | `ManagerImplements` | `ImplementsLifecycle` | no overlap, no step back, signed proofs |
| `StoreProofs` | `StoreImplements` | `ImplementsAtomicStore` | nothing more: any number of threads, a clock that steps either way at any time |
| `ProofWireProofs` | `OnlySignedClaims`, `OnePurposeOnly` | `SignedClaimsOnly`, `OnePurpose` | nothing more |
| `InstructionProofs` | `WireTrip`, `ParsingIsStable`, `TerminationStaysMinimal` | what survives the wire | nothing more |
| `HeaderProofs` | `StringsAreParsed`, `HeadersAreReadBack`, `ReportsAreNotMisread` | `ParsesAsString`, `HeadersReadBack`, `EntriesNotMisread` | nothing more: texts and lists of any length, any symbols |
| `FlowProofs` | `AgreeOnBinding` | `BoundTogether` | nothing more: fairness is not used |

*`ManagerProofs`.* None of the four invariants is inductive: what is stored next
is on some thread's clone now. `IInv` adds what is true of clones. A challenge
that `generate_challenge` returns is on the clone of one call and nowhere else,
neither stored, nor in a reply, nor on another clone, until that call writes
(`PendingChallengeSecret`). Hence whatever a write overwrites, the challenge it
makes current was never revealed, and no accepted proof can have signed it:
that is `StoredChallengeUnspent`. What `register` and `refresh` checked of a
proof stays true until the write because it speaks of history only
(`PendingProofChecked`). And nobody knows of a session before `initiate` has
stored it (`InitiatePrivate`), so that `create` overwrites nothing. The proof
classifies steps into the kinds that matter (a worker comes to rest, a call
starts, a write, a removal, a delivery, `apply_ttl`), proves one lemma per kind,
and shows every action to be of a kind. `TheDeadStayDead` needs only `TypeOK`: a
dead session has no holder, and `get` returns nothing for a new one to start
from. `KeylessSessionsAreUnsigned` follows the key along the clone (`BringsKey`):
a signed proof that registers carries the JWK it is bound to, and a refresh goes
on only with the key it found, so a clone without one comes from an unsigned
registration, which its write records as accepted. `BoundHasKey` itself is false
of the code (`keyless_binding`). For `ExpiryHonours`, an expiry counts once it has passed
`apply_ttl`; from there, stored or on a clone, it lies between creation and now, plus the TTL, and a
later clock only widens that.

*`ManagerSerialProofs`.* Where calls do not overlap, no two hold the same session
(`Alone`), so what a call has checked is still true of the *stored* session when
it writes (`SignsCurrent`): its challenge is the one the proof signs, it is
Active if the call registers, and has the clone's key if it refreshes. With
`StoredChallengeUnspent` that gives single use, and the key never changes. That
a removed session stays removed (`RemovalsLast`) is the same argument for a
write: `update` finds its session still stored, and `create` has an identifier
that nobody knows.

*`LifecycleProofs`.* With the two invariants above and that a signed
registration brings a key (`BringsKey`), every step is one of three: nothing
changes of what the lifecycle sees (`Elsewhere`, `Quiet`), some sessions end
(`Released`, `Removed`, `Passes`, collected by `EndStep`), or a call writes
(`WriteImplements`), which opens, binds or renews the session, or ends it if
what was written has expired.

*`StoreProofs`.* While a thread filters for a list, what it has found was live by
some reading of the clock since it called, and what is live by all of them is
found or still to come (`Listing`). One more reading, whichever way the clock
went, can break neither.

*`FlowProofs`.* `FlowInv` says that every bound session is bound to the browser's
key, that a call on its way to the store carries an Active session if it
initiates and one bound to that key otherwise, that an answer which says or
implies *bound* (a 200, or a 400 to a registration) is about a session that is
bound or gone, that an initiate that has not written yet has an identifier
nobody else has, and that the answer to a registration the browser waits for is
about the session it has. One lemma per action.

*`HeaderProofs`.* The parsers are folds over a text, so what they compute for
every text is an induction. The library's induction theorems cannot be
instantiated by these provers; here it is first-order: `TextInduction` is about
the *set* of the texts that have a property, which has the empty text and the
extension of each of its members by a symbol, and `NatSetInduction`, under it,
is the least element of a set of numbers. `PrefixRuns` ties a fold to the run
of a machine along the text, so that a text may be read in two goes
(`ReadCat`, `CutCat`, `SplitCat`), which all else rests on.
`StringsAreParsed` compares that run with the grammar position by position: a
run reaches its end exactly if the text between the quotes is a sequence of
units (a character, or a backslash and what it escapes), and what it has
collected is what they stand for (`UnitsRead`, `ReadUnits`).
`HeadersAreReadBack` shows that an escaped value never leaves the string it is
in (`CutEscaped`, `CutQuoted`), so that a splitter that respects quotes cuts a
header at the separators the serializer wrote and nowhere else, and then reads
parameter after parameter (`ParamCut`, `ReadsMore`).
`ReportsAreNotMisread` goes entry by entry (`ListReadBack`). Where the
identifier has no comma or semicolon, the list is cut around its item and the
item is parsed to the entry (`CleanItemParses`). Otherwise the item falls into
pieces of which none is parsed (`BrokenItemLost`): a piece is a stretch of the
item without the separator (`SplitWithin`), its value follows an equals sign, so
if it begins with a quote that is the opening one, because inside an escaped
value each quote follows a backslash (`EscapeGuards`); and from the opening
quote the string ends only past the whole identifier, separator included
(`PrefixUnread`, `PartUnread`).

Only model-checked: `SomeCallReturns` and `KeepsRefreshing`, which are liveness
under fairness. The runs that end in a violation have their counterexample for
proof.

## 5. Not modelled

Signature schemes, JSON syntax, base64, UUIDs and randomness are taken to do
what they are for. The wording of `error.rs` and the re-exports of `lib.rs` have
no behaviour. `get_session` is `store.get` and changes nothing. The cookie's
name, path, domain and flags are the same in every response and are left out of
`Responses`, as are the algorithm list and the path in its registration header
(`Header` has them). `DbscFlow` has one browser with one device key; several
devices are the subject of `Manager`. Nothing survives a restart of the process:
`MemoryStore` keeps its map in memory, and a restart is the loss of all
sessions, which to a browser is `DropUser`.

## 6. What could come next

A store behind the trait that fails in `DbscFlow` too; two browsers that share a
cookie; a bound on how far the list of `get_by_user_id` may lag if the lock were
given up between sessions; a persistent store with restarts, should the
repository get one.
