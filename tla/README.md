# Eshyra in TLA+

Eshyra runs a solo tabletop campaign: a language model plays the dungeon master
through tools, an auditor checks each of its replies, and one SQLite database per
campaign holds everything that happened. A second SQLite database, the registry,
holds the characters that move between campaigns. This directory holds TLA+
models of that program, TLC configurations that check them, and proofs that TLAPS
checks. Paths below are relative to `src/packages/`.

## 1. The system

### Components, their state and how they interact

| Component | State | Operations | Properties that make it correct |
|---|---|---|---|
| Turn orchestrator (`core/src/orchestrator/orchestrator.ts`, `turnLoop.ts`) | one open savepoint per turn and one per audited attempt on the campaign connection; locals of `runTurn` | begin, tool round, narrate, audit accept / reject, fail | nothing but accepted candidates is ever durable; a turn ends; a turn id is accepted once |
| Replay store and disputes (`core/src/campaign/turnReplayStore.ts`, `disputedTurn.ts`) | the replay row: snapshot before the latest turn, its state hash, a status | retain, dispute, retry | a dispute undoes exactly one turn; a pending replay can always be retried |
| Chronology and rules (`core/src/campaign/campaignPosition.ts`, `campaignRules.ts`, `campaignRuleStore.ts`, `ambiguityResolution.ts`) | `campaign_turn_position`, `campaign_rule` | create, supersede, revoke, resolve, precedent, active rules | one ruling per ambiguity and position; accepted turns keep their rules |
| Prompt loop and launch (`cli/src/play.ts`, `playTurnLoop.ts`, `playSession.ts`) | the session row; what the process is doing | migrate, prepare the party, launch, turn, management command, quit | a pending replay blocks all but its retry and quit |
| Character registry and custody (`core/src/character/characterCustody.ts`, `characterRegistry.ts`, `cli/src/playCharacter.ts`, `playFork.ts`) | per character a timeline of revisions and a custody record, in the registry; per campaign slot a linked sheet and a sync stamp | register, checkout, resume, catch up, fork, sync back, release | a timeline never loses progress; one writer; whoever holds can release |
| Session close, arcs, scenes (`core/src/session/close.ts`, `cli/src/playClose.ts`, `core/src/memory/campaignArc.ts`) | session row, scenes, arc rows, a checkpoint mark | close, recap, checkpoint, rollup, release | closed once and completely; a checkpoint is recorded only if it was taken; an arc's summary covers its sessions |
| Checkpoints (`core/src/persistence/checkpoint/`) | a Dolt repository beside the database | serialize, commit, list, restore, fork | a restore never overwrites, and gives back what was saved |
| Migrations (`core/src/persistence/migrationRunner.ts`) | a ledger table, the schema | prepare, apply each in a transaction | ledger and schema agree after any crash |
| Writer lock (`core/src/persistence/campaignWriterLock.ts`) | an operating-system lock per file | acquire, release | one process per campaign file |
| Hit points and combatants (`core/src/state/hpLifecycle.ts`, `combatantLifecycle.ts`, `encounterCombatants.ts`) | a row per character, a row per combatant of each combat, a durable row per campaign actor | damage, healing, saves, suffocation, exhaustion, knock out, admission, closing | a row the assertions accept after every write; the actor is what its row says; death is final |
| Active effects (`core/src/state/activeEffects.ts`) | effects with the creature or the condition each owns, its deadline and who concentrates on it | start, refresh, end by policy, break, expire, release at the end of combat, recast | what an effect takes out of play can be taken out of play; every live effect has what it owns; none outlives its deadline |
| Action economy (`core/src/state/actionEconomy.ts`) | the round, whose turn is open, a budget per participant | begin a turn, spend, surprise | nothing spent twice; nobody who acted is surprised |
| Rests, slots, sorcery points (`core/src/state/rest.ts`, `spellSlots.ts`, `flexibleCasting.ts`) | rests by id, recovery windows, Hit Dice, slots | short and long rest, spend a die, cast, convert | nothing given back twice |
| World clock (`rest.ts`, `worldClockBoundaries.ts`) | elapsed time, recoveries that are due | wait, rest | every recovery at its hour |
| Items (`core/src/state/domainMutations.ts`, `attunement.ts`, `inventoryWear.ts`, `itemTransfer.ts`, `ammunition.ts`) | a row per item held, dropped, sold or lost; bonds of attunement; wear and curses; ammunition expended | give, drop, destroy, claim, transfer, don, doff, attune, expend, recover | a bond has an item and a living bearer; slots are not overdrawn; a curse clings; a recovery takes what was shot |
| Counters, timers of items, currency, advancement (`core/src/state/`) | counters, timers | one tool per operation | resources never spent twice |
| Rulings discovery (`core/src/discovery/`) | bounded candidates and their retention | detect, dedup, retain | bounds |
| Everything else | rules packs, dice, context assembly, model clients, debug log, command line | reads, parsing, I/O | see PROJECT.json for each and why it is left out |

Within one process everything but the model and the auditor is synchronous: Node
runs one callback at a time and SQLite calls block. The awaits of `runTurn` are
therefore the only points where a turn is observable half done, and they happen
inside its savepoint. Several processes share the registry, and each campaign
file has at most one process, which its writer lock ensures and `CampaignWriter`
models. A tool of the state layer is one transaction, so it is one action.

### What is hard here

* Two nested savepoints, retries and a post-acceptance section that may throw.
* A dispute restores an older snapshot of almost the whole database, but must
  leave three tables alone, and must survive restarts, failures and upgrades.
* Rules are half-open intervals over future turns, written one at a time.
* Custody spans two databases without a common transaction: the process can die
  between the commits, and a checkpoint brings an old half back.
* Long-lived state and versions: any crash, resume, restore, fork or upgrade in
  any order.
* A close is a transaction, an external checkpoint, a row that says so and two
  model calls, any of which may fail or be the last thing the process does.
* The state layer is sequential, and hard for another reason: some sixty tools
  that a language model calls in any order, each with its own guards, write rows
  that must stay consistent with one another. Its assertions run after a write,
  so a legal call can be lost because of what an earlier one left behind.

`PROJECT.json` lists each hazard at its line, with the properties that cover it
or the reason why none does yet.

## 2. Modules

| Module | Models | State and actions next to the code |
|---|---|---|
| `TurnEngine` | `runTurn`, disputes, the prompt, what an opening writes before the prompt, process death | `disk` is the committed database, `db` what the connection sees (ahead of it only inside the turn savepoint), `attemptDb` the attempt savepoint; `Begin` to `AuditReject` are the stages of `runTurn`, `FailTurn` its catch, `Dispute` and `Retry` the two halves of `disputedTurn.ts`, `Migrate`, `Prepare` and `Launch` the stages of `playLocked`, `Crash` drops the open transaction |
| `TurnChronicle` | what `docs/campaign-rules.md` promises | a sequence of accepted turns that grows at its end and whose last turn may be taken back once; while that turn waits only an opening may write (`Migrate`, `Reopen`) |
| `TurnRefinement` | the mapping from the engine to the chronicle | the chronicle is the committed traces, each at its turn's position |
| `CampaignRules` | the rule table and interval logic | pure operators: `ActiveAt`, `Fits` (`assertNoOverlappingAmbiguityRuling`), `MaySupersede`, `MayRevoke`, `ValidLinks`, ... |
| `RuleStore` | the rule commands over several turns | one action per command (`Resolve`, `Add`, `Supersede`, `Revoke`), accepted turns with precedents, `Dispute` with a corrective rule |
| `CharacterCustody` | the registry, several campaign files and the processes on them | `timeline` and `custody` are the registry, `file` the slots of each campaign, `due` the stamp a committed registry unit still owes its campaign, `plan` the per-character work of a set-up, an activation or a close; files in `Failing` meet writes that fail and are survived |
| `CampaignWriter` | the writer lock and the migrations of one physical file, opened by programs of different ages and by two spellings of its path | `Acquire`, `OpenDatabase`, `PrepareDatabase`, `VerifyLedger`, `ApplyMigration` are the stages of opening; `Stop` is an early return or a death at any of them |
| `SceneMemory` | the scenes of a session and their summaries | operators on a sequence of scenes: `TurnScenes` is what a turn does to them, `ClosedScenes` what a close does |
| `SessionLifecycle` | launch, turns, disputes, close, checkpoint, rollup, restore; EXTENDS the two above | `pc` of a process goes `ready`, `play`, `commit`, `checkpoint`, `mark`, `rollup`, `bible`, `summary`, `nextarc`, `release`; `job` is what the process read before and uses after |
| `CharacterLife` | hit points of a character (`hpLifecycle.ts`) | one operator from row to row per write, with its guard (`MayDamage`, `Damage`, ...); `Sound` is `assertCharacterLifecycle` |
| `CombatantLife` | the life of a combatant (`combatantLifecycle.ts`), EXTENDS `CharacterLife` | as above; `Legal` is `assertCombatantLifecycle` |
| `WorldClock` | the clock in hours, and whether a combat is active | `TimePasses`, `FightStarts`, `FightEnds` |
| `Companions` | rows of combat, the durable actor, an effect that owns a creature | `rows` is append-only, `actor` the snapshot, `link` what the effect owns; an action per tool, each of which writes through `Write` (`syncCombatantActor` and the settlement of effects) |
| `Rests` | the hero's body, rests, Hit Dice, spell slots and sorcery points | `rests` by id, `window` the open recovery windows, `magic` |
| `Adventure` | the composition of `Companions` and `Rests` over one clock | `Rest` and `AdvanceWorldTime` wake both; `StartEncounter` shuts the windows; `CloseCombat` releases what effects own |
| `Items` | inventory, attunement, wear and curses, ammunition | `items` by id, `bonds`, `cursed`, `shots`; `reissued` is a ghost (see below) |
| `Expedition` | `Adventure` with `Items` | a step of the campaign takes `Mourn` with it (`endAllAttunementsOnDeath`); ammunition needs its combats |
| `Turns` | the action economy of a combat; EXTENDS `Adventure` | `round` and `active` are the turn fields of `combat_instance`, `budget` its `combat_turn_budget` rows; `BeginTurn`, one action per resource of `spendTurnResource`, `SetSurprised` |
| `Effects` | effects that put a condition on a creature; EXTENDS `Turns` | `live` holds `active_effect` with its link, `conds` the conditions of the hero, the rows and the actor; an action per tool, `TurnEffects`, `CombatEnds` and `EffectsFollow` what turns, the end of a combat and the other steps do to effects |
| `Battle` | `Expedition` with `Turns` and `Effects` | a step of the journey takes `Aftermath` with it; opening a turn settles deadlines in the same step |
| `TurnEngineProofs`, `RuleProofs`, `CustodyProofs`, `SessionProofs`, `LifeProofs`, `CompanionProofs`, `ExpeditionProofs`, `BattleProofs` | theorems | see section 5 |
| `MCTurnEngine`, `MCRuleStore`, `MCCharacterCustody`, `MCSessionLifecycle`, `MCAdventure` | values of the constants for TLC; `MCAdventure` also what is explored | |

`TurnEngine` and `RuleStore` look at one dispute from two sides: the engine
tells rule writes apart only by who made them (a candidate, the player), and
keeps everything about attempts, failures and crashes; the rule store keeps the
rules' intervals and takes an accepted turn as one step. `CharacterCustody`
stands beside them: it composes any number of campaigns over one registry.
`SessionLifecycle` sees the same campaign file from outside the turn: a turn is one
step there, a migration and a close are many; custody is left out of it and the
release of characters is one step. `Expedition` is what the tools of an accepted
turn do to the state of play: every tool call is a transaction inside the turn's
savepoint, and a rejected turn takes all of them back (`OnlyAcceptedWrites`), so
the steps of `Expedition` are those of accepted turns.

### Abstractions

* A candidate's tool writes are one tag, `<<run, attempt>>`; a turn's input,
  session, id and seed are one value. The state hash is the hashed state itself,
  so two different states never collide and a state restored bit by bit has its
  old hash back, as in the code.
* The failure diagnostic is always written; the code makes a best effort. Not
  writing it changes nothing that another part reads.
* A process decides when it launches whether turns are audited. A quit, the
  close of its session included, is one change of the canonical state here.
* A migration of `TurnEngine` is one step, and changes the schema and its ledger. So
  is `Prepare`: `canon.party` counts the openings that wrote rows of characters or of
  their custody (`ensureCharacterReady`, `activateCampaignCustody`), both before
  `launch` looks for a pending replay. What they write is in `CharacterCustody`.
* The prose, scope and evidence of a rule are left out; its identity, ambiguity,
  interval, status and link are kept. Positions are numbers in the order of
  `compareCampaignPositions`.
* A sheet is the set of the changes play has made to it; equality and inclusion
  of sheets are what custody compares. A checkout that would change live state of
  a slot already held is refused, as in the code; live state itself is left out.
* Of the checkpoints kept of a campaign, `backup` is one, chosen without a
  rule: the one that the player may restore.
* A checkout, catch-up, sync-back or release is one registry unit
  (`BEGIN IMMEDIATE`), so it is one action, followed by the action `Stamp`.
  The attach inside a checkout commits in the campaign first: `Torn` is a death,
  or a failing write, between the two.
* Three places survive a write that fails, in files of `Failing`: a checkout of a
  set-up (`checkoutIntoCampaign` prints the error, and `setupDnd5eCharacter` asks
  again for the same slot: the task `"import"`), its stamp, and a release at close
  (`releaseCampaignCharacters` goes on with the next). A failing write of an
  activation ends the process, as a crash there does.
* So a checkout whose stamp fails has taken the lock when the set-up asks again. If
  the player takes another character for the slot, the first stays locked by a slot
  that is linked to the second, and no exit releases it. `HolderCanRelease` exempts this
  slot and no other.
* Registry entries from before revisions were kept, and copies from before
  stamps, are not in the initial states.

Of `CampaignWriter` and `SessionLifecycle`:

* The adoption of a legacy database compares many columns; here a file is absent,
  at the baseline, or foreign. Two migrations stand for any number.
* `Dangling` lets the symbolic link exist before its file: the lock is then named
  after the link, and later after the file (`campaignWriterLock.ts:52` takes the path
  as given when `realpath` fails), so two processes may write one new file. The run
  has `Dangling = FALSE`; with `TRUE` `LockSound` does not hold.
* The checkpoint repository is named after the path as given, not after the
  resolved one: `repo` is kept per spelling, and `CheckpointsHonest` asks for a
  checkpoint in either.
* The command line never closes a closed session again: a checkpoint that failed is
  taken later only if a host calls the close again (`CloseAgain`), as
  `sessionClose.test.ts` does.
* `CloseFails`: when the close transaction throws and a checkpoint runner is there,
  the error is reported and the rollup, the release and the exit go on with the
  session still open; the comment at `cli/src/playClose.ts:257-267` says the session is
  closed on every path above it. Without a runner the error ends the program.
* Restoring goes to one destination; a user may put a file there at any time.

Of `Adventure` and what it composes:

* Time is in hours, and a combat takes none. An effect that owns a creature may
  end at any time: its duration and concentration are left out here; those of
  effects that own a condition are in `Effects`.
* One effect at a time owns a creature; one actor; its cleanup is the same for an
  end and for a break. `MayOwn` holds the guards of `start_effect` about what may
  be owned. Forms that revert, objects, hydra heads and pocketed familiars are left
  out, and so is admission with supplied hit points or status, and the hit point
  path of `update_campaign_actor`.
* One hero rests. A repeated call with a recorded id returns what it returned, so it
  is a stutter. Sorcery points are one counter; pact magic is left out.

Of `Turns`, `Effects` and `Battle`:

* A budget is a row that is made when one is first needed, so `budget` is a
  partial function. `acted`, `cast`, `opted` and `strayed` are ghosts, read by the
  properties only.
* An effect has one target and one condition. The code never gives the id of an
  effect again; here an id is free once its effect has ended, since nothing reads
  ended effects. A `"turn"` timer is one anchored at the start of a participant's
  turn. Creation whose own condition would take down the owner is refused before
  anything is written, or after (`superseded mid-creation`); here it is not enabled.
* Left out: forms, zones, suppression, effects on several targets, conditions the
  caller supplies when an actor comes back, the spending of an action by the use
  of an item, and hydra heads.
* `strayed` collects the live effects whose condition was taken by somebody else.
  Three things take it, and the code lets all of them: the tools that remove a
  condition by hand know nothing of links (`domainMutations.ts:176-213`); an absent
  actor that is admitted again comes without conditions
  (`encounterCombatants.ts:2041-2042`) though a live effect may link one; and the
  recovery of a stable actor on the clock copies the conditions of its old row over
  what effects have since done to the actor outside a combat
  (`resolveCombatantRecoveries`, `syncCombatantActor`). The mutation lifecycle audit
  (`docs/audits/2026-07-12-f3-mutation-lifecycle-audit.md`, section 3, invariant 6) says that
  every active link names a condition that is there: that is `LinksHold` for effects
  that have not strayed.

Of `Items`:

* Items of one kind are alike (same record, variant, properties and name), which is
  what attunement and recovery compare. The kind of a row bound to a record of the
  rules (`PackBound`) stays; that of an ad-hoc row is its name, which a gift under its
  id rewrites. A bond keeps the kind attuned to, which for an ad-hoc row may be a
  record that its name or the caller's reference leads to (`Keys`). A location inside a container, holding and
  stowing, and a quantity of 0 are left out.
* Stateful pack items (charges, timers, `use_item`, receipts), what effects grant, and
  quarantined legacy rows or rows without wear state are left out; so are kinds
  whose attunement is refused because their curse needs work the engine cannot do.
* The ids of parts are `name#fate-n` in the code, a pool per name and fate; here
  one pool per name. A call that gives several fields at once is their sequence.
* The mate's life is not modelled: `Dead` is the hero or nobody.
* An expenditure's parts are recovered in the order of the calls.

Three behaviours of this code a reader should know of, which the properties state
as they are:

* Attunement keeps the name an ad-hoc item had when it was attuned to, and a gift under
  an id that is held renames the row (`domainMutations.ts:380-384`): give x the name A,
  attune to it, give x the name B, and attune to y, another B. One character is then
  attuned to two items of one name, which `attunement.ts:9-12` says cannot be.
  `BondsSound` compares what they were attuned to as, and says that for items of the
  pack this is what they are.
* `nextRelinquishedItemId` issues the smallest free id. Ammunition on the ground
  that is destroyed frees the id its expenditure still names; the next part that is
  dropped gets it. From then on that part is taken for the shot: it is reserved,
  a partial shot that would issue the id again is refused as already accounted for,
  and a recovery takes or destroys it. `reissued` collects the ids this happens to,
  and `ShotsAccounted` says that it happens to no other.
* What is dropped, sold or lost stays attuned to its former holder. Another who
  claims it can neither attune nor transfer it until the former holder ends the
  attunement.

## 3. What the runs check

All runs are exhaustive. State counts are distinct states.

| Run | Bounds | What it shows |
|---|---|---|
| `turn_engine` (about 1,272,000) | 3 turns, 1 ambiguity, 1 requirement key, 3 attempts, 1 tool round, 1 management change, 1 upgrade or 1 opening that writes characters | `OnlyAcceptedWrites`, `ChronologyContiguous`, `PendingResumable`, `DisputesSound`, the action property `TracesStand`, and `Implements`: every behaviour is a behaviour of `TurnChronicle` |
| `turn_recovery` | 2 turns, 2 requirement keys, 1 opening that writes characters, fairness | `TurnEnds`: every turn ends; `RecoveryCompletes`: a disputed turn is adjudicated again if the player persists, unless an opening wrote under its replay |
| `turn_reopening` (violation) | 2 turns, 1 upgrade, 1 opening that writes characters | the first finding below |
| `rule_store` (about 620,000) | 1 ambiguity, 2 chosen names, 3 ordinals | `OneRuling`, `ContextsStand`, `TableValid`, `Continuity` |
| `custody` (about 1,926,000) | 2 campaigns of one file, the first with writes that fail, 2 slots, 2 characters, 1 change | `SoleWriter`, `NoTwins`, `HolderCanRelease`, and `CarriedForward` of every clean exit, with failed releases (what is not handed back is still held) and without |
| `custody_copies` (about 473,000) | a campaign and its restored copy, whose writes may fail; 1 slot, 2 characters, 1 change | `StampedNeverRevert`, with the original and the copy open at once too |
| `custody_fork`, `custody_activation`, `custody_torn` (violations) | as in the configurations | findings below |
| `session` (about 512,000) | 2 processes of different programs, 2 spellings of the path, 2 sessions, 2 turns, arcs of 2 sessions, fairness | `LockSound`, `SchemaSound`, `ClosedWhole`, `ArcsAccount`, `CheckpointsHonest`, `StaysSettled`, and `CloseEnds`: a close that began ends |
| `adventure` (about 284,000) | a hero and a mate, 2 creatures and one actor, 2 combats, 2 rests, 5 hours; 2 names of things and one part of each, 3 kinds, 2 shots; 2 rounds, 2 turns of each participant, 2 effects, 2 conditions | `BodiesLegal`, `ActorMirrors`, `OwnedNeverDown`, `RecoveredOnTime`, `RestsSound`, `BondsSound`, `ShotsAccounted`, `TurnsFair`, `EffectsSound`, `DeathIsFinal`, `MagicOnlyByRest`, `CurseClings` |
| `reclaim` (violation) | the same, where a new creature may claim an actor that has rows | the last finding below |

Why the bounds are enough for what the runs ask:

* Three turns: a dispute of a turn that follows a replayed one, and the refusal
  of an older turn. Three attempts and two requirement keys: a retry bought by a
  new key, one refused for a repeated key, and the cap. `turn_engine` keeps one
  key, so the cap there is reached only if repeats are ignored; `turn_recovery`
  has two. One tool round: a tool call before a narration, and exhaustion.
* One reopening (`OneReworking`): an upgrade or an opening that writes characters, at any
  moment; a second one adds states and no case.
* `Horizon = 3` and two names: a rule superseded before and after it takes
  effect, a chain of two, and a revocation in the middle. One ambiguity is
  enough because rows of different ambiguities are never compared, but for links,
  and house rules (`NoAmbiguity`) give those.
* One change to a sheet makes a copy stale and a revert visible; two files of a
  campaign make a stale holder; two slots make an activation partial; a second
  character is there to be forked to, or to be taken for a slot whose checkout of the
  first failed. Writes fail in one of two campaigns, so that what failed in one is
  met by the other. Two copies with changes of their own, and a
  third file of another campaign, are only in the violation runs; the proof of
  `StampedNeverRevert` covers any number of each.
* Two sessions and a threshold of two: an arc that fills, rolls over and has a
  successor. Two processes: one that dies while the other waits, an older program
  after a newer one. Two turns: a scene closed by the first and one left open.
* Two creatures: one is the actor's and one is not, or both are rows of the actor in
  two combats. Rests of one and two hours, a day of three, five hours in all: two
  long rests that may follow one another and two that may not, a short one before or
  after a long one. Two slots of attunement and three things: a slot too
  many. A quiver of two and one part: a partial shot, a whole one, a part destroyed
  and its id issued again.
* Symmetry is used only in runs without liveness, over constants that no
  definition orders (turns, requirement keys, names, characters).

* Two rounds and two turns of each participant: a window that comes again with
  the same owner, and a reaction spent before one's own turn. Two effects: one
  that replaces another, one whose condition takes down the owner of the other, and
  two that might own one condition. A deadline of one hour, round or turn is met
  before and at the boundary.

`adventure` and `reclaim` check `MCSpec`, which is `Battles` with less of it explored.
The clock is all that creatures, the hero's body, the hero's magic and the things
share (with the combats, and the hero's death), so no property relates what happens to two of
them at once, and the constraint `Focus` leaves a state in which two were touched;
such a state is still checked, it is only not left. The same holds of a second
creature that is not the actor's, of two creatures after the first hour
(`OneCreature`), of rests used out of order
(`InOrder`), and of things (`Packed`: one quiver and its parts, or single things of
which one is away from the hero). The creatures' clock goes to 1 and their levels
of exhaustion are 0 and 6. Turns are explored with one creature and three spendings
and turns in all (`OneTurnEach`), effects with nothing spent (`FewEffects`), with
creatures as they come or put out of the fight, or else with the one the effect is
on (`Eventful`). `Scene` guards the steps themselves, `Focus` is the constraint, and
`MCAftermath` skips the follow-up of effects where there are none. Most of what `Focus` cuts off is covered by the proofs,
which are about `Spec`, `Journey` and `Battles` without any of this.

Deadlock is checked everywhere but in `adventure` and `reclaim`, whose clock, combats
and ids run out: there a campaign may have nothing left to do.

### Fairness

`FairSpec` assumes weak fairness of `EngineStep`, the steps of `runTurn` after
its start: the model client and the auditor answer or throw, and Node runs the
continuation. It is assumed of nothing else; a player need never come back.
`RecoveryCompletes` carries what it needs besides as its antecedent
(`Persistence`): the player relaunches and retries again and again, and the model
and the auditor do not refuse for ever. An opening that writes hashed rows
(`Reworked`) ends the promise, as the findings show.

`SessionLifecycle` assumes weak fairness of `Close(p)`, the steps of a close once it
began: they compute, or wait for a model call or the checkpoint program, which
answer or fail. Nothing is assumed of launching, playing, or dying. `CloseEnds` is
about a process that may die instead, which also ends the close.

### Findings

* `turn_reopening`: the documentation promises that reopening play offers the same
  recovery path. An opening writes before it looks for a pending replay: it migrates
  for an upgraded program, asks again for a character that was deferred, and settles
  the custody of the party. All of these change rows (or the schema) under the
  replay's hash, so the replay cannot be resumed any more. TLC shows one of them; with
  `MaxSchema = 0` or `MaxParty = 0` it shows the other. `PendingResumable` and
  `RecoveryCompletes` say what holds: a replay that no opening wrote under can be
  resumed.
* `custody_fork`: the fork of a stale copy is said to leave the source character
  idle. A restored copy can be stale while its campaign holds the character
  (after a crash); the fork then leaves the campaign holding it. Without
  concurrency: play and close twice, open again and die, restore the first
  checkpoint and choose fork. The original file
  can still release the source; the one that plays the fork cannot.
* `custody_activation`: a failed activation is said to leave nothing partial.
  Between its classification and its locks another campaign can take the second
  of two characters, and the lock on the first stays.
* `custody_torn`: a stale copy is said never to revert the timeline. A checkout
  that dies between its two databases leaves a linked slot without a stamp, and
  `isRestoredBehindHead` lets copies without a stamp pass, as legacy ones. Its
  campaign must have another working copy, from a checkpoint taken while the
  party was empty, that has since played the character and holds it again: then
  opening the torn file finds it already held, stamps it at the head, and its
  release appends the old sheet. `exempted` collects the characters this happens
  to; no other character is ever reverted (`StampedNeverRevert`).
* `reclaim`: two comments say that what a remove policy owns is never dying or
  stable. The guard looks at the new combatant, whose `campaignActorId` may name an actor
  with rows of its own: that actor's row goes on speaking for it, may be dying, and is
  what the effect owns after the combat. Its end then throws. Two neighbours of
  this, not in a run: an actor claimed while its own row stands in the same combat makes
  closing the combat throw, and summoning with a used id loses the new
  creature's state when the combat closes (`toolStartEffect.ts:83-84`).

## 4. Mutants

Beside a definition stands, for each property, a form of it with a plausible bug
(`\* Mutant:`), which breaks the property under the run's own configuration. They
are not used by any specification.

## 5. Proofs

`TurnEngineProofs` proves, for every value of the constants that satisfies the
named assumptions of `TurnEngine` (finitely many turns, positive caps, tags that
are positive numbers):

* `TypeCorrect`: `Spec => []TypeOK`. The type invariant is inductive by itself;
  it also bounds the attempts by their cap.
* `AcceptedWritesOnly`: `Spec => []OnlyAcceptedWrites`, and `Recoverable`:
  `Spec => []PendingResumable`, for any number of turns, attempts, changes,
  upgrades and reopenings. Neither is inductive. The invariant `IInv` adds, of the committed
  store, that the replay snapshot lacks the latest turn (so a restore removes
  its trace) and that stored schemas, and the openings that wrote characters, only grow
  (so equal ones mean that no opening wrote between); and of a running turn, what its savepoints hold: that
  `db` and `attemptDb` differ from `disk` by the turn's position and the current
  candidate's writes alone, and that `before` is the committed canon. The lemma
  `NextInv` has one step per action.
* `TracesOutlive`: `Spec => TracesStand`, an action property, from the same
  invariant.
* `ChronologyHasNoGaps`: `Spec => []ChronologyContiguous`, and `DisputesAreSound`:
  `Spec => []DisputesSound`. `ChronInv` adds to `IInv` that the positions of the turns
  form a line `1 .. n` (`InLine`), in the database and in the replay snapshot, that the
  corrective rule of a dispute stands where its turn was, and that a running turn
  differs from the database by the next place in that line (`Resolving`). Lemma
  `NextInLine` is the step the code takes by counting rows, `LineLength` why counting
  them gives the last place.
* `EngineImplementsChronicle`: `Spec => Implements`. A chronicle of `n` turns is the
  committed traces at the positions `1 .. n`, so its length is one number however long
  the campaign. Lemma `StepKinds` sorts the steps of the engine by what they do to the
  database: nothing the chronicle sees, one more trace, a dispute, a management change,
  an upgrade, an opening that writes characters; each of these is then a step or a stutter of `TurnChronicle`.

`RuleProofs` is about `RuleStore`, for any ambiguities, names and horizon:
`TablesStayValid` (`Spec => []TableValid`), `RulingsStayUnique` (`[]OneRuling`),
`TurnsKeepTheirRules` (`[]ContextsStand`) and `LinesContinue` (`[]Continuity`), all from
`RulesInvariant`. A write looks at one row and its neighbours, and the properties are
about whole tables. `RulesInv` says what connects them: no two rows of an ambiguity
overlap, links are injective and lead to rows that start no earlier, and where a
superseded row ends another begins that stands in the place of one, which is why it
cannot be revoked before it begins (`Relieved`). Every write is prospective, so that it
changes nothing at the positions of accepted turns; a dispute brings back an older
table, so the invariant also says that this table (`before`) stands up to the turn before
the latest.

`CustodyProofs` proves, for any campaigns, files, copies, characters and slots,
any writes that fail, and the named assumptions of `CharacterCustody` (a copy is
a file, slots are positive, `NoChar`, `Idle` and the names of the tasks are no
data):

* `TypesHold`: `Spec => []TypeOK`. Not inductive: that a released or resolved slot
  is linked, and to a registered character, follows from `Plans` and `Rows`.
* `NeverReverted`: `Spec => []StampedNeverRevert`. A release appends the sheet of a
  copy that is stamped at the head, so the sheet must contain the head. `IInv`
  says so of every row, in a file or in a checkpoint (`Row`): a stamp names a
  revision that exists and whose progress the copy has. The stamp follows the
  registry's commit, so the same must hold of a copy whose stamp is due (`Due`)
  while other files append to the timeline and restore copies. Lemma `RowStays`
  carries both along a growing timeline; `Appended` uses them for the release,
  and `Attaching` for the three ways a head sheet gets into a slot.

The four others, `OneWriter` (`SoleWriter`), `NeverTwice` (`NoTwins`), `HoldersCanRelease`
(`HolderCanRelease`) and `ProgressReturns` (the action property `CarriedForward`), assume
`OneFileEach`, that each campaign has one file, and nothing of the writes that fail:
`Failing` is any set of files. The run `custody` assumes one file too, for a reason in
the code: a restored copy has the campaign id of its original, so the registry cannot
tell them apart, and what the four say is then not so (`custody_fork` is a case of it);
with copies `StampedNeverRevert` is what is left. What failing writes cost is in the
properties themselves: after one, a slot may hold a character and be linked to another
(`HolderCanRelease` exempts it), and a campaign that was left
may still hold what it did not hand back (`CarriedForward`). `SoleWriter` and `NoTwins`
are not weakened. `OwnInv` says what custody of a character by a slot means while its
process may be anywhere in a set-up, an activation or a close:

* the slot holds the character with all its progress (`Kept`), and is stamped at the head
  before play can change it, or owed that stamp (`Stamped`, `DueHead`); or a write failed
  there and it is linked to another character (`Orphan`);
* a character is in one slot, and one reserved for a fork in none yet (`Alone`,
  `Reserved`);
* a slot that a set-up asks for is linked only after a failed write, and is then held or
  as it was attached (`Fresh`, `Idling`);
* what is played is held, what is still to be resolved is not (`Locked`), and what a close
  has released is handed back, or still held where a write failed (`Returned`).

There is one lemma per action, and one frame (`Acts`, `Spares`) for what an action of one
file leaves true of the others: it takes what nobody holds, gives up what it holds, and
appends to what it holds.

`SessionProofs` assumes `~ Dangling`, as the run does: that no link to the campaign is there
before its file (with one, a process could lock a name that is not yet the file's).
For any processes, programs, spellings of the path, sessions, turns and thresholds:
`OneWriterAtATime` (`[]LockSound`), `SchemaIsLedger` (`[]SchemaSound`),
`ClosesAreWhole` (`[]ClosedWhole`), `ArcsAreAccounted` (`[]ArcsAccount`),
`CheckpointsAreHonest` (`[]CheckpointsHonest`), `SettledForGood`
(`StaysSettled`) and the types. `SessionInv` has three layers. `WriterInv`: only
the holder of the lock has the file open, and how far its migration has come is what
ledger and schema say. `CanonInv`: what holds of the rows between any two
transactions. `JobInv`: what a process remembers from before an await is still so
after it (the arc it rolls up has the sessions it listed, the session is the one it
committed), because only the process that holds the lock moves anything.
`OthersIdle` is the lemma that says this once for all steps.

The lemmas of `LifeProofs` are about operators: every write that its guard
lets through takes a `Sound` row to a `Sound` row, and a `Legal` combatant to a `Legal`
one, and never one that is dead or gone back into play. On them rest, for any
hit points, hours, rests, rows and combats that satisfy `HeroNumbers`, `RestHours`,
`Slots`, `SlotCosts`, `CompanionNumbers`, `NoActorIsNone`, `ClockBounds`, `ItemNames`,
`TurnNumbers` and `EffectNumbers` (`SlotCosts`: a slot costs at least its level in
points; the rules ask 2, 3, 5, 6 and 7 for the levels 1 to 5, `SPELL_SLOT_COSTS` in
`foundation1SourceObligations.ts:80`):

* `LifeProofs`: `RestsStaySound` (`Spec => []RestsSound`), `HeroStaysSound`, and that the
  dead hero stays dead. The invariant `HInv` adds to them that a rest on record ended in the past
  and a window belongs to one; a long rest's guard looks at the clock only,
  and needs the first. `MagicStaysSpent` (`Spec => MagicOnlyByRest`): what a hero has
  left in slots and points, a slot counted as its level, grows by a long rest only. `Worth` is a sum over
  the levels; the lemma under it is what a sum does when one of its terms changes, and
  `SlotCosts` is what makes turning points into a slot no gain.
* `CompanionProofs`: `BodiesStayLegal` (`Spec => []BodiesLegal`), `ActorStaysMirrored`
  (`ActorMirrors`), `OwnedStaysUp` (`OwnedNeverDown` if `Reclaim = FALSE`; `reclaim`
  shows that it is needed), and `DeathStaysFinal` (`Spec => DeathIsFinal`). `CInv` has what they need of each other: rows are ordered by
  combat (`Ordered`), so the newest speaks; only that one is in play (`Alone`); there
  is an actor exactly if there are rows for it (`Embodied`), what an effect owns is
  there (`Linked`), what will be removed follows rules that cannot make it dying
  (`Tamed`), and an actor whose last row is dying or stable is still what that row says
  (`Echoed`). `EverybodyRecovers` (`Spec => []RecoveredOnTime`): `OnTime` says that an hour
  waited for lies ahead of the clock (a new one is the clock and something positive, and
  whatever moves the clock wakes those it passes), and that an actor that waits has a row
  that waits for the same hour, with which it is woken. `TypesStayOK`
  (`Spec => []TypeOK`): `Bounded` says of rows, dice and hours what `CInv` leaves open.
* `ExpeditionProofs`: `JourneyPlays` (`Journey => Spec`), by which all of the above holds
  of journeys; `BondsStaySound` (`Journey => []BondsSound`) and `CurseStaysOn`
  (`Journey => CurseClings`) for any characters, ids, kinds, slots. A dropped part
  is a new row, and its id must not be one a bond names: that is
  what `BondsSound` itself says (a bond has an item), so `BInv` adds only the shape of rows
  and finiteness. A gift that renames a row is why bonds are compared by the kind at
  attune time; a row of a pack kind is never renamed, which `CurseClings` needs. The one action that adds a bond is `AttuneItem`; lemma `BondsKept` covers
  the others. `ShotsStayAccounted` (`Journey => []ShotsAccounted`): `Stocked` adds that no
  two open expenditures name the same item, so that recovering one takes nothing that
  another reserves. `JourneyTypesStayOK` (`Journey => []JourneyTypeOK`) follows from the two.
* `BattleProofs`: `TurnsStayFair` (`Battles => []TurnsFair`). `TurnsInv` says what the rows
  of `combat_turn_budget` remember of what the property's ghosts saw: who acted is the
  owner of the open turn or has a trace of it in its budget (`Marked`), the token of a
  spent option names a turn that was opened and has ended unless it is the open one
  (`TokenPast`), and the budget of the open turn knows the kinds of spells cast in it
  (`CastKept`). Nothing else in a journey writes any of this.
  `BattleTypesStayOK` (`Battles => []BattleTypeOK`) needs more than types of the effects:
  `Seats` says that an effect is on, and owned by, somebody who is there, without which
  ending it would write to a row that does not exist.
  `EffectsStaySound` (`Battles => []EffectsSound` if `Reclaim = FALSE`): `EffectsInv` adds
  to `Seats` that ids are given once (`Apart`), that an owner has one effect and can
  concentrate (`Single`, `Watched`), that a deadline is ahead of the clock it
  is read on and, in rounds or turns, in a combat (`Timely`), that an effect has its
  condition for itself among creatures that are alike (`Owned`), and that the copies of
  the durable actor have the same conditions (`Agree`). Lemma `Retained` says when effects
  that remain still own their conditions, `FreeKeeps` that ending some takes
  only conditions that no remaining one owns; there is one lemma for each tool, for
  the end of a turn, and for what a step of the journey ends, and those that end effects
  rest on these two.
  The close of a combat (`CloseBinds`) hands what the lasting row carried to the durable
  actor: lemma `LastingSpeaks` says that this is one row if no second creature may claim
  the actor, which is where the assumption is needed. The `adventure` run makes it too.

Only model-checked: liveness (`TurnEnds`, `RecoveryCompletes`, `CloseEnds`), because
fairness is out of the prover's reach. Every other property of a passing run is stated by
a theorem. The violation runs' properties are
refuted by their runs, so there is nothing to prove of them; `OwnedStaysUp` shows what
`reclaim` needs.

## 6. Not modelled, and the plan

Done: the turn engine with its refinement, the rule store, custody, sessions with
locks, migrations and checkpoints, and of the state layer hit points, combatants, what
effects own, rests, slots, items, turns and concentration, with proofs for each of them.

Next, in this order:

1. Stateful items: charges, and timers that fire at every boundary the clock crosses.
2. Currency and progression: rewards that are granted once, and levels that follow them.
3. `EffectsSound` where a second creature claims the actor, once the code refuses it (see
   `reclaim`).

The models cover the control of these parts and a small share of the lines: the
implementation is dominated by importers and schemas of rules data (a third of it),
generated text, audits over immutable data, and tools whose code is mostly the
validation of their arguments.

One thing the models leave aside: the precedent tool looks at the current and the next
position only (`toolAcceptAmbiguityPrecedent.ts:72`), and a ruling scheduled for a later
one lets the proposal through; the turn is then rolled back, which
`OnlyAcceptedWrites` covers, but the proposal could have been refused at once.

Left out for good: pure parsing, formatting and I/O (dice notation, prompts,
model transports, debug log, command line), rules data and its audits (immutable
data that a model would restate), character creation and level-up choices (their
difficulty is the data), read-only context assembly. `PROJECT.json` gives the
reason for each.
