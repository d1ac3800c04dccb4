# Verification of hermes-skill-publisher

The plugin moves a skill package from the local skills root of an agent to a
shared root and shows it to other tools through symlinks in adapter roots. No
file system offers that as one operation, so it is a journaled transaction
with rollback and recovery, and it must not lose the author's package whatever
dies, fails or interferes half-way. A middleware around the host's
`skill_manage` tool and hooks at the turn boundaries of every agent work on the
same skills at the same time, ordered by advisory locks. This directory holds
TLA+ modules of the transaction, of its inverse, of the locks and of the
sessions that use them, TLC configurations that check them on small instances,
and TLAPS proofs of what matters most for every instance.

Paths below are relative to `src/hermes_skill_publisher/`.

## 1. Inventory

| Part | Code | State | Operations |
| --- | --- | --- | --- |
| Promotion | `publisher.py` `promote` | source, backup, stage, target, links, journal, registry | preflight, journal, stage, park, rehash, commit, link, register, drop the backup |
| Rollback and recovery | `publisher.py` `_rollback_promotion`, `recover`, `_finish_promotion` | the same | undo, finish, refuse |
| Unpublish | `publisher.py` `unpublish`, `_finish_unpublish` | the same, in the other direction | stage, rewrite the scope, park, commit local, unlink, deregister; inverse rollback; recovery |
| Reconcile | `publisher.py` `reconcile`, `cleanup_deleted` | registry, links | repair a missing owned link, forget a deleted skill |
| Managed mutation | `plugin.py` `intercept`, `publisher.py` `preflight_delete`, `update_managed_digest` | canonical package, registry digest | check, call the core, restore or record the new digest |
| Locks | `filesystem.py` `acquire_locks` | `flock` on the state file and on each root | ordered acquisition, 10 s time-out, nesting in `recover` |
| Middleware policy | `plugin.py` `_parse_skill_manage_args`, `_capture_write_gate`, `_call_downstream` | the write-gate context variable, a failure latch | reject, classify, call the core at most once |
| Lifecycle | `plugin.py` `_lifecycle_boundary` and the hooks | none | recover, reconcile, publish pending |
| Tree primitives | `filesystem.py` | trees and links | exclusive rename, copy, checked removal, digest |
| Durable state | `state.py` | journal files, `registry.json`, audit | atomic replacement, validation |
| Configuration, frontmatter | `config.py`, `frontmatter.py` | none | authorization, scope |
| Command line, doctor, release check | `cli.py`, `scripts/` | none | call and report |

The parts meet in shared files only: all state is on disk, every operation
re-reads journal and registry after it holds the locks, and a pending journal
bars every other operation on its skill (`transaction_barrier`). Operations of
cooperating processes are serialised by the state lock. Programs that take no
lock (an agent writing its skill, an editor, another tool) are not.

What is hard, and what makes each part correct:

- *Promotion and its recovery*: a crash or a failed call between any two of
  some thirty steps, a rename that took effect although its `fsync` raised, a
  writer inside every gap between a check and its use, a rollback that fails
  itself, a recovery that verifies digests once and then goes by the presence
  of paths. Correct: nothing authored is lost, the backup outlives everything
  but complete ownership, ownership is never taken back, an undone promotion
  leaves no trace, and what is left for an operator has a known cause.
- *Unpublish*: the same in the other direction, with two digests (the
  canonical one and the one of the rewritten copy) of which one is not known
  until staging is done. Correct: the owned version survives until the
  registry forgets the skill, the registry forgets it only when its rewritten
  version is local and no link is left, and that is final.
- *Locks*: no cycle although `recover` takes root locks after it has read the
  journals, and coverage of every adapter parent that is changed.
- *Managed mutation*: the core call is between the check and the new digest;
  a delete must not meet a republished package of the same name.
- *Middleware policy*: the bypass is set and reset around a call that may
  raise, and a failed reset must block later writes.
- *Lifecycle*: a blocked recovery must suspend reconcile and publication.

`PROJECT.json` lists each hazard at its line.

## 2. Modules

```
SkillStore            places on disk, records, outsiders
  Promotion           the steps of promote
    PromotionRecovery handler, rollback, recover, faults; Next and Spec
      PromotionProperties   properties; INSTANCE PackageCustody, RegistryContract
        MCPromotion         symmetry, safety runs
        MCPromotionLive     finitely many faults, fairness, liveness runs
      PromotionProofs       theorems: types, nothing is lost
        PublicationProofs     theorems: the other promises, the refinements
          RecoveryProofs        theorem: recovery stops only for a cause
  Unpublish           unpublish, inverse rollback, recover, faults
    UnpublishProperties   properties; INSTANCE RegistryContract
      MCUnpublish         finitely many faults, symmetry, fairness
      UnpublishProofs     theorems: types, ownership
        WithdrawalProofs    theorems: the other promises, the refinement,
                            and that recovery stops only for a cause
PackageCustody        abstract specification of a promotion
RegistryContract      abstract specification of registry and journal, for
                      promotion, unpublish and the sessions

Locks                 the lock protocol, for any number of profiles
  LocksProofs         theorems about it
  ManagedSkill        one skill, its sessions, crashes, the environment
    ToolCall          the middleware around skill_manage
      Lifecycle       turn boundary, publish, unpublish; SkillNext, SkillSpec
        LifecycleProperties   properties; KeepsProtocol == LockSpec;
                              INSTANCE RegistryContract
          MCLifecycle         finitely many faults, fairness, the sessions run
          SessionProofs       theorems (with LocksProofs)
            SessionContractProofs   theorems: packages, the contract
```

There are two levels of detail. `Promotion` and `Unpublish` have one action
per system call and one holder of the locks; a skill starts unpublished in the
one and published in the other, and they do not meet. `Lifecycle` has both
transactions, all tool calls, reconcile and recovery in one model with any
number of sessions, and the steps of a transaction are those another session,
a crash or somebody without a lock can come between: for a promotion journal,
park, place, register; for an unpublish journal, stash, return, unlink,
deregister, discard, and for its recovery the checks and then each step that
follows from them. The detailed modules show that what lies between two such
steps is put right by rollback and recovery; the coarse one shows that the rest
of the plugin keeps its promises around them.

`RegistryContract` ties the two levels together. It has seven variables, all
of them visible to whoever does not hold the locks: the local and the
canonical package, the adapters that show it, whether something is hidden, the
kind of the pending transaction, and the record. `Begin`, `Publish`,
`Withdraw`, `End`, `Edit` and `Forget` say when the last three may change and
what must be in place then; how the packages and links move in between is left
open. All three modules implement it with their own refinement mapping, and
each theorem of the sessions about a coarse step has its counterpart in the
detailed module: where `Register` or `FinishPromotion` of `Lifecycle` publishes
in one step, `Publish` is what some thirty detailed steps, crashes and
recoveries come to. `strayed` and `disturbed` belong to the environment: who
takes no lock may have changed the canonical package, or the local one while an
unpublish was pending, and the clauses that ask for that package are void then.

| Contract | Promotion | Unpublish | Sessions |
| --- | --- | --- | --- |
| `local`, `target` | `source`, `target` | `source`, `target` | `local`, `target` |
| `shown` | links it made; once registered, links with its text | the same | links it made |
| `hidden` | there is a stage or a backup | the same | the same |
| `pending` | `journal` | `withdrawal` | `journal.kind` |
| `record` | `registry`, with every adapter as root | the same | digest, roots, time of creation |
| `strayed` | another tool made the target | never | an unlocked call changed or removed it |
| `disturbed` | never | never | the author or an unlocked call changed the local package |

### State and how it corresponds to the code

| Variable | In the code |
| --- | --- |
| `source`, `backup`, `stage`, `target` | the trees at `source_path`, `backup_path`, `stage_path`, `target_path` of the journal: absent (`None`), partial (`Torn`), or a version |
| `links` | the object at each adapter path: absent, the expected text made by the publisher (`ours`) or by somebody else (`twin`), anything else |
| `journal` | the journal file: `phase`, `digest`, `created_adapters` |
| `registry` | the digest of the publication record in `registry.json` |
| `authorized` | `skills.external_dirs` names the shared root |
| `mem`, `todo`, `attempt` | the journal dictionary, loop and attempt counter of the running call |
| `pc` | the next step of whoever holds the state lock; `idle` when nobody does |
| `owed`, `maker` | history, read by properties only: versions authored and not given up; who made the canonical package |

One action is one system call, or the checks that are made in a row before the
next call. `Promotion` follows the body of `promote` line by line;
`PromotionRecovery` has the `except` branch (`Handle`), `_rollback_promotion`
(`RollbackCheck` ... `EndClear`) and `_finish_promotion`:

| Actions | Lines | What happens |
| --- | --- | --- |
| `FinishCheck` | 623-636 | paths and digests are verified, nothing is changed |
| `FinishDrift` | 631-632 | the canonical package is another one: the backup goes back, and an error |
| `FinishStaged`, `FinishSource` | 638-648 | the source never left: drop stage and journal, or refuse a changed source |
| `FinishBackup`, `FinishCommit`, `FinishFromBackup` | 649-655 | a parked package: commit its stage, or restore the canonical path from it |
| `FinishUnlink`, `FinishUnpark` | 659-662 | or take the links away and give it back |
| `FinishTarget` | 663-664 | a package at the canonical path is the one to register; none is an error |
| `FinishLink` ... `FinishDropped` | 666-695 | link, register, drop the backup; the end is shared with rollback |

Outsiders act between any two of these. Only `FinishCheck` looks at digests;
the steps after it look whether there is a package, and `FinishCommit` and
`FinishFromBackup` move whatever is there by then, as lines 651 and 655 do. The
checks of `FinishCheck` are one step, and so is a condition with the branch it
chooses: each outsider changes one place in one step, so what he does between
two of these reads can be moved before or after all of them, and a place that
vanishes between the look and the digest raises, which is `IOError`. `Unpublish`
has the same cut (`ResumeCheck`, then `ResumeLocal`, `ResumeCommit`,
`ResumeAbort`, `ResumeLost`).

`WritePhase` is `_journal_phase`: memory first, then the file.
A link is made and put in memory in one step and journaled in the next, as the
callback of `create_relative_symlink` does. A removal checks the digest, makes
the tree `Torn`, and removes it, in three steps.

`Unpublish` has its own journal (`withdrawal`: phase, `canonical_digest`,
`local_digest`) and memory (`memo`). `Start` ... `Complete` are the body of
`unpublish`; `Undo` ... `UndoComplete` its `except` branch; `Resume` ...
`ResumeComplete` are `recover` and `_finish_unpublish`, whose recursive call
after the rename at line 760 is the jump of `ResumeCommit` back to
`ResumeCheck`. The stage is rewritten in place (`Rewrite`, `Rewritten`), torn
in between, and `local_digest` is `None` until the phase `staged` is written:
a crash before that leaves a stage that recovery cannot identify.
`WithdrawalValid` is the end of `_validate_journal`; `Resume` is disabled for a
journal that fails it, which is how `recover` treats it.

### Sessions

A session is a process or thread that runs the plugin: an agent, with tool
calls and turn boundaries, or a command of the operator (`publish`,
`unpublish`). `pc` is its next step, and between any two of its steps another
session, a crash or the environment may act.

| Variable | In the code |
| --- | --- |
| `at`, `asked`, `holds`, `state` | the frame of `acquire_locks` of each session: outside, about to take the state lock, taking roots; the sorted root list; the roots and the state lock it has |
| `local`, `target` | the package below the local root, the canonical one |
| `parked`, `stage` | the package a pending transaction keeps at `backup_path`, the copy it keeps at `stage_path` |
| `links` | the object at the adapter path in each root: absent, the expected link, one that a promotion made and died over before the journal had it (`lost`), another object |
| `record`, `journal` | the publication record (digest, adapter roots, `created_at` as the count `made`) and the pending transaction |
| `roots`, `approval` | `adapter_roots` of the configuration, `skills.write_approval` |
| `seen`, `conf`, `kept` | locals of a call: the record read before the locks, the loaded configuration, the `SKILL.md` to restore |
| `bypass`, `latched` | the write-gate context variable; the failure latch of the process |
| `strayed` | history: a core call changed the canonical package and could not record it |
| `disturbed` | history: the author or an unlocked call changed the local package while an unpublish was pending |

| Actions | Code |
| --- | --- |
| `Ask`, `TakeState`, `TakeRoot`, `Drop` | `acquire_locks`, file by file; `Drop` is its `finally`, and the kernel when a process dies |
| `Nest` | the nested `acquire_locks` of `recover`, with no state lock and the roots of the journals |
| `GiveUp` | `TimeoutError` after ten seconds |
| `Request`, `CheckBarrier`, `AskRoots`, `Preflight` | `intercept` up to the core call: policy, `_managed_publication` without a lock, barrier, `delete_lock_roots`, the checks under the locks |
| `OpenGate`, `GateSetFails`, `CoreSucceeds`, `CoreRefuses`, `CoreRaises`, `ResetBypass`, `ResetFails` | `_call_downstream`: the second look at the approval gate, the bypass, the host core (external), the reset and the latch |
| `RestoreEdit`, `SaveDigest`, `NothingRecorded`, `StartCleanup`, `RemoveLink`, `EndCleanup` | after the core: `_atomic_restore`, `update_managed_digest`, `cleanup_deleted` link by link, the record last |
| `Boundary`, `Recover`, `Preview`, `Reconcile`, `EndForget`, `Repair`, `EndRepair`, `Discover` | `_lifecycle_boundary`: `recover`, `reconcile`, `publish_pending`, with the returns and exceptions that cut it short |
| `Promote`, `Park`, `Place`, `Register` | `promote` |
| `Finish` (`FinishPromotion`, `AbortPromotion`, `RetreatPromotion`, `BlockPromotion`) | `_finish_promotion`: a publication, a source that never left, one that comes back, a raise |
| `Check`, `Resume`, `Give`, `Keep`, `Unrecoverable` | `_finish_unpublish`: the checks (707-743), the branch (744, 759, 762-774), the rename at 760 |
| `Publish`, `Unpublish`, `Withdraw`, `Stash`, `Return` | the commands, and `unpublish` until the private version is local |
| `Unlink`, `UnlinkFails`, `Deregister`, `Discard` | the links, the record and the hidden trees, in `unpublish` (1095-1102) and in its recovery (745-757) |
| `Undo`, `UndoBlocked` | the inverse rollback (1105-1149) |
| `Crash`, `Author`, `Meddle`, `Reconfigure` | the death of a process, an edit of the local package, of a link, of the configuration |

A call for a skill the registry did not know runs the core without a lock: the
host resolves the local root first and then the shared one, so such a call may
meet a canonical package that a concurrent promotion has just put in place.
`Resolved` is that rule, and `strayed` remembers when it happened.

### Faults and outsiders

`Faults` and `Outsiders` say what may happen in an instance.

- `crash`: the process dies before any step; locks and memory go, the disk
  stays.
- `io`: a call raises. One that raises before its effect is `IOError`; one
  that raises after it is the step followed by `IOError`. The copy removes its
  stage or fails to. The planned journal is outside the `try` block
  (`PlanUnsynced`).
- `write`, `create`, `discard`: the author changes, creates or removes the
  local package. `late`: a write through an old file handle lands in the
  backup before it is rehashed; `stale`: at any later time.
- `tamper`: somebody writes into the stage. `target`, `edit`, `delete`:
  another tool creates, edits or deletes the canonical package. `link`:
  another tool occupies an adapter path.
- `auth`: the operator edits the configuration between two operations.

### Abstractions

- A package is its digest; digests do not collide. `Shared` are the versions
  whose `SKILL.md` validates with scope shared. `Private` gives each version
  its rewritten form; a package validates with the requested scope when it is
  such a form.
- One skill. Journals of other skills matter through the global barrier of
  invalid journals only; the journals of this model are valid by construction.
- Adapters are interchangeable and visited in any order (the code sorts them).
- The publication record is reduced to its digest; its time stamp is not
  needed because a promotion starts only without a record.
- Power loss that reorders unsynced writes is left out: a step is durable when
  it has happened. Temporary files of atomic replacement are left out.
- The adapter roots do not change while a journal exists.
- An outsider acts atomically, except that the copy sees the source at two
  moments.

For the sessions, in addition:

- One skill of one profile. The theorems about `Locks` allow several profiles,
  whose sessions meet at the roots.
- A transaction takes the steps named above; what a crash leaves between two
  of them is the journal with the packages and links of that moment, and
  `Finish` and `Check` are recovery from it. The rollback of a promotion is part
  of its last step, and recovery of a promotion is one step: in this model
  whoever takes no lock can create, rewrite or delete the local package, and
  edit or delete the canonical one, but creates none there and touches no hidden
  tree. What he does between the checks of that recovery and its registration
  leaves what the same act leaves right before the recovery, right after it,
  or between `Park` and `Register` of the promotion.
- Which of the digests an unpublish has in its journal when it died is not
  kept: `MayRefuse` lets recovery stop whenever nothing is parked and the stage
  or the local package may be one it cannot identify.
- A promotion makes and journals its links in the step `Register` or
  `FinishPromotion`. When it dies over one the link is `lost`: neither journal
  nor record knows it, and it does not count as shown. `LinksOwned` and the
  contract are about the others; that a lost link stays until an operator
  removes it is hazard publisher.py:379.
- `Withdrawn` stands for every package with its scope rewritten.
- `RecordIsTrue` exempts skills that `strayed`: a core call that died or raised
  after its effect, or that ran without a lock, leaves a digest nobody could
  record. Without the exemption TLC finds such a behaviour; `reconcile` reports
  it as drift and changes nothing. The exemption ends when the record is next
  brought up to date or goes.
- `LinksLocked` exempts `reconcile`: when `promote` finds the skill already
  published it calls `reconcile` within its own locks, those of the configured
  roots (line 444), and a repaired link may lie in a root that left the
  configuration in the meantime. The state lock still excludes sessions of
  the same profile.
- The policy check of a request (its shape, the capability, an empty write) is
  the choice whether `Request` happens.

## 3. Runs

The promotion instances have two shared versions, one that is not, and two
adapters: a restage needs two versions, a source that turns private needs a
private one, and a half-made set of links needs two. The unpublish instances
have two shared versions, each with a private form of its own. Versions and
adapters are interchangeable, so the safety runs use symmetry (adapters only
for unpublish, where the versions come in pairs); the liveness runs do not.
Deadlock is not checked: a blocked transaction waits for an operator.

| Run | Shows |
| --- | --- |
| `promotion_faults` | types; while others write, create and rewrite the source and occupy adapter paths the backup is kept until ownership is complete (`RetainedUntilOwned`); the registry takes only complete publications (`RegistersComplete`); the whole implements `PackageCustody`, for the outside a skill changes hands in one step (`HandsOver`); and `RegistryContract` (`PromotionKeepsContract`) |
| `promotion_deauthorized` | with authorization going and coming, source and canonical package deleted, foreign links and writes to the source and its parked copy: no authored version is lost (`NothingLost`), registry ownership is never taken back (`PointOfNoReturn`), only valid shared versions are exposed (`OnlySharedPublished`), and a rollback or recovery that stops has one of the causes in `Unresolvable`, is a rollback of what the registry owns, or lost the canonical package between two looks (`GivesUpForCause`) |
| `promotion_outsiders` | with nine kinds of outsiders at once no hidden tree outlives its journal (`NoHiddenOrphans`), an undone promotion leaves nothing behind (`UndoneCompletely`), and no foreign object is replaced (`NeverReplaces`) |
| `promotion_resolves` | every transaction ends or has one of the causes in `Unresolvable` (`Resolves`); once outsiders pause, the registry owns the skill from some moment on, or the source is not to be published and no journal is left, or such a cause stays for good (`Publishes`): attempts that fail and are rolled back for ever are none of these |
| `unpublish_conflicts` | types; with other tools creating and deleting the canonical package, occupying adapter paths and writing into the stage, no step destroys the version the registry owns (`OwnedSurvives`), the removal of the record is final (`ForgottenForGood`), and nothing of others is overwritten (`WithdrawalReplacesNothing`) |
| `unpublish_settles` | every unpublish ends or has one of the causes in `Blocking` (`Settles`), with nothing hidden left over (`NoHiddenLeftovers`); the registry forgets a skill only when its rewritten version is local and its links are gone (`ForgottenIsLocal`); registry, journal and hidden trees change as `RegistryContract` says (`UnpublishKeepsContract`); a rollback or recovery that stops has one of the causes in `Hindered` (`QuitsForCause`) |
| `sessions` | an agent and an operator on one skill, with one crash and one host fault or outside move: types; no two sessions inside the locks share a root (`Exclusive`), waiting follows the lock order (`WaitsUpward`); at rest the record tells the truth (`RecordIsTrue`) and owns all links (`LinksOwned`); a managed call acts on the publication it saw (`ActsOnSeen`); a pending transaction bars edits, deletes and repairs (`Barred`); links change under the locks of their roots (`LinksLocked`); no call is staged and no bypass leaks (`NeverStages`); half-done deletes are completed (`DeletesComplete`), pending skills get a record (`SharedIsPublished`), resumable journals are finished (`BarrierLifts`); no session destroys a package it does not own (`PackagesKept`); the sessions keep `RegistryContract` (`SessionsKeepContract`) |

The sessions instance has one root for the canonical package and two adapter
roots of which one is configured at a time, so that the recorded roots and the
configured ones differ after an edit of the configuration; two shared versions,
for an edit that is seen; two publications (`MaxMade`), for one that is taken
back and made again while a call waits. An agent and an operator are the two
kinds of session; several of each are covered by the theorems. The shared
versions and the configurations are interchangeable at the start, so one of
each is fixed. All safety properties of this run are proved for any instance
(section 4).

`SharedIsPublished` counts a skill as unpublished also while its promotion is
under way (`Promising`: the package is at the source, or parked and perhaps
committed, under a journal the validator accepts), so a promotion that is
rolled back for ever violates it. Between the steps of one agent's recovery
only the author moves in this instance; an unlocked `create` there takes a
second agent, and the theorems have any number of them. Without `disturbed`
the author alone breaks `PackagesKept` and `SessionsKeepContract` in this run.

Its fairness (`SessionsRun`): a call that began goes on, which is weak fairness
of `Continue`; an agent whose calls keep ending comes to a turn boundary again
and again, since the plugin registers the boundary on hooks the host runs
before every call of the model, unless the host's check makes it return at
once; and the operator does not type commands for ever. Locks need no strong
fairness: a holder always goes on to its end or dies, and both release.
`DeletesComplete`, `SharedIsPublished` and `BarrierLifts` ask for a host that
lets its agents mutate (`AgentsMayMutate`): with the latch set or the approval
gate on, the hooks do nothing by design.

The liveness runs and all unpublish runs allow two crashes or failed calls in
a behaviour (`MaxFaults`): one in the operation and one in its rollback or
recovery. The fairness is weak fairness of the publisher's own steps: an
operation that runs goes on, and hooks at every turn boundary call `recover`
and `publish_pending`. The request to unpublish, which an operator makes, is
excepted. Faults and outsiders are under no fairness.

The bound on attempts is the code's. Nothing else is bounded: journals and
versions repeat, so the state space is finite as it is.

The properties hold beside the outsiders of their runs and no others, and
`Outsiders` says so. Recovery verifies digests once and goes by the presence of
paths afterwards; who acts in between, or writes where no lock and no digest
keeps him off, breaks some of the promises. These are the smallest sets of
outsiders with which TLC finds a property of promotion violated, next to
crashes and failed calls:

| Property | Broken with |
| --- | --- |
| `NoHiddenOrphans` | none |
| `NothingLost` | stale; tamper; target |
| `RetainedUntilOwned` | discard; edit; delete; tamper; target |
| `RegistersComplete` | edit; delete; tamper; target |
| `OnlySharedPublished` | edit; tamper; stale with delete; target with write, with late, with stale, or with create and discard |
| `PointOfNoReturn` | edit; tamper; target |
| `HandsOver` | discard; stale; edit; delete; target with write or with late |
| `PromotionKeepsContract` | edit; delete; tamper; auth; target with write, with late, with stale, or with create and discard |
| `UndoneCompletely` | delete; auth |
| `NeverReplaces` | link with delete or auth |
| `GivesUpForCause` | create; edit; tamper; target; stale with delete |

Four of these behaviours, all in the gap between lines 636 and 663:

- The stage is A at line 633, a tool rewrites it to B, line 651 commits B. The
  registry takes A, the backup, the only copy of A, is deleted at line 692, and
  after a crash before that line the next recovery takes the drift branch.
- The target is absent at line 629 and another tool creates B: lines 638-651
  are skipped, line 663 passes, A is registered over B and its backup deleted.
- The canonical package of a registered skill is deleted, the backup is A at
  line 635, an old handle writes a private version, line 655 exposes it.
- The target is there at line 649 and gone at line 663: recovery stops with the
  backup whole (`TakenAway`); the next one puts the package back.

`_finish_unpublish` looks at the paths once to verify them (lines 715 to 735)
and again to choose a branch (lines 744 to 773). A local package created in
between is taken for the committed one, and the registry forgets the skill
(`ForgottenIsLocal` with `create`); a canonical package recreated in between
ends the transaction with the backup left behind (`NoHiddenLeftovers` with
`target`). In the sessions the first of these can happen, by the author or an
unlocked `create`: there the contract says with `disturbed` that the skill may
be forgotten for a package somebody else left at the local root.

### Where the code does not do what its documents say

Each run below checks one sentence of the repository and finds it violated.

| Run | Sentence | What happens |
| --- | --- | --- |
| `finding_stale_commit` | a late write is "never stale-committed" (`docs/ARCHITECTURE.md`) | a write through an open handle after the one rehash does not stop the commit; the changed backup is kept and its journal blocks |
| `finding_adoption` | existing targets "are never adopted" (`docs/LIMITATIONS.md`) | recovery takes an equal package of another tool for its own and registers it |
| `finding_ownership_undone` | ownership is "the point of no return", and digest drift stops "with every artifact preserved" (`docs/ARCHITECTURE.md`) | the drift branch of recovery renames the backup to the local root of a registered skill |
| `finding_invalid_journal` | "Durable journals recover interrupted promotion/unpublish work" (`RELEASE_NOTES.md`) | recovery removes the record without writing a phase; when the host dies before the journal goes, the validator (lines 308-309) rejects the journal for ever and every skill is barred |
| `finding_torn_backup` | "let recovery finish backup/journal cleanup" (comment in `promote`) | a removal that fails half-way leaves a tree every recovery refuses |

## 4. Proofs

`PromotionProofs` proves for all values of the constants:

- `TypeCorrect`: `Spec => []TypeOK`.
- `NothingIsLost`: `Spec => []NothingLost`, assuming that no write reaches the
  backup after its last digest, that nobody changes the stage and that nobody
  else creates the canonical package (`Trusted`). Each of the three is
  necessary (section 3).

`NothingLost` is not inductive: a step that removes a tree is safe only
because of where the operation stands. The invariant `Kept` adds

- `HasDigest`: a running operation has a digest in memory (so `backup =
  mem.digest` says the backup is a whole package);
- `Checked`: at the steps after `FinishCheck` backup and stage are still the
  version in memory, which is what they were verified to be;
- `UnownedIsLocal`: a whole backup without a package at the source, before
  the hand-over, is not given up by anybody;
- `RollbackUnowned`: a rollback past its preflight has no registry record;
- `Handed`: between registration and the end, the canonical package or its
  author's later versions answer for what the backup held;
- `DropReady`: when the removal of the backup starts, the version it holds
  is in place elsewhere or was given up.

Each conjunct has one lemma that goes through the actions of `Next`; the
temporal step is the usual induction. TLC checks `Kept` in the instance of
`promotion_deauthorized`, with `create` and `edit` added in turn.

`PublicationProofs` proves the other safety properties of promotion. Where a
property needs others to keep off, the theorem says from what; whatever it does
not exclude may happen at any moment, next to unlimited crashes and failed
calls.

| Theorem | Property | Excluded outsiders | Invariant |
| --- | --- | --- | --- |
| `NothingHiddenRemains` | `NoHiddenOrphans` | none | `Cleanly` |
| `RegisteredForGood` | `PointOfNoReturn` | target, edit, tamper | `Owning` |
| `OnlyCompleteRegistered` | `RegistersComplete` | target, edit, delete, tamper | `Linkable` |
| `OnlySharedExposed` | `OnlySharedPublished` | target, edit, tamper; stale and delete together | `Valid` |
| `SourceRetained` | `RetainedUntilOwned` | discard, target, edit, delete, tamper | `Retaining` |
| `PromotionHandsOver` | `HandsOver` | discard, target, edit, delete, stale, tamper | `Handing` |
| `UndoneLeavesNothing` | `UndoneCompletely` | delete, auth | `Undone` |
| `NothingReplaced` | `NeverReplaces` | delete, auth | `Accounting` |
| `PromotionKeepsTheContract` | `PromotionKeepsContract` | discard, target, edit, delete, tamper, auth | `Keeping` |

The invariants build on each other; each adds what its property needs to hold
from step to step:

- `Cleanly`: whoever is at work has a journal (`Underway`), and by the time the
  journal goes backup and stage are gone (`Swept`).
- `Owning`: where the registry has no record yet, or the one of the version in
  memory, and that a canonical package of another version means there is no
  backup to go back to the source (`Ownership`); and, as far as nobody deletes
  the canonical package or writes through an old handle, that recovery restores
  from the backup only what it verified (`Restorable`).
- `Linkable` (`Progress`): from the checks of a recovery on, what is at the
  canonical path is the version in memory; in the link loops everything that is
  not left to do is linked and in the journal held in memory, and from the last
  journal write to the registration the durable journal says the same.
- `Valid`: the version in memory was validated (`Vetted`) and the stage is that
  version (`Untampered`); a package is parked only under a journal that names a
  valid one, which is what recovery goes by when the source has changed or
  turned private.
- `Retaining`: where memory and durable journal have one digest (`Agreed`), and
  that a source that is gone is parked whole or owned whole (`Retained`).
- `Handing` (`Held`): before the registration the parked version is the one to
  be registered, and what a rollback would give back is owed to the author.
  From it every step is a step of `PackageCustody` or changes nothing there:
  `Register` and `FinishRegister` are its `Publish`, the author's writes its
  `Author`, also when they reach the parked package through an open handle.
  This is the refinement of the abstract specification, for every instance.
- `Undone`: recovery never retreats, because a parked source has its copy next
  to it (`Copied`); the handler knows every link that was made (`Accounted`);
  what the publisher made it owns or has journaled (`Claimed`). The exclusion
  of "auth" is necessary: rollback without authorization goes by the durable
  journal, which does not know the last link.
- `Keeping`: `Retaining`, `Vetted` and `Undone` together. With them a change of
  the registry is the contract's `Publish` (`PublishStep`): the digest is a
  validated one, the target is that version, every adapter shows it, and there
  was no record. The removal of the journal is its `End`
  (`UnjournalingStep`), and without a journal nothing but a new plan changes
  (`UnjournaledStep`). The proof excludes discard because it builds on
  `Retaining`; in the instance TLC finds the contract kept when others discard
  the source, as long as they put no package at the target. The other exclusions
  are needed, as the table in section 3 shows.

`RecoveryProofs` proves the part of the liveness of recovery that needs no
fairness:

- `RecoveryStopsForCause`: `Spec => GivesUpForCause`, with "create", "tamper",
  "target" and "edit" excluded (`Intruders`), and that an old handle is used
  after the canonical package was deleted (`Restored`); otherwise the author may
  write, discard and use old handles, others may link and delete, the
  authorization may change, in the gaps of a recovery as well. The code
  refuses to go on in some fifteen situations. The theorem says that of all of
  them only those in `Unresolvable`, and a canonical package that is deleted
  between two looks of one recovery (`TakenAway`), can come about without an
  intruder: that source and backup, source and target or stage and target are
  both there, or that target or record are another version, is nothing that a
  crash or a failed call at any step, also one of an earlier recovery, leaves
  behind. The invariant `Resolving` says so: one place at a time holds the
  package (`Apart`); under a journal what is shared is the journaled version
  (`Versioned`); memory and journal name one digest unless there is nothing
  but the source (`InStep`); and where in the operation the stage is whole and
  the source away (`Placing`). TLC finds each of the exclusions necessary.
  `Resolves` adds, for the instance, that recovery also gets to its end.

TLC checked these invariants before they were proved, in instances with two
adapters, three versions and every outsider the theorem does not exclude that
its state space allows.

`UnpublishProofs` proves, with no assumption on faults or outsiders:

- `UnpublishTypeCorrect`: `UnpublishSpec => []UnpublishTypeOK`.
- `OwnedVersionSurvives`: `UnpublishSpec => OwnedSurvives`.
- `ForgottenIsFinal`: `UnpublishSpec => ForgottenForGood`.

The invariant `Sound` is the type invariant and `Standing`, which says what a
step may rely on because of where the operation stands:

- `StageWhole`: the stage that is rewritten is a whole package. Types need it:
  a partial tree has no rewritten form.
- `DropsForgotten`: where the backup may be removed the registry has no
  record. That is all `OwnedVersionSurvives` needs.
- `StillOwned`: where the local package may move the registry has one.
- `KnowsCanonical`: the running `unpublish` and its handler hold a digest, so
  a registry that agrees with it is not empty; the handler's second look at
  the registry (line 1117) thereby leads to `StillOwned`.
- `NothingStaged`: a recovery that found no record found no stage either, so
  it cannot commit one, even when the local package vanishes between its check
  and its branch.

`StepSound` goes through the actions of `UnpublishNext` and gives the
invariant and both action properties at once.

`WithdrawalProofs` proves the other safety properties of unpublish:

- `WithdrawalReplaces`: `UnpublishSpec => WithdrawalReplacesNothing`, from the
  types alone and with no assumption.
- `WithdrawalLeavesNothing`: `UnpublishSpec => []NoHiddenLeftovers`, unless
  others put a package at the canonical path between the checks of a recovery
  and its branch. The invariant `Tidying` says where backup and stage are gone,
  and that a recovery that finds the canonical package found no backup.
- `WithdrawalIsLocal`: `UnpublishSpec => ForgottenIsLocal`, unless others touch
  the package or its copies; they may delete the canonical package and put
  objects at adapter paths. `Withdrawing` follows the version through its copy,
  its rewriting and its journal entry (`Exact`) and the links that are left
  (`Unshown`), as long as the registry owns the skill.
- `UnpublishKeepsTheContract`: `UnpublishSpec => UnpublishKeepsContract`,
  unless others touch the package or its copies, deletion included. The
  invariant `Releasing` joins the two above with `Kept`, that what the registry
  owns is at the canonical path or parked; `KeptStep` has it from
  `OwnedVersionSurvives`. The change of the registry is the contract's
  `Withdraw` (`WithdrawStep`); when the journal goes and the skill is still
  owned, the backup is gone (`Tidying`), so by `Kept` the package is back. TLC
  finds the contract broken with any one of the excluded outsiders.
- `WithdrawalStopsForCause`: `UnpublishSpec => QuitsForCause`, with the same
  four outsiders excluded as for a promotion, each necessary. The invariant
  `Resolving` has the same parts, and `Drafted`: once the digest of the
  rewritten version is known the stage is that version, whole or in part, so
  that recovery can tell it from a plain copy. The run `unpublish_settles`
  has only foreign links beside the faults; with the author writing and
  discarding, the canonical package deleted and the authorization changing TLC
  has checked invariant and property as well.

`LocksProofs` proves of the lock protocol, for any number of sessions,
profiles and roots:

- `LocksExclude`: `LockSpec => []Exclusive`.
- `LocksOrdered`: `LockSpec => []WaitsUpward`.
- `LocksClimb`: `LockSpec => []ChainsClimb`. Whoever waits for a session that
  waits itself waits for an earlier lock, so no set of sessions waits in a
  circle; in particular the nested call of `recover` is safe, because it asks
  for roots while it holds the state lock only.

The invariant is `Disciplined`: a session outside or before the state lock has
nothing, inside it has the state lock, it holds only what it asked for, and no
lock has two holders. `ProfileOf` and the order of the roots are the only
assumptions (`LockAssumption`).

`SessionProofs` proves of the sessions, for any number of agents and operators,
packages, roots and configurations, under `SkillAssumption` and with unlimited
crashes, host faults and outside moves:

- `SessionsKeepProtocol`: `SkillSpec => KeepsProtocol`, the refinement of
  `LockSpec`. Every step of every call, with its early returns, exceptions and
  crashes, is a step of the lock protocol or leaves the locks alone.
  `SessionsExclude` and `SessionsOrdered` follow from it and the theorems about
  the protocol.
- `SessionsTyped`, `RecordStaysTrue`, `LinksStayOwned`, `CallsActOnSeen`,
  `PendingBars`, `LinksStayLocked`, `NothingStaged`: the other safety
  properties of the `sessions` run, each `SkillSpec => []...`.

None of these is inductive. Their common invariant `SkillInv` consists of

- the invariant of the locks and the types;
- `StoreAgrees`: every link is in the record; a pending promotion has no
  record beside it and publishes a valid shared version; a pending unpublish
  has the digest and the roots of the record, until that goes;
- `RecordTells`: `RecordIsTrue` in every state but those in which a session
  stands between its core call and the new digest (`Rewriting`);
- `SessionInv(s)` for every session: where it is in the lock protocol at each
  of its steps (`AtStep`), what it read and what of that still holds inside
  the locks (`Remembers`), that the roots it will touch are among those it
  asked for (`AskedFor`), the journal, the hidden packages and the links while
  it moves the skill (`Journals`),
  what is known of the package before the record is brought up to date
  (`Accounts`), and the gate (`Gated`).

The proof that a step preserves it is split by what the step disturbs. The
store lemmas (`StoreStep`) go through the actions once for links, record and
journal; `OwnStep` shows the invariant of the session that moves;
`StepDiscreet` shows that whoever changes record, journal or parked package
has the state lock, and that a record that keeps its time of creation keeps
its roots, and from that `BystanderSound` gives the invariant of every other
session; `SessionTells` keeps the record true. What makes `AskedFor` inductive
is the time of creation: a session that read a record before its locks may
find another digest, but with the same `created_at` it has the same roots, and
with another `created_at` the preflight ends the call.

`SessionContractProofs` proves the other two safety properties of the sessions,
under the same assumptions and for any number of sessions:

- `PackagesAreKept`: `SkillSpec => PackagesKept`. Who parks a package finds the
  hidden places empty, who puts one at the canonical path finds that empty, and
  what goes is what its owner gave up, or was parked by an unpublish beside
  whose recovery somebody without a lock changed the local package.
- `SessionsKeepTheContract`: `SkillSpec => SessionsKeepContract`.

`SkillInv` does not say where the packages are. `PlaceInv` adds what is hidden
under which journal, and what is not in its place as well (`Hidden`); and for
every session which places are empty, and what is parked, staged and returned,
at the steps that rely on it (`Places(s)`). `StepsPlain` shows that whoever is
outside the locks hides and takes nothing, fills no place a session inside them
needs empty, and is remembered when it changes the local package under an
unpublish (`Plain`), which gives the bystanders (`OthersPlaces`); `OwnPlaces`
is about the session that moves. Each kind of step of the contract then has a
lemma of its own (`RegisterKeepsContract`, `UndoneKeepsContract`,
`WithdrawalKeepsContract`, `KeptKeepsContract`, `ForgetKeepsContract`), for
the command, the turn boundary and the recovery that take it.

Neither theorem excludes an outsider, where those of the detailed modules
exclude most of them, for three reasons that bound what they say. Whoever takes
no lock does less here: he touches no hidden tree and creates no canonical
package. What he does to the local package under an unpublish, and to the
canonical one at any time, is allowed for in the statements by `disturbed` and
`strayed`: the skill may then be forgotten, and the parked copy and the stage
dropped, beside a local package that is not the private version, which is what
the gap between lines 735 and 744 lets happen. And a link a promotion died over
before it was journaled (`lost`) is not counted as shown.

With these, every safety property that a passing run checks is a theorem, and
so are all refinements. That recovery stops only for a named cause is proved;
that it ends is not. Model-checked only: liveness (`Resolves`, `Publishes`,
`Settles`, `DeletesComplete`, `SharedIsPublished`, `BarrierLifts`), which is
out of the prover's reach.

## 5. Plan

Done: the detailed promotion and unpublish; the locks; the sessions with
managed mutation, write gate, reconcile and the turn boundary; the proofs
above. What is left, in order:

1. Two profiles in one run, with recoveries that meet at shared roots.
2. The steps of the recovery of a promotion in the sessions, as those of an
   unpublish are there now, with other tools that create canonical packages.

## 6. Not modelled

- The audit log: append-only reporting. The transactions swallow its failures,
  and no operation reads it back.
- The release check (`scripts/`): a scan of the repository at build time.
- `status`, `doctor` and the listing commands only read and print.
- Request shapes, YAML, path resolution, overlap checks of roots, file modes
  and size limits: functions of their input that decide whether an operation
  starts, which the models take as a choice.
- The validation of journal and registry files that were edited by hand: the
  models start from files the program wrote. The one journal the program
  itself writes and then rejects is the run `finding_invalid_journal`.
