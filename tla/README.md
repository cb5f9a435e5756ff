# Conference Manager: a TLA+ model of its client-side state machines

Conference Manager is a browser application: three applications (employee and
manager, tenant administration, platform administration) that share an API
client, a persistence client and a composition root. The backend is not part of
the repository. What the repository's code must get right is therefore what a
browser tab does between calls: drafts and workflow keys that outlive the editor
they belong to, lists refreshed while older reads are on their way, mutations that
outlive the view they were started from, commands whose outcome stays unknown,
and queues of calls waiting for a proof that the operator is present.

The modules here are translated from that code. `PROJECT.json` gives the source
lines of every definition, the runs, the mutants that show each property can
fail, the hazards, and the theorems.

    tlc -workers 2 -config RequestWorkflow.cfg MCRequestWorkflow.tla
    tlapm RequestWorkflow_proofs.tla

## 1. The system

"Partly" means that the component's core is modelled and the note in
`PROJECT.json` says what is not. Paths are below `src/src/`.

| Component | State it keeps | Operations | What makes it correct | Modelled |
|---|---|---|---|---|
| Request drafting and workflow (`employee/server-draft-store.js`, `server-request-workflow.js`, `production-application.js` `renderRequest`) | session-storage draft with a workflow reference; per editor: reference, start promise, locks, 400 ms save timer, generation | edit, move, save, submit, discard, resume, sign-in again | one workflow per draft; a late answer never writes into another draft; a workflow is closed only on the backend's word | `RequestWorkflow`, partly |
| Requests view and coordinator (`production-application.js` `renderRequests`, `requestMutations`) | refresh generation, committed and interactive projection, reservation per Request | refresh, cancel, propose a change, leave, lock | one mutation per Request; no list goes backwards; every outcome told once; nothing stays reserved | `RequestList`, partly |
| Availability, resubmission, queued Request | availability generation, resubmitted Request | check, resubmit | a check answers for the form it was made from | no |
| Calendar, history, projections | none but a selected week | render | pure functions of served data | no |
| Manager Requests and cockpit (`manager/production-application.js`) | as the employee's list, with coordinator entries that end with their promise | transition, decide, propose, refresh, focus | as the employee's list; what a card shows together was true together | `ManagerRequests`, partly |
| Manager business settings, catering | a draft and its revision, latest read | load, save, publish | a save carries the revision that was read | no |
| Composition root, navigation (`app.js`, `platform/app-shell.js`, `application-context.js`) | current view, per-view refreshers | navigate, refresh, reset | a late rendering never paints into another view, nor without authority; projections never go back | `ApplicationShell`, partly |
| Tenant presentation (`platform/tenant-presentation-runtime.js`) | authority generation, mutation and refresh serials, applied revision | refresh, apply, save organization | revisions applied never go back; authority lost is not restored by a late answer | `TenantSettings`, partly |
| Tenant administration (`tenant-admin/…`) | per section: value, revision, dirty form | load, save, reload on conflict | a section that was left writes nothing; the form is always given back | `TenantSettings`, `TenantAdministration`, partly |
| Invitations (`platform-admin/customer-invitation-controller.js`, `tenant-admin/sections/users/invitations-controller.js`) | command kept while its outcome is unknown, status, busy | load, issue, retry, reissue, revoke, leave | a batch is not issued under two commands | `PlatformInvitations`, `TenantInvitations`, partly |
| Platform operation client (`platform-admin/production/operation-client.js`, passkey and Microsoft confirmation) | queue, abort signals | request, confirm, refresh the session, stop | the outcome told is true; no operation is repeated; each proof is bound to its own challenge | `OperationClient`, partly |
| Operator session, passkey login | session boundary, ceremony state | expire, log in, enrol | an expired document cannot be revived | its effect on the client only |
| Customer authentication, production session | phase, cookies of two kinds of transaction, memberships offered | request, verify, resume, select, check, restart | a selection is sent once, whatever is lost; the view always offers controls again | `CustomerSignIn`, `CustomerSession`, partly |
| Customer lifecycle clients | pending operation, cleanup | create, resume, clean up | an operation is resumed, not repeated | no |
| Inactivity lock | lock state, deadline, cross-tab messages | lock, unlock | every tab locks; unlock needs a session | `ApplicationShell`, without its timer |
| Bounded lookups | pool of running lookups | load, abort | a context is of its card's version and of the catalogue shown | `ManagerRequests`, partly |
| Bulk transfer | preview bound to a revision | preview, apply | what is applied is what was validated, once | `BulkTransfer`, partly |
| Persistence client, wire contracts | none (pages are read in a loop) | list, read, mutate | a list is complete or fails | by what the modules assume of it |
| Other API clients, metrics, contracts, demo runtimes, UI primitives | none, or demo data | | | no: pure checks, rendering or fixtures |

How they interact: views call the persistence client, which answers by promises;
navigation, lock and authority failures reach views by callbacks and by
generations they compare after each `await`; the draft store and the workflow
reference share `sessionStorage`; a coordinator outside the views ties mutations
to Requests; a session found or lost replaces the document, and with it every view;
a section's panel renders the section anew, and a section's save the presentation of
the tenant; the platform's panels share one operation client, whose session
boundary clears all of them.

What is hard: every promise outlives its surface; the answer to a call may be
lost after the backend acted; a reload leaves requests on the wire; retries must
carry the same key; refreshes overtake each other. Nothing runs in parallel: a
step of a model is one event of the browser's loop, or one action of the backend.

## 2. Modules

| Module | Role |
|---|---|
| `RequestWorkflow` | one tab drafting new Requests, over an external backend |
| `RequestList` | the employee's Requests view, its refreshes and mutations |
| `OperationClient` | the platform's client for operations that may need a proof; no specification of its own |
| `PlatformInvitations` | the platform console's invitation panel; EXTENDS `OperationClient` and composes it with the controller, the form and other users of the client |
| `IssueOnce` | abstract specification of an invitation panel, which `PlatformInvitations` implements |
| `TenantInvitations` | the tenant administration's panel, over a plain client |
| `ManagerRequests` | the manager's view of Requests, its lookups and mutations |
| `ApplicationShell` | the customer application's document: start, renderings, dialogs, lock |
| `CustomerSignIn` | the controller for signing in, and the transactions it asks for |
| `CustomerSession` | EXTENDS `ApplicationShell` and composes it with `CustomerSignIn`: a tab |
| `TenantSettings` | the settings' shell, the form of a section, the presentation |
| `BulkTransfer` | the panel that validates and applies files |
| `TenantAdministration` | EXTENDS `BulkTransfer` and composes it with `TenantSettings` |
| `MC*` | symmetry and model values |
| `*_proofs`, `PlatformInvitations_refinement` | theorems |

### RequestWorkflow

`local` is the tab's draft: the stored content with its workflow reference, and
the reference cached by the store. An editor `e` is one call of `renderRequest`;
`current` is the editor for which `isCurrentEditor()` holds, the others go on
with whatever they await. `op[e]` is the step of Submit or Discard awaited under
`lockDraftMutation`; `starting[e]` the promise of `ensureStarted`. `wire` and
`replies` are calls and answers on their way, `server` the backend's workflows;
a workflow id is issued per idempotency key, so a key stands for both. A request
whose page is gone has no editor (`NoEditor`) and may still be served.

`OpenNew` restores the stored draft; `FirstEdit` starts the workflow; `Submit` and
`Discard…` chain start, write and, for a conflict, a readback. `Leave` covers
navigation, a new rendering and the lock after inactivity. `Reload(signIn)` is a
reload of the page, or a new sign-in, whose different session makes the stored
draft foreign. Editors of a repeated Request (`Repeats`) have no draft store.

Left out: contents beyond a few values, the availability check, quota refusals of
the storage, resubmission.

### RequestList

A surface that was left never comes back, so one `generation` serves all. A read
passes through *sent*, *listed* (the snapshot is taken when the list is served)
and *details* (changes and room contexts are fetched). `committed` and
`interactive` are the projection generations of the code, as booleans. `mut[m]` is
one reservation with its tracked object; `handlers` counts the reactions of the
surface shown to its promise, and `Quiet` says that reactions run before the next
event. A Request is abstracted to its version at the backend.

The controls of a card are always offered (an over-approximation of the rules
per status). The dialog of a proposal is not taken to make the page inert.
Closing it by force with a second Escape, filters, focus, history and
resubmission are left out; so is a lost mutation that reaches the backend after
its failure was reported.

### OperationClient, PlatformInvitations, IssueOnce

A call is numbered in the order in which it is made; the promise chain `tail`
runs calls in that order, so the queue is the set of calls not yet settled. Its
phases follow `send()`: *queued*, *first* request, *confirm* after 428, *second*
request with the proof, *refresh* of the session. `Failure` is the catch block:
after `mayHaveMutated` the outcome is unknown, before it the call was cancelled
or not executed. The session boundary's expiry stops the client (`ended`) and
clears the panel. `Serve` and `ServeLate` are the backend's: it runs the
operation, turns it down, asks for a proof, or fails before or after having run
it; a request whose call was given up may still arrive.

`PlatformInvitations` adds the controller and the form. `draft` counts the drafts
typed into it: it is emptied when an issued batch was followed by a successful
read. `pending` is the command kept; `step` is what `perform()` awaits, and the
reaction to a settled call is a step of its own, guarded by `busy` as in the code.
`creation`, chosen initially, is the form that creates a customer with its
invitations. `OtherCall` is any other user of the client. The list's contents,
pages and reads that bypass the queue are left out; reissue and revoke are
possible whenever the list is ready.

`IssueOnce` says what all this is for: a command carries an intent; while one may
still be executed or was executed, no other command is sent for that intent. The
refinement maps intents to drafts, *open* to the commands that travel and have not
been executed, *done* to those that were.

### TenantInvitations

The same controller without proofs: any refusal of an attempt drops the command,
and a failed read leaves the form open. The backend answers a command it has
executed with a receipt, an unreadable answer, or a refusal made before looking
at the command (too many requests, authority).

### ManagerRequests

`reads` are refreshes on their way; a refresh waits for the catalogue and the list
(`ServeCatalog`, `ServeList`, in any order) and then for one lookup of the open
change and one of the room context per card, each answered or not by the time limit
(`LookupChange`, `LookupContext`, `Draw`). Contexts and catalogues are revisions of
the locations, which somebody else may change between any two answers. `mut[m]` is a
reservation: a transition, a decision on a change, or a proposal, which is prepared
by a coherent read with one repetition (`first`, `second`), then filled in a dialog,
then posted. `entry` is the coordinator, which forgets a mutation with its promise;
`followed` says that a card of the surface shown has attached its reaction since.

`told` is a history: the newest version a success announced to a list that is shown.
A mutation that settles while its surface was left, and before the next one has
cards, is told to nobody, and the list under way may be of the version before it; so
the code means it, and `UsableIsReconciled` says nothing of such a mutation.

### ApplicationShell, CustomerSignIn, CustomerSession

A document (`page`) starts by `bootstrap()`, the required projections and what `app.js`
asks for before its first view, the presentation, onboarding and catering
("discovery"): each of these may be missing (`Discover`), and a refused one leaves the
document without authority and without a view (`DiscoverDenied`). Their calls, made in
turn with nothing else on the page, are one step, for it only matters whether one is
refused. The inactivity lock is `guarded`, installed, with the first view. A document
ends where the user reloads it, signs out, unlocks it or signs in. `renders` are the
renderings of the welcome page that wait for their projections; `revision` and
`refresh` are the generations they compare. Every other view is the one value "work":
of it the shell only sees that it was rendered, and may report that the authority is
gone (`WorkDenied`). Under the lock `Kept` undoes what is painted, as the mutation
observer does before the next event. The user's inactivity is a choice of the
environment.

`CustomerSignIn` has the phases of the controller. `call` is what `run()` awaits, and
its `purpose` the operation it belongs to, which decides the phase a failure ends in.
`jar` are the cookies, `stage` the backend's transactions; `stray` are calls whose
answer is not awaited any more and that may still be served: the session may open
while the view believes that nothing was accepted.

In `CustomerSession` one view serves all renderings of a document (`SignInView`), and
both parts ask the same backend, whose session another tab or time may end.

### TenantSettings, BulkTransfer, TenantAdministration

A rendering is a `surface`; what `isCurrent()` asks is `Current`. A save (`calls`) goes
on when its section was left: *reload* and *reloaded* are the read that precedes a
reapplication, *put* the save, *refresh* and *refreshed* the refresh of the
presentation after an organization. `presentation` has the fields of the runtime
(`current.revision`, `highestRevision`, `refreshSequence`, the authority).

`BulkTransfer` is the panel with the file selected, the latest validation, its receipt
and what is being applied. A document is the pair of a type and a file. In
`TenantAdministration` the panel comes and goes with the rendering that has it
(`PanelView`), and what it applies is a revision of the section.

A save that the backend accepted is reported as failed when another save brought a
newer presentation before its answer (`tenant-presentation-runtime.js:119`); the form
is then refused by its revision if it is sent again.

## 3. Runs

All state spaces are finite and searched completely, except in the runs that are
expected to find a violation.

| Run | Bounds | Distinct states | Question |
|---|---|---|---|
| `RequestWorkflow` | 2 editors, 2 keys, 2 contents, 1 orphaned request | 318,846 | do two editors in turn keep draft, key and workflow together? |
| `RequestWorkflowRepeat` | a new and a repeated Request, no orphans, fair | 220,914 | is the stored draft left alone, and the form always given back? |
| `RequestWorkflowReplaced` | 3 editors, 2 keys, 1 content | 116,257 | may a late start write into the draft that replaced its own? |
| `RequestWorkflowRefused` | a content the store refuses | violation | finding 1 |
| `RequestList` | 2 Requests, 2 mutations, 3 refreshes by the user | 2,023,787 | the safety of the view |
| `RequestListOutcome` | 1 Request, 2 mutations, 3 refreshes, fair | 932,057 | does whoever stays learn the outcome? |
| `RequestListStale` | 1 Request, 1 cancel | violation | finding 2 |
| `PlatformInvitations` | 4 calls, 2 commands, queue of 2, fair | 1,210,349 | are outcomes true, commands kept, drafts issued once, the panel released? |
| `TenantInvitations` | 6 calls, 2 commands | violation | finding 3 |
| `ManagerRequests` | 1 Request, 2 mutations, 3 refreshes, 1 change elsewhere | 3,354,335 | is what the manager acts upon current and coherent? |
| `CustomerSession` | 3 documents, 2 renderings each, 1 transaction, fair | 534,626 | is nothing shown without authority, nothing sent twice, nobody left waiting? |
| `TenantAdministration` | 2 sections, 3 renderings, 2 saves on their way, 3 generations of the panel | 1,393,666 | do late saves, refreshes and validations leave what is newer alone? |

Why the bounds are enough. The draft's races need the editor that made a call, a
later editor, and, for replacement, a third one that finds the new draft; each
key is allocated by one start, so two keys show every confusion of two drafts.
One orphaned request already overtakes every other. Overtaking of lists needs two
reads, the third lets a refresh by the user fall between; two mutations of the
same or of different Requests show every conflict of reservations. Four calls
are an issue, a retry, a read and one call of somebody else; a queue of 2 instead
of the code's 5 makes "busy" reachable with them. The last call is kept for the
read that follows a write (`Free`), so that the bound never stops the panel in
the middle of an operation.

The manager's races are between two refreshes, or a refresh and a settlement, of one
Request: a second one has a card of its own, which only shares the generation, and two
mutations conflict on one Request or not at all. One change elsewhere makes a
catalogue, a context or a version stale; the repetition of a coherent read meets it in
either attempt. A tab needs three documents to lose a session, sign in and be left
again, and two renderings in each to overtake one another; further transactions differ
in nothing, because the view knows only the one of its cookie. An organization save
needs another one on its way to be stale, and a third rendering to be left; two
receipts show every confusion of two validations.

The theorems below hold without these bounds.

`CHECK_DEADLOCK FALSE` is set because editors, mutations, refreshes, calls and
commands are finite supplies: when they are used up the model stops.

Symmetry is used in safety runs only, over keys, editors of new Requests,
Requests and mutations, none of which the code orders. Calls and commands are
numbers, and are not symmetric.

### Properties

`TypeOK` is in one run per module. The others:

- `FinishedIsTerminal`: a closed editor's workflow is submitted or abandoned at
  the backend. `OneKeyPerDraft`, `KeyBelongsToDraft`, `ResumeKeepsKey`: a draft has
  one key through all its editors, and no other draft's. `StoredIsCurrent`,
  `LateStartKeepsDraft`: a late answer or timer does not store what another
  editor did not write. `ClearedOnlyWhenTerminal` (action property): a draft
  disappears only with its workflow closed, untouched, or foreign.
  `LockReleased` (liveness).
- `OneMutationInFlight`, `NoLeakedReservation`, `ReportedOnce`, `NeverBackwards`
  (action property), `OutcomeReported` (liveness).
- `OutcomeIsTrue`, `RunsOnce`, `ChallengeKept`: what callers are told agrees with
  what the backend did and will do; a call challenged and sent twice runs once;
  the browser's binding cookie is the one of the challenge confirmed.
  `UnknownIsKept`: a batch of unknown outcome is kept whatever later attempts are
  answered. `IssuesOnce`: the panel implements `IssueOnce`. `BusyReleased`
  (liveness).
- `ManagerRequests`: `OneMutationInFlight` and `NeverBackwards` as of the employee's
  list; `UsableIsReconciled`: a card that can be used is as new as every success its
  list was told of; `ShownTogether`: contexts, cards and catalogue belong together.
- `NothingWithoutAuthority`: what the page shows, and the dialogs over it, go with the
  status and the lock, whatever rendering, toast or frame comes late.
  `ContextNeverBack` (action property): projections do not go back. `SelectionSentOnce`.
  `LeavesLoading`, `WaitingEnds` (liveness): the view for signing in offers controls
  again, and no document stays empty.
- `AppliedAsValidated`: receipt, file, type and the latest validation belong together,
  and a receipt is sent once. `PresentationKeepsUp`, `WrittenWhereOpen` (action
  properties): the presentation does not go back and shows what was reported as saved;
  a rendering that was left sends no save.

### Fairness

- `RequestWorkflow`: weak fairness of `Settle(e)`, the receipt or failure of each
  call. `core/api-client.js` sets no time limit on these calls; that they settle
  at all is an assumption on browser and network (a fetch ends with an answer or
  an error). The backend and the user owe nothing.
- `RequestList`: weak fairness of `Answer(m)`, the settling of a mutation and the
  reactions to it; none of reads, of which the liveness property does not need
  any.
- `PlatformInvitations`: weak fairness of `React` (promise reactions run) and of the
  progress of each call: its turn in the queue, the settling of a fetch (bounded
  by the adapter's time limit of 150 s), and the confirmation, which has a
  deadline of 115 s in the Microsoft dialog and of the browser's for a passkey. The
  session refresh has no time limit and settles as its fetch does.
- `CustomerSession`: weak fairness of the start of a document, of the answers to the
  welcome page, and of the answers to the view for signing in. Each of them may be a
  failure, also what `app.js` asks for between the projections and the first view, which
  it then does without: `app.js`, the context and the transport of the authentication give up a call
  after a time limit. The backend owes no answer, and the user does nothing.

## 4. Findings

1. `RequestWorkflowRefused` violates `OneKeyPerDraft`. The result of
   `saveWorkflow()` is ignored (`server-request-workflow.js:18`); when the first edit
   is one the store refuses, the key is recorded nowhere, and a later editor
   starts a second workflow. `docs/PRODUCTION-PERSISTENCE-CONTRACT.md:27`:
   "Repeated starts use the same key".
2. `RequestListStale` violates `InteractiveIsReconciled`. The refresh after a
   mutation must not leave old cards usable, a user's refresh may; when the
   latter supersedes the former and fails, the cards of before the mutation
   become usable again (`production-application.js:2255`).
   `docs/UI-RESTORE-PARITY.md:211`: "Remove stale authority-bearing UI".
3. `TenantInvitations` violates `NoSecondCommand`. A refused retry drops a command
   whose first attempt was executed, and the form, still filled, issues the same
   invitations under a second command (`invitations-controller.js:26`).
   `docs/CUSTOMER-INVITATION-ADMINISTRATION.md:31`: "keeps one immutable in-memory
   command ID/body if its response is uncertain". The platform's controller handles
   the case, and `UnknownIsKept` and `IssuesOnce` hold of it.

## 5. Theorems

Proved with TLAPS for all values of the constants, from the assumptions named in
the modules (sentinels are not members, bounds are naturals).

`RequestWorkflow_proofs`: `TypeCorrect`; `FinishedEditorsAreTerminal`. "Finished"
is written when an answer arrives, so the invariant must speak of answers: the
reply to an accepted write names a key in a terminal state (`SettledReply`),
requests and replies carry the key of the editor that sent them (`WireKeys`,
`ReplyKeys`), terminal states are never left, and editors not yet opened have no
reference (`UnbornClean`).

`DraftKeepsItsKey`, `DraftIsCurrent`, by `DraftInv`: besides the two properties, an
editor not yet opened has a blank form, an empty store has nothing in the cache
(`EmptyIsCleared`), and while an editor is open the draft found in the store is its
session's own and the cache agrees with it (`PresentLoaded`); without the last, a draft
of an earlier session could be completed with the key of this one.
`LateStartsKeepTheDraft` follows from types alone: `saveWorkflow()` changes a draft only
if the key it expects is the draft's.

`DraftsHaveOneKey`, `ReloadsResumeTheKey`, `DraftsEndWithTheirWorkflow` are proved for
`Refused = {}`, a store that refuses no content. The hypothesis is needed: where the
store refuses some, finding 1 violates the first, and TLC finds the other two violated in
the same way. `KeyInv`: the keys handed out for the draft are the one stored with it
(`KeysOfDraft`) and the one its editor has (`KeysOfEditor`), at most one (`AtMostOne`),
and a session with an empty store has an untouched form (`Untouched`), so that no key is
handed out which is stored nowhere.

`RequestList_proofs`: `TypeCorrect`, `OneMutationAtATime`, `OutcomesReportedOnce`,
`ReservationsAreLive`, `CardsNeverGoBack`. The invariant ties mutations on the wire
to the reservation of their Request (`Reserved`), reservations to live mutations
(`EntryOwned`), cards to the reactions attached when they were made (`Followed`),
announcements to reconciled mutations (`Announced`), and snapshots to what the
backend has seen, with one read per generation (`ReadsOK`), without which a stale
read could pass for the current one.

`OnlyARefreshRestoresOldCards`: `InteractiveIsReconciled`, which finding 2 violates, holds
of every behaviour without a `RefreshOverReconciling`, the user's refresh while the list
is read for a mutation that was reconciled. `NewInv`: the snapshot of the present read,
and the cards unless they wait for such a read, are as new as what was told, but for a
cancel whose reaction is due; and usable controls wait for no read. TLC found no
counterexample to it on the instance of `RequestList` either.

`PlatformInvitations_proofs`, for the client: `OutcomesAreTrue`, `CallsRunOnce`,
`ChallengesAreKept`, under the panel and any number of other calls, for every limit
of the queue. `CallOK` says what phase, answer and result of one call imply about
its executions; `InTurn` that numbers are given in order and that the call under way
is the first of the queue, so that two calls are never under way at once. `Local`
reduces every step to the one call it changes.

For the panel: `TypeCorrect`, `UnknownsAreKept`. Only the call awaited carries a
command and waits (`CarriersOK`), it carries the command kept, and a first attempt
is the only call of its command (`SubmitOK`): so what its refusal says of the
command is true, while the refusal of a retry is not believed. A kept command was
made from the draft in the form, which is closed (`PendingOK`), and no other
command of that draft was executed or may yet be (`DraftIsFree`). Drafts have the
order of commands (`DraftsOK`), without which their type could not be bounded.

`PlatformInvitations_refinement`: `PanelIssuesOnce`, the refinement of `IssueOnce`,
by the same invariant; every step changes the calls of one command at most.
`IssueOnce` proves of itself `ExecutedOnce`; with the refinement this gives
`DraftsExecutedOnce`, that no draft is executed under two commands.

`TenantAdministration_proofs`: `AdminTypesKept`, `AppliedAsItWasValidated`,
`PresentationNeverBack`, `NothingWrittenWhereLeft`, by an invariant of each part and the
fact that a panel is there exactly where the rendering has one. The panel's: what is
validated is of the latest generation (`Latest`) and what a validation on its way was
answered is what its receipt was issued for (`Matching`); a receipt that may still be
sent was not sent before and is nobody else's (`Fresh`). The settings': a rendering has
at most one save on its way (`OnePerSurface`), without which the form could be given
back twice; and the presentation shows at least what was reported, and what a save that
waits for its refresh brought (`Shown`).

`ManagerRequests_proofs`: `TypeCorrect`; `MutationsDoNotOverlap`, since a mutation
holds the reservation of its Request from its preparation to its answer (`Owned`);
`CardsNeverGoBack` and `ContextsGoWithTheirCards`, by `ViewInv`: the generation has one
read, cards and catalogue of a read are of the list it shows together with their
contexts, cards are of the past, and the cards of the present read are no older than
those shown. `UsableCardsAreReconciled` needs most. The list is told of a success and
asked for anew in one step, so that an unfinished read of the present generation read
after what was told (`NewerTold`), and what was told is of the past (`TellsPast`). A
dialog and a mutation were begun on a card with controls (`Dialogs`, `PreparedOn`); the
card of a mutation that reserves its Request has none (`ReservedClosed`), and a card
older than what was told has none either (`Reconciled`).

`CustomerSession_proofs`: `TabTypeCorrect`; `NothingStaysWithoutAuthority`. The lock and
a failure of authority both take the next revision, so a rendering of the present
revision was begun with authority that still holds (`RendersTrusted`), and no rendering
begins, and no lock is installed, before the first view (`StartsAlone`). `ContextStaysNew`: a refresh
has one rendering (`RefreshesOnce`), versions are of the past, and what the present
refresh was answered is no older than the context (`NewerRead`). `SelectionsAreSentOnce`:
where the view may send its selection, the current transaction's has not been sent
(`MaySelect`); a transaction whose selection was sent is not unused (`Begun`), and the
one of a new challenge was (`NewChallenge`).

Every safety and action property of a passing run is stated by one of these theorems.
Only model-checked are the liveness properties `LockReleased`, `OutcomeReported`,
`BusyReleased`, `LeavesLoading` and `WaitingEnds` (fairness and ENABLED are out of the
prover's reach), and the three properties of section 4, which do not hold; of two of
these it is proved under which condition they do.

## 6. Not modelled

- Wire contracts, API clients, metrics, texts and user interface primitives, more than
  half of the code: they check and translate what passes through, without a state that
  a step could break. The models have their outcome, an answer or an error.
- The persistence client's pages: a list is one snapshot in the models. The code
  requires order, distinct Requests and distinct cursors of the pages, and fails else.
- Manager business settings, catering, and the sections with several forms: forms over
  revisions like the ones of `TenantSettings`; what is special to them is validation.
- The platform console's rendering, its lifecycle clients and the operator's session;
  the account and handoff controllers; the availability check and resubmission of the
  employee's form; dialogs for reasons, history and printing.
- The inactivity timer and the messages between tabs: the lock may happen at any time.
- The demonstration's runtimes, which stand in for the backend.

## 7. Plan

What is left to prove: an abstract specification of a list whose mutations are
coordinated, implemented by `RequestList` and by `ManagerRequests`, would say once what
both promise; and the condition under which `NoSecondCommand` of finding 3 holds.

The hazards in `PROJECT.json` that no property covers say why.
