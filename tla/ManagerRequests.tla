---------------------------- MODULE ManagerRequests ----------------------------
(***************************************************************************)
(* The operational view of the Conference Manager: every Request of the      *)
(* tenant on a card, with its transitions, the decision on a booking change  *)
(* and the proposal of one.  A list is put together from a catalogue, a      *)
(* listing and one lookup per card, each answered at a time of its own.       *)
(*                                                                           *)
(* manager/production-application.js, renderManager() and the coordinator     *)
(* requestMutations that manager/workspace-application.js keeps for all the   *)
(* views opened in turn; shared/booking-change-loader.js and                  *)
(* shared/request-room-context-loader.js for the lookups.                     *)
(*                                                                           *)
(* Unlike the employee's coordinator, this one forgets a mutation as soon as  *)
(* its promise settles.  The reactions to a settled promise run before the    *)
(* next event, so that a settlement and all of them are one step.             *)
(***************************************************************************)
EXTENDS Integers, FiniteSets

CONSTANTS
  Requests,
  Mutations,     \* reservations of the coordinator, each with its tracked object
  MaxOpen,       \* bound: the view is opened, or a Request focused, only after
                 \* fewer refreshes
  MaxRefresh,    \* bound: refreshes the user may ask for by button
  MaxElsewhere,  \* bound: others change a Request or the locations only below it
  NoMutation, NoList, NoAnswer

ASSUME BoundsAssumption == {MaxOpen, MaxRefresh, MaxElsewhere} \subseteq Nat
ASSUME NoMutationAssumption == NoMutation \notin Mutations
ASSUME NoAnswerAssumption == NoAnswer \notin Nat

VARIABLES
  session,     \* "open"; "locked" by inactivity; "ended" by an authority failure
  connected,   \* a surface of the view is shown
  generation,  \* refreshGeneration
  interactive, \* interactiveProjectionGeneration is the committed one, not 0
  list,        \* the projection on the page, NoList unless hasCommittedProjection
  closed,      \* Requests whose controls on it are disabled
  reads,       \* refreshes on their way
  entry,       \* requestMutations: Request -> the mutation it is reserved for
  mut,         \* the mutations
  version, change, locations,  \* backend: versions, open booking changes, revision
  told         \* history: the newest version named to a list that is shown

viewVars    == <<connected, generation, interactive, list, closed, reads>>
backendVars == <<version, change, locations>>
vars        == <<session, viewVars, entry, mut, backendVars, told>>

-----------------------------------------------------------------------------

Versions == [Requests -> Nat]

\* What a lookup of the room context answers: the Request and the revision it is of
RoomContext == [version : Nat, locations : Nat]

\* A card's booking change: looked up and found open, found not to be, or unknown
Offers == {"open", "none", "unknown"}

Read == [generation : Nat, focus : BOOLEAN, catalog : Nat \cup {NoAnswer},
         cards : Versions \cup {NoAnswer}, looking : BOOLEAN,
         offers : [Requests -> Offers],
         contexts : [Requests -> RoomContext \cup {NoAnswer}]]

List == [catalog : Nat, cards : Versions, visible : SUBSET Requests,
         offers : [Requests -> Offers],
         contexts : [Requests -> RoomContext \cup {NoAnswer}]]

ASSUME NoListAssumption == NoList \notin List

Wire == {"posted", "accepted", "refused"}

Mutation == [req : Requests, kind : {"transition", "decision", "proposal"},
             phase : {"unborn", "first", "second", "dialog", "over"} \cup Wire,
             expected : Nat,      \* version of the card it was started from
             started : Nat,       \* refreshGeneration when its preparation began
             own : BOOLEAN,       \* the surface it was started from is the one shown
             followed : BOOLEAN,  \* a list of the shown surface drawn since shows its card
             catalog : Nat \cup {NoAnswer}, context : RoomContext \cup {NoAnswer},
             result : Nat]        \* version named by its answer

Unborn(r, k) == [req |-> r, kind |-> k, phase |-> "unborn", expected |-> 0, started |-> 0,
                 own |-> FALSE, followed |-> FALSE, catalog |-> NoAnswer,
                 context |-> NoAnswer, result |-> 0]

Over(m) == [Unborn(mut[m].req, mut[m].kind) EXCEPT !.phase = "over"]

Active == connected /\ session = "open"   \* isActiveSurface()

IsCurrent(x) == Active /\ x.generation = generation

\* coherentRequestRoomContext(): the same Request, and the revision of the catalogue
Coherent(context, v, catalog) ==
  context # NoAnswer /\ context.version = v /\ context.locations = catalog

\* A modal dialog covers the page.  (Those of transitions and decisions are not
\* told apart from a control that acts at once.)
Modal == \E m \in Mutations :
           mut[m].kind = "proposal" /\ mut[m].phase \in {"dialog"} \cup Wire

Init ==
  /\ session = "open"
  /\ connected = FALSE
  /\ generation = 0
  /\ interactive = FALSE
  /\ list = NoList
  /\ closed = {}
  /\ reads = {}
  /\ entry = [r \in Requests |-> NoMutation]
  /\ mut \in [Mutations -> {Unborn(r, k) :
                              r \in Requests, k \in {"transition", "decision", "proposal"}}]
  /\ version = [r \in Requests |-> 0]
  /\ change \in [Requests -> BOOLEAN]
  /\ locations = 0
  /\ told = version

-----------------------------------------------------------------------------
(* The view *)

\* The read a refresh begins
NewRead(focus) ==
  [generation |-> generation + 1, focus |-> focus, catalog |-> NoAnswer, cards |-> NoAnswer,
   looking |-> FALSE, offers |-> [r \in Requests |-> "unknown"],
   contexts |-> [r \in Requests |-> NoAnswer]]

\* Reads that are superseded: those that have begun their lookups go on with them, the
\* others end with their first answers
Superseded == {x \in reads : x.looking}

\* refresh(focusRequestId) of the shown surface
Refresh(focus) ==
  /\ generation' = generation + 1
  /\ interactive' = FALSE
  /\ reads' = Superseded \cup {NewRead(focus)}
  /\ UNCHANGED <<connected, list>>

\* Mutant: every surface has a coordinator of its own
OpenUncoordinated ==
  /\ ~connected /\ generation < MaxOpen
  /\ connected' = TRUE
  /\ generation' = generation + 1
  /\ reads' = Superseded \cup {NewRead(FALSE)}
  /\ entry' = [r \in Requests |-> NoMutation]
  /\ UNCHANGED <<session, interactive, list, closed, mut, backendVars, told>>

\* renderManager()
Open ==
  /\ ~connected /\ generation < MaxOpen
  /\ connected' = TRUE
  /\ generation' = generation + 1
  /\ reads' = Superseded \cup {NewRead(FALSE)}
  /\ UNCHANGED <<session, interactive, list, closed, entry, mut, backendVars, told>>

\* Another view is rendered.  Reads and mutations go on; what reacts to them for this
\* surface finds it gone
Leave ==
  /\ connected
  /\ connected' = FALSE
  /\ interactive' = FALSE
  /\ list' = NoList
  /\ closed' = {}
  /\ mut' = [m \in Mutations |-> [mut[m] EXCEPT !.own = FALSE, !.followed = FALSE]]
  /\ reads' = Superseded
  /\ UNCHANGED <<session, generation, entry, backendVars, told>>

\* The refresh button, a tab or a filter; or a Request is opened from the summary or
\* the room plan, which focuses its card
ClickRefresh ==
  /\ Active /\ list # NoList /\ ~Modal /\ generation < MaxRefresh
  /\ \E focus \in BOOLEAN : (focus => generation < MaxOpen) /\ Refresh(focus)
  /\ UNCHANGED <<session, closed, entry, mut, backendVars, told>>

\* Nothing is shown and no surface is active from here on: what is answered later
\* changes nothing any more
Close(s) ==
  /\ session' = s
  /\ connected' = FALSE
  /\ interactive' = FALSE
  /\ list' = NoList
  /\ closed' = {}
  /\ reads' = {}
  /\ mut' = [m \in Mutations |-> Over(m)]
  /\ UNCHANGED <<generation, backendVars, told>>

\* The inactivity lock clears the page and closes its dialogs
Lock == Close("locked") /\ UNCHANGED entry

\* Some call is answered 401 or 403: invalidateAuthorityProjection(), of a surface
\* that was left as well, and the shell's
EndSession ==
  /\ \/ reads # {}
     \/ \E m \in Mutations : mut[m].phase \in {"first", "second"} \cup Wire
  /\ Close("ended")
  /\ entry' = [r \in Requests |-> NoMutation]

-----------------------------------------------------------------------------
(* Reads *)

\* (What a superseded read is answered makes no difference.)
Becomes(x, y) ==
  /\ IsCurrent(x)
  /\ reads' = (reads \ {x}) \cup {y}
  /\ UNCHANGED <<session, connected, generation, interactive, list, closed,
                 entry, mut, backendVars, told>>

\* The backend answers loadCatalog() and listRequests(), in any order
ServeCatalog(x) == x.catalog = NoAnswer /\ Becomes(x, [x EXCEPT !.catalog = locations])

ServeList(x) == x.cards = NoAnswer /\ Becomes(x, [x EXCEPT !.cards = version])

\* Both arrived, at a surface that still waits for them: open changes and room
\* contexts are looked up
StartLookups(x) ==
  /\ x.catalog # NoAnswer /\ x.cards # NoAnswer /\ ~x.looking
  /\ Becomes(x, [x EXCEPT !.looking = TRUE])

\* loadBookingChange() is answered: an answer about another version of the Request
\* is an error, and the change stays unknown
LookupChange(x, r) ==
  /\ x.looking /\ x.offers[r] = "unknown" /\ version[r] = x.cards[r]
  /\ Becomes(x, [x EXCEPT !.offers[r] = IF change[r] THEN "open" ELSE "none"])

\* Mutant: the context is taken as it comes
LookupContextUnchecked(x, r) ==
  /\ x.looking /\ x.contexts[r] = NoAnswer
  /\ Becomes(x, [x EXCEPT !.contexts[r] = [version |-> version[r], locations |-> locations]])

\* loadRequestRoomContext() is answered, for a room the catalogue does not show
LookupContext(x, r) ==
  /\ x.looking /\ x.contexts[r] = NoAnswer
  /\ LET context == [version |-> version[r], locations |-> locations] IN
     /\ Coherent(context, x.cards[r], x.catalog)
     /\ Becomes(x, [x EXCEPT !.contexts[r] = context])

\* The reactions of new cards to the mutations their Requests are reserved for
Followed(visible) ==
  [m \in Mutations |->
     IF mut[m].req \in visible /\ entry[mut[m].req] = m
     THEN [mut[m] EXCEPT !.followed = TRUE] ELSE mut[m]]

Reserved == {r \in Requests : entry[r] # NoMutation}

Drawn(x, visible) == [catalog |-> x.catalog, cards |-> x.cards, visible |-> visible,
                      offers |-> x.offers, contexts |-> x.contexts]

\* Mutant: a read that was superseded is shown all the same
DrawLate(x, visible) ==
  /\ x.looking
  /\ reads' = reads \ {x}
  /\ IF Active
     THEN /\ interactive' = TRUE
          /\ list' = Drawn(x, visible)
          /\ closed' = Reserved
          /\ mut' = Followed(visible)
     ELSE UNCHANGED <<interactive, list, closed, mut>>
  /\ UNCHANGED <<session, connected, generation, entry, backendVars, told>>

\* The lookups are over, those unanswered by the time limit: the cards of the open tab
\* that pass the filters are shown, the reserved ones closed
Draw(x, visible) ==
  /\ x.looking
  /\ reads' = reads \ {x}
  /\ IF IsCurrent(x)
     THEN /\ interactive' = TRUE
          /\ list' = Drawn(x, visible)
          /\ closed' = Reserved
          /\ mut' = Followed(visible)
     ELSE UNCHANGED <<interactive, list, closed, mut>>
  /\ UNCHANGED <<session, connected, generation, entry, backendVars, told>>

\* A read that was superseded, or whose surface was left, is answered
DropRead(x) ==
  /\ ~IsCurrent(x)
  /\ reads' = reads \ {x}
  /\ UNCHANGED <<session, connected, generation, interactive, list, closed,
                 entry, mut, backendVars, told>>

\* Mutant: the error replaces the cards, the projection still counts as interactive
FailReadUnreset(x) ==
  /\ IsCurrent(x)
  /\ reads' = reads \ {x}
  /\ interactive' = TRUE
  /\ IF list # NoList /\ ~x.focus THEN UNCHANGED <<list, closed>>
     ELSE list' = NoList /\ closed' = {}
  /\ UNCHANGED <<session, connected, generation, entry, mut, backendVars, told>>

\* A refresh fails without an authority failure: one the user asked for gives the
\* cards back as they were left, one that follows a mutation removes them
FailRead(x) ==
  /\ IsCurrent(x)
  /\ reads' = reads \ {x}
  /\ IF list # NoList /\ ~x.focus
     THEN interactive' = TRUE /\ UNCHANGED <<list, closed>>
     ELSE interactive' = FALSE /\ list' = NoList /\ closed' = {}
  /\ UNCHANGED <<session, connected, generation, entry, mut, backendVars, told>>

-----------------------------------------------------------------------------
(* Mutations *)

\* isCurrentArticle(), of a card of the list that is shown, its controls enabled
Usable(r) == Active /\ interactive /\ r \in list.visible \ closed

\* beginMutation() reserves the Request of m, and the controls of its card close
Begin(m, record) ==
  /\ entry' = [entry EXCEPT ![mut[m].req] = m]
  /\ mut' = [mut EXCEPT ![m] = record]
  /\ closed' = closed \cup {mut[m].req}
  /\ UNCHANGED <<session, connected, generation, interactive, list, reads, backendVars, told>>

Started(m) == [mut[m] EXCEPT !.own = TRUE, !.expected = list.cards[mut[m].req]]

\* A transition carries the version on the card, a decision the change on it
Act(m) ==
  LET r == mut[m].req IN
  /\ Usable(r) /\ ~Modal /\ mut[m].phase = "unborn" /\ entry[r] = NoMutation
  /\ \/ mut[m].kind = "transition"
     \/ mut[m].kind = "decision" /\ list.offers[r] = "open"
  /\ Begin(m, [Started(m) EXCEPT !.phase = "posted"])

\* A proposal is possible where the lookup found no open change.  It is prepared first:
\* loadCoherentRequestRoomContext(), with the catalogue of the list
Prepare(m) ==
  LET r == mut[m].req IN
  /\ Usable(r) /\ ~Modal /\ mut[m].phase = "unborn" /\ entry[r] = NoMutation
  /\ mut[m].kind = "proposal" /\ list.offers[r] = "none"
  /\ Begin(m, [Started(m) EXCEPT !.phase = "first", !.started = generation, !.catalog = list.catalog])

\* The answers of a preparation: room context, and in the second attempt the catalogue
ServeContext(m) ==
  /\ mut[m].phase \in {"first", "second"} /\ mut[m].context = NoAnswer
  /\ mut' = [mut EXCEPT ![m].context = [version |-> version[mut[m].req],
                                        locations |-> locations]]
  /\ UNCHANGED <<session, viewVars, entry, backendVars, told>>

ServeCatalogAgain(m) ==
  /\ mut[m].phase = "second" /\ mut[m].catalog = NoAnswer
  /\ mut' = [mut EXCEPT ![m].catalog = locations]
  /\ UNCHANGED <<session, viewVars, entry, backendVars, told>>

IsCoherent(m) == Coherent(mut[m].context, mut[m].expected, mut[m].catalog)

\* The first context does not go with the catalogue of the list: both are loaded once more
PrepareAgain(m) ==
  /\ mut[m].phase = "first" /\ mut[m].context # NoAnswer /\ ~IsCoherent(m)
  /\ mut' = [mut EXCEPT ![m].phase = "second", ![m].context = NoAnswer,
                        ![m].catalog = NoAnswer]
  /\ UNCHANGED <<session, viewVars, entry, backendVars, told>>

Released(m) == [entry EXCEPT ![mut[m].req] = IF @ = m THEN NoMutation ELSE @]

\* A card of the shown surface reacts to m: the one it was started from, or a later one
Follows(m) == Active /\ (mut[m].own \/ mut[m].followed)

RefreshIf(condition) ==
  IF condition THEN Refresh(TRUE)
  ELSE UNCHANGED <<connected, generation, interactive, list, reads>>

\* isCurrentInteraction(): the list is the one m was started from, and not being read anew
IsCurrentInteraction(m) ==
  Active /\ interactive /\ mut[m].own /\ mut[m].started = generation

\* The preparation succeeds: the dialog opens on the list it was started from
OpenDialog(m) ==
  /\ mut[m].phase \in {"first", "second"} /\ IsCoherent(m) /\ IsCurrentInteraction(m)
  /\ entry' = Released(m)
  /\ mut' = [mut EXCEPT ![m].phase = "dialog"]
  /\ closed' = closed \ {mut[m].req}
  /\ UNCHANGED <<session, connected, generation, interactive, list, reads, backendVars, told>>

\* It comes back to another list: the controls of the card it left open again, those of
\* a later card have the list read again
MissDialog(m) ==
  /\ mut[m].phase \in {"first", "second"} /\ IsCoherent(m) /\ ~IsCurrentInteraction(m)
  /\ entry' = Released(m)
  /\ mut' = [mut EXCEPT ![m] = Over(m)]
  /\ closed' = IF Active /\ ~mut[m].followed THEN closed \ {mut[m].req} ELSE closed
  /\ RefreshIf(Active /\ mut[m].followed)
  /\ UNCHANGED <<session, backendVars, told>>

\* The second answer does not match either: the list is read again
GiveUpPreparation(m) ==
  /\ mut[m].phase = "second" /\ NoAnswer \notin {mut[m].context, mut[m].catalog}
  /\ ~IsCoherent(m)
  /\ entry' = Released(m)
  /\ mut' = [mut EXCEPT ![m] = Over(m)]
  /\ closed' = IF Active /\ ~mut[m].followed /\ ~IsCurrentInteraction(m)
               THEN closed \ {mut[m].req} ELSE closed
  /\ RefreshIf(IsCurrentInteraction(m) \/ (Active /\ mut[m].followed))
  /\ UNCHANGED <<session, backendVars, told>>

\* It fails, or takes longer than its time limit
FailPreparation(m) ==
  /\ mut[m].phase \in {"first", "second"}
  /\ entry' = Released(m)
  /\ mut' = [mut EXCEPT ![m] = Over(m)]
  /\ closed' = IF Active THEN closed \ {mut[m].req} ELSE closed
  /\ UNCHANGED <<session, connected, generation, interactive, list, reads, backendVars, told>>

\* The dialog is submitted.  (On another list it only shows an error.  beginMutation()
\* compares no generation, but beneath a dialog no refresh gives its cards back.)
Propose(m) ==
  /\ mut[m].phase = "dialog" /\ IsCurrentInteraction(m) /\ entry[mut[m].req] = NoMutation
  /\ Begin(m, [mut[m] EXCEPT !.phase = "posted", !.followed = FALSE])

Dismiss(m) ==
  /\ mut[m].phase = "dialog"
  /\ mut' = [mut EXCEPT ![m] = Over(m)]
  /\ UNCHANGED <<session, viewVars, entry, backendVars, told>>

-----------------------------------------------------------------------------
(* The backend *)

Answered(m, phase, r) ==
  mut' = [mut EXCEPT ![m].phase = phase, ![m].result = version'[r]]

\* If-Match for a transition, expectedVersion for a proposal; a decision names its change
Accept(m) ==
  LET r == mut[m].req IN
  /\ mut[m].phase = "posted"
  /\ \/ /\ mut[m].kind = "transition" /\ version[r] = mut[m].expected
        /\ version' = [version EXCEPT ![r] = @ + 1]
        /\ UNCHANGED change
     \/ /\ mut[m].kind = "proposal" /\ version[r] = mut[m].expected /\ ~change[r]
        /\ \/ change' = [change EXCEPT ![r] = TRUE] /\ UNCHANGED version
           \/ version' = [version EXCEPT ![r] = @ + 1] /\ UNCHANGED change
     \/ /\ mut[m].kind = "decision" /\ change[r]
        /\ \/ UNCHANGED <<version, change>>      \* blocked
           \/ change' = [change EXCEPT ![r] = FALSE] /\ UNCHANGED version
           \/ /\ change' = [change EXCEPT ![r] = FALSE]
              /\ version' = [version EXCEPT ![r] = @ + 1]
  /\ Answered(m, "accepted", r)
  /\ UNCHANGED <<session, viewVars, entry, locations, told>>

Refuse(m) ==
  /\ mut[m].phase = "posted"
  /\ IF mut[m].kind = "decision" THEN ~change[mut[m].req]
     ELSE version[mut[m].req] # mut[m].expected
  /\ mut' = [mut EXCEPT ![m].phase = "refused"]
  /\ UNCHANGED <<session, viewVars, entry, backendVars, told>>

\* The employee, another manager or the location administrator
Elsewhere(r) ==
  /\ version[r] + locations < MaxElsewhere
  /\ version' = [version EXCEPT ![r] = @ + 1]
  /\ \E open \in BOOLEAN : change' = [change EXCEPT ![r] = open]
  /\ UNCHANGED <<session, viewVars, entry, mut, locations, told>>

Relocate ==
  /\ \A r \in Requests : version[r] + locations < MaxElsewhere
  /\ locations' = locations + 1
  /\ UNCHANGED <<session, viewVars, entry, mut, version, change, told>>

-----------------------------------------------------------------------------
(* Settlements *)

\* The list that is shown learns the version the answer names
Tell(m) == told' = IF Follows(m) THEN [told EXCEPT ![mut[m].req] = mut[m].result] ELSE told

\* Mutant: the controls open again whatever the outcome
SucceedReopened(m) ==
  /\ mut[m].kind # "proposal" /\ mut[m].phase = "accepted"
  /\ entry' = Released(m)
  /\ mut' = [mut EXCEPT ![m] = Over(m)]
  /\ closed' = closed \ {mut[m].req}
  /\ RefreshIf(Follows(m))
  /\ Tell(m)
  /\ UNCHANGED <<session, backendVars>>

\* A transition or decision is accepted: the outcome is shown and the list read again,
\* once, by the card it was started from or by a later one
Succeed(m) ==
  /\ mut[m].kind # "proposal" /\ mut[m].phase = "accepted"
  /\ entry' = Released(m)
  /\ mut' = [mut EXCEPT ![m] = Over(m)]
  /\ RefreshIf(Follows(m))
  /\ Tell(m)
  /\ UNCHANGED <<session, closed, backendVars>>

\* Refused, or its answer was lost: the controls open again
Fail(m) ==
  /\ mut[m].kind # "proposal" /\ mut[m].phase \in Wire
  /\ entry' = Released(m)
  /\ mut' = [mut EXCEPT ![m] = Over(m)]
  /\ closed' = IF Active THEN closed \ {mut[m].req} ELSE closed
  /\ UNCHANGED <<session, connected, generation, interactive, list, reads, backendVars, told>>

\* The dialog closes and announces its outcome, whatever is shown beneath; its refresh
\* and that of a later card are one after the other, the later one counts
ProposalSucceeds(m) ==
  /\ mut[m].kind = "proposal" /\ mut[m].phase = "accepted"
  /\ entry' = Released(m)
  /\ mut' = [mut EXCEPT ![m] = Over(m)]
  /\ RefreshIf(Follows(m))
  /\ Tell(m)
  /\ UNCHANGED <<session, closed, backendVars>>

\* The dialog may be submitted again
ProposalFails(m) ==
  /\ mut[m].kind = "proposal" /\ mut[m].phase \in Wire
  /\ entry' = Released(m)
  /\ mut' = [mut EXCEPT ![m].phase = "dialog", ![m].followed = FALSE, ![m].result = 0]
  /\ closed' = IF Active THEN closed \ {mut[m].req} ELSE closed
  /\ UNCHANGED <<session, connected, generation, interactive, list, reads, backendVars, told>>

-----------------------------------------------------------------------------

ReadStep(x) ==
  \/ ServeCatalog(x) \/ ServeList(x) \/ StartLookups(x)
  \/ \E r \in Requests : LookupChange(x, r) \/ LookupContext(x, r)
  \/ \E visible \in SUBSET Requests : Draw(x, visible)
  \/ DropRead(x) \/ FailRead(x)

PrepareStep(m) ==
  \/ Prepare(m) \/ ServeContext(m) \/ ServeCatalogAgain(m) \/ PrepareAgain(m)
  \/ OpenDialog(m) \/ MissDialog(m) \/ GiveUpPreparation(m) \/ FailPreparation(m)
  \/ Propose(m) \/ Dismiss(m)

WireStep(m) ==
  \/ Act(m) \/ Accept(m) \/ Refuse(m)
  \/ Succeed(m) \/ Fail(m) \/ ProposalSucceeds(m) \/ ProposalFails(m)

Next ==
  /\ session = "open"
  /\ \/ Open \/ Leave \/ ClickRefresh \/ Lock \/ EndSession \/ Relocate
     \/ \E x \in reads : ReadStep(x)
     \/ \E m \in Mutations : PrepareStep(m) \/ WireStep(m)
     \/ \E r \in Requests : Elsewhere(r)

Spec == Init /\ [][Next]_vars

-----------------------------------------------------------------------------
(* Properties *)

\* Every variable keeps its type; a reservation is for the Request of its mutation, and
\* only a projection that is committed is interactive.
TypeOK ==
  /\ session \in {"open", "locked", "ended"}
  /\ connected \in BOOLEAN
  /\ generation \in Nat
  /\ interactive \in BOOLEAN
  /\ list \in List \cup {NoList}
  /\ interactive => list # NoList
  /\ closed \subseteq Requests
  /\ reads \subseteq Read
  /\ \A x \in reads : x.looking => x.catalog # NoAnswer /\ x.cards # NoAnswer
  /\ entry \in [Requests -> Mutations \cup {NoMutation}]
  /\ \A r \in Requests : entry[r] # NoMutation => mut[entry[r]].req = r
  /\ mut \in [Mutations -> Mutation]
  /\ version \in Versions /\ change \in [Requests -> BOOLEAN] /\ locations \in Nat
  /\ told \in Versions

\* The tab never has two mutations of one Request on the wire, whatever views were
\* opened and left meanwhile: the coordinator outlives the surfaces.
OneMutationInFlight ==
  \A m, n \in Mutations :
    mut[m].phase \in Wire /\ mut[n].phase \in Wire /\ mut[m].req = mut[n].req => m = n

\* A card with usable controls is at least as new as every mutation whose success the
\* shown list was told of, also where a refresh that failed gave the cards back.  (One
\* that settles while no list follows it is forgotten, and a list read before may show
\* the version it replaced.)
UsableIsReconciled ==
  \A r \in Requests : Usable(r) => told[r] <= list.cards[r]

\* What is shown together was true together: the room context of a card or of a proposal
\* is of the version on the card and of the catalogue it is shown with ("an unresolved
\* mismatch leaves the change action unavailable", PRODUCTION-SECURITY.md).
ShownTogether ==
  /\ list # NoList => \A r \in Requests :
       list.contexts[r] # NoAnswer => Coherent(list.contexts[r], list.cards[r], list.catalog)
  /\ \A m \in Mutations : mut[m].kind = "proposal" /\ mut[m].phase \in {"dialog"} \cup Wire
       => IsCoherent(m)

\* While the view stays, its cards never go back to an older version of a Request.
NeverBackwards ==
  [][ list # NoList /\ list' # NoList =>
        \A r \in Requests : list.cards[r] <= list'.cards[r] ]_vars
=============================================================================
