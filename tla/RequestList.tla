----------------------------- MODULE RequestList -----------------------------
(***************************************************************************)
(* The Requests view of the employee: a list read from the backend, refreshed *)
(* while older reads are still on their way, and the mutations started from   *)
(* its cards, cancel and change proposal, which outlive the view.             *)
(*                                                                            *)
(* employee/production-application.js, renderRequests() and the coordinator   *)
(* requestMutations of the application around it.  Every renderRequests()     *)
(* makes a surface with a refreshGeneration of its own; a surface that was    *)
(* left never comes back, so one counter serves for all of them and a read is *)
(* current when it carries the last number and the view is shown.             *)
(*                                                                            *)
(* A promise that settles runs its reactions before the next event: Quiet     *)
(* holds when none is due, and no other step is taken before.                 *)
(***************************************************************************)
EXTENDS Integers, FiniteSets

CONSTANTS
  Requests,
  Mutations,   \* reservations of the coordinator, each with its tracked object
  MaxRefresh,  \* bound: refreshes the user may ask for, by opening the view or by button
  NoMutation, NoCards

ASSUME MaxRefreshAssumption == MaxRefresh \in Nat
ASSUME NoMutationAssumption == NoMutation \notin Mutations
ASSUME NoCardsAssumption == NoCards \notin [Requests -> Nat]

VARIABLES
  session,     \* "open"; "locked" by inactivity; "ended" by an authority failure
  connected,   \* a surface of the Requests view is shown
  generation,  \* refreshGeneration
  committed,   \* hasCommittedProjection
  interactive, \* interactiveProjectionGeneration is the committed one, not 0
  shown,       \* versions of the Requests the cards were made from
  reads,       \* refreshes on their way
  entry,       \* requestMutations: Request -> the reservation it holds
  mut,         \* the reservations
  version,     \* the backend's version of each Request
  told         \* history: the newest version a mutation's answer has named

viewVars == <<connected, generation, committed, interactive, shown, reads>>
vars     == <<session, viewVars, entry, mut, version, told>>

-----------------------------------------------------------------------------

Snapshots == [Requests -> Nat]

Read == [generation : Nat, focus : BOOLEAN, phase : {"sent", "listed", "details"},
         cards : Snapshots \cup {NoCards}]

\* On the wire: sent, or answered by a backend that accepted or refused it
InFlight == {"posted", "accepted", "refused"}
Settled  == {"done", "failed"}

Mutation == [req : Requests, kind : {"cancel", "proposal"}, expected : Nat,
             phase : {"unborn", "preparing", "dialog", "over"} \cup InFlight \cup Settled,
             started : Nat,       \* interactionGeneration
             handlers : Nat,      \* reactions of the shown surface to its promise
             reconciled : BOOLEAN,
             reports : Nat]       \* toasts for its outcome

\* A mutation the user has not asked for yet
Unborn(r, k) == [req |-> r, kind |-> k, expected |-> 0, phase |-> "unborn", started |-> 0,
                 handlers |-> 0, reconciled |-> FALSE, reports |-> 0]

Active == connected /\ session = "open"

IsCurrent(x) == Active /\ x.generation = generation

Quiet == \A m \in Mutations : mut[m].phase \in Settled => mut[m].handlers = 0

Init ==
  /\ session = "open"
  /\ connected = FALSE
  /\ generation = 0
  /\ committed = FALSE
  /\ interactive = FALSE
  /\ shown = NoCards
  /\ reads = {}
  /\ entry = [r \in Requests |-> NoMutation]
  /\ mut \in [Mutations -> {Unborn(r, k) : r \in Requests, k \in {"cancel", "proposal"}}]
  /\ version = [r \in Requests |-> 0]
  /\ told = version

-----------------------------------------------------------------------------
(* The view *)

\* The read a refresh begins
NewRead(focus) == [generation |-> generation + 1, focus |-> focus,
                   phase |-> "sent", cards |-> NoCards]

\* refresh(focusRequestId) of the shown surface
Refresh(focus) ==
  /\ generation' = generation + 1
  /\ interactive' = FALSE
  /\ reads' = reads \cup {NewRead(focus)}
  /\ UNCHANGED <<connected, committed, shown>>

\* activeRequestsRefresh(): the refresh of a surface that is not shown returns at once
RefreshIfActive(focus) == IF Active THEN Refresh(focus) ELSE UNCHANGED viewVars

\* renderRequests()
Open ==
  /\ Quiet /\ ~connected /\ session = "open" /\ generation < MaxRefresh
  /\ connected' = TRUE
  /\ generation' = generation + 1
  /\ reads' = reads \cup {NewRead(FALSE)}
  /\ UNCHANGED <<session, committed, interactive, shown, entry, mut, version, told>>

\* Another view is rendered.  Reads, mutations and dialogs go on; the reactions of
\* this surface will find it gone
Leave ==
  /\ Quiet /\ connected
  /\ connected' = FALSE
  /\ committed' = FALSE
  /\ interactive' = FALSE
  /\ shown' = NoCards
  /\ mut' = [m \in Mutations |-> [mut[m] EXCEPT !.handlers = 0]]
  /\ UNCHANGED <<session, generation, reads, entry, version, told>>

\* The button of a list that is shown, also while a refresh is on its way
ClickRefresh ==
  /\ Quiet /\ Active /\ shown # NoCards /\ generation < MaxRefresh
  /\ Refresh(FALSE)
  /\ UNCHANGED <<session, entry, mut, version, told>>

\* Open dialogs are closed, and a proposal whose dialog closes releases its
\* reservation
HasDialog(m) == mut[m].kind = "proposal" /\ mut[m].phase \in {"dialog"} \cup InFlight

\* The inactivity lock: no surface is active from here on
Lock ==
  /\ Quiet /\ session = "open"
  /\ session' = "locked"
  /\ entry' = [r \in Requests |->
                 IF entry[r] # NoMutation /\ HasDialog(entry[r]) THEN NoMutation
                 ELSE entry[r]]
  /\ UNCHANGED <<viewVars, mut, version, told>>

\* Some call is answered 401 or 403: invalidateAuthorityProjection(), of a surface
\* that was left as well, and the shell's
EndSession ==
  /\ Quiet /\ session = "open"
  /\ \/ reads # {}
     \/ \E m \in Mutations : mut[m].phase \in {"preparing"} \cup InFlight
  /\ session' = "ended"
  /\ connected' = FALSE
  /\ committed' = FALSE
  /\ interactive' = FALSE
  /\ shown' = NoCards
  /\ entry' = [r \in Requests |-> NoMutation]
  /\ UNCHANGED <<generation, reads, mut, version, told>>

-----------------------------------------------------------------------------
(* Reads *)

\* The backend answers listRequests()
ServeList(x) ==
  /\ Quiet /\ x.phase = "sent"
  /\ reads' = (reads \ {x}) \cup {[x EXCEPT !.phase = "listed", !.cards = version]}
  /\ UNCHANGED <<session, connected, generation, committed, interactive, shown,
                 entry, mut, version, told>>

\* Catalogue and list arrived: open changes and room contexts are read next
ReceiveList(x) ==
  /\ Quiet /\ x.phase = "listed"
  /\ reads' = (reads \ {x}) \cup
              (IF IsCurrent(x) THEN {[x EXCEPT !.phase = "details"]} ELSE {})
  /\ UNCHANGED <<session, connected, generation, committed, interactive, shown,
                 entry, mut, version, told>>

\* The cards' reaction to a cancel that is on its way
Attached ==
  [m \in Mutations |->
     IF entry[mut[m].req] = m /\ mut[m].kind = "cancel"
     THEN [mut[m] EXCEPT !.handlers = @ + 1] ELSE mut[m]]

\* Mutant: new cards do not follow the mutations on their way
ReceiveDetailsDetached(x) ==
  /\ Quiet /\ x.phase = "details"
  /\ reads' = reads \ {x}
  /\ IF IsCurrent(x)
     THEN /\ committed' = TRUE
          /\ interactive' = TRUE
          /\ shown' = x.cards
     ELSE UNCHANGED <<committed, interactive, shown>>
  /\ UNCHANGED <<session, connected, generation, entry, mut, version, told>>

\* Mutant: a read that was superseded is shown all the same
ReceiveDetailsLate(x) ==
  /\ Quiet /\ x.phase = "details"
  /\ reads' = reads \ {x}
  /\ IF Active
     THEN /\ committed' = TRUE
          /\ interactive' = TRUE
          /\ shown' = x.cards
          /\ mut' = Attached
     ELSE UNCHANGED <<committed, interactive, shown, mut>>
  /\ UNCHANGED <<session, connected, generation, entry, version, told>>

\* They arrived too: the new cards are shown, and those of Requests that are being
\* cancelled follow the cancellation
ReceiveDetails(x) ==
  /\ Quiet /\ x.phase = "details"
  /\ reads' = reads \ {x}
  /\ IF IsCurrent(x)
     THEN /\ committed' = TRUE
          /\ interactive' = TRUE
          /\ shown' = x.cards
          /\ mut' = Attached
     ELSE UNCHANGED <<committed, interactive, shown, mut>>
  /\ UNCHANGED <<session, connected, generation, entry, version, told>>

\* Mutant: the error replaces the cards, the projection still counts as committed
FailReadUnreset(x) ==
  /\ Quiet
  /\ reads' = reads \ {x}
  /\ IF ~IsCurrent(x) THEN UNCHANGED <<committed, interactive, shown>>
     ELSE IF committed /\ ~x.focus
     THEN interactive' = TRUE /\ UNCHANGED <<committed, shown>>
     ELSE /\ shown' = NoCards
          /\ UNCHANGED <<committed, interactive>>
  /\ UNCHANGED <<session, connected, generation, entry, mut, version, told>>

\* A refresh fails without an authority failure: one the user asked for gives the
\* cards back, one that follows a mutation removes them
FailRead(x) ==
  /\ Quiet
  /\ reads' = reads \ {x}
  /\ IF ~IsCurrent(x) THEN UNCHANGED <<committed, interactive, shown>>
     ELSE IF committed /\ ~x.focus
     THEN interactive' = TRUE /\ UNCHANGED <<committed, shown>>
     ELSE /\ committed' = FALSE
          /\ interactive' = FALSE
          /\ shown' = NoCards
  /\ UNCHANGED <<session, connected, generation, entry, mut, version, told>>

-----------------------------------------------------------------------------
(* Mutations *)

\* A control of the card of m's Request, the Request not being reserved
Clicked(m) ==
  /\ Quiet /\ Active /\ shown # NoCards
  /\ mut[m].phase = "unborn" /\ entry[mut[m].req] = NoMutation

\* Mutant: the pending state is the card's, not the application's
CancelUncoordinated(m) ==
  /\ Quiet /\ Active /\ shown # NoCards /\ mut[m].phase = "unborn"
  /\ mut[m].kind = "cancel"
  /\ entry' = [entry EXCEPT ![mut[m].req] = m]
  /\ mut' = [mut EXCEPT ![m].phase = "posted", ![m].handlers = 1,
                        ![m].expected = shown[mut[m].req]]
  /\ UNCHANGED <<session, viewVars, version, told>>

\* onCancel(), confirmed: the call carries the version the card was made from
Cancel(m) ==
  /\ Clicked(m) /\ mut[m].kind = "cancel"
  /\ entry' = [entry EXCEPT ![mut[m].req] = m]
  /\ mut' = [mut EXCEPT ![m].phase = "posted", ![m].handlers = 1,
                        ![m].expected = shown[mut[m].req]]
  /\ UNCHANGED <<session, viewVars, version, told>>

\* onChange(): the Request is reserved while its room context is prepared
Change(m) ==
  /\ Clicked(m) /\ mut[m].kind = "proposal"
  /\ entry' = [entry EXCEPT ![mut[m].req] = m]
  /\ mut' = [mut EXCEPT ![m].phase = "preparing", ![m].started = generation,
                        ![m].expected = shown[mut[m].req]]
  /\ UNCHANGED <<session, viewVars, version, told>>

\* releaseProposal(): only the reservation that is its own, and the list is read
\* again
ReleaseProposal(m) ==
  IF entry[mut[m].req] = m
  THEN /\ entry' = [entry EXCEPT ![mut[m].req] = NoMutation]
       /\ RefreshIfActive(TRUE)
  ELSE UNCHANGED <<entry, viewVars>>

\* The preparation succeeds and the dialog opens, on the list it was started from
OpenDialog(m) ==
  /\ Quiet /\ mut[m].phase = "preparing"
  /\ Active /\ interactive /\ mut[m].started = generation
  /\ mut' = [mut EXCEPT ![m].phase = "dialog"]
  /\ UNCHANGED <<session, viewVars, entry, version, told>>

\* It fails, finds the Request changed, or comes back to another list
AbortPreparation(m) ==
  /\ Quiet /\ mut[m].phase = "preparing"
  /\ mut' = [mut EXCEPT ![m].phase = "over"]
  /\ ReleaseProposal(m)
  /\ UNCHANGED <<session, version, told>>

\* The dialog is submitted
Propose(m) ==
  /\ Quiet /\ mut[m].phase = "dialog" /\ session = "open"
  /\ mut' = [mut EXCEPT ![m].phase = "posted"]
  /\ UNCHANGED <<session, viewVars, entry, version, told>>

\* Or closed without a call on its way
Dismiss(m) ==
  /\ Quiet /\ mut[m].phase = "dialog" /\ session = "open"
  /\ mut' = [mut EXCEPT ![m].phase = "over"]
  /\ ReleaseProposal(m)
  /\ UNCHANGED <<session, version, told>>

\* The backend compares the version and answers
Serve(m) ==
  /\ Quiet /\ mut[m].phase = "posted"
  /\ LET r == mut[m].req IN
     IF version[r] = mut[m].expected
     THEN /\ version' = [version EXCEPT ![r] = @ + 1]
          /\ mut' = [mut EXCEPT ![m].phase = "accepted"]
     ELSE /\ mut' = [mut EXCEPT ![m].phase = "refused"]
          /\ UNCHANGED version
  /\ UNCHANGED <<session, viewVars, entry, told>>

\* The version an accepted mutation's answer names
Tell(m) == told' = [told EXCEPT ![mut[m].req] = mut[m].expected + 1]

\* A cancel is answered: its promise settles
CancelAccepted(m) ==
  /\ Quiet /\ mut[m].kind = "cancel" /\ mut[m].phase = "accepted"
  /\ mut' = [mut EXCEPT ![m].phase = "done"]
  /\ Tell(m)
  /\ UNCHANGED <<session, viewVars, entry, version>>

\* Refused, or its answer was lost
CancelFails(m) ==
  /\ Quiet /\ mut[m].kind = "cancel" /\ mut[m].phase \in InFlight
  /\ mut' = [mut EXCEPT ![m].phase = "failed"]
  /\ UNCHANGED <<session, viewVars, entry, version, told>>

\* Mutant: every surface and card reconciles anew
ReactAgain(m) ==
  /\ mut[m].phase \in Settled /\ mut[m].handlers > 0
  /\ IF Active
     THEN /\ entry' = [entry EXCEPT ![mut[m].req] = IF @ = m THEN NoMutation ELSE @]
          /\ mut' = [mut EXCEPT ![m].handlers = @ - 1, ![m].reconciled = TRUE,
                                ![m].reports = @ + 1]
          /\ Refresh(TRUE)
     ELSE /\ mut' = [mut EXCEPT ![m].handlers = @ - 1]
          /\ UNCHANGED <<entry, viewVars>>
  /\ UNCHANGED <<session, version, told>>

\* Mutant: a cancel that failed is not reconciled
ReactToSuccess(m) ==
  /\ mut[m].phase \in Settled /\ mut[m].handlers > 0
  /\ IF Active /\ ~mut[m].reconciled /\ mut[m].phase = "done"
     THEN /\ entry' = [entry EXCEPT ![mut[m].req] = IF @ = m THEN NoMutation ELSE @]
          /\ mut' = [mut EXCEPT ![m].handlers = @ - 1, ![m].reconciled = TRUE,
                                ![m].reports = @ + 1]
          /\ Refresh(TRUE)
     ELSE /\ mut' = [mut EXCEPT ![m].handlers = @ - 1]
          /\ UNCHANGED <<entry, viewVars>>
  /\ UNCHANGED <<session, version, told>>

\* reconcileMutation(), once: by the handler that started the cancel, or by a card
\* of a later list
React(m) ==
  /\ mut[m].phase \in Settled /\ mut[m].handlers > 0
  /\ IF Active /\ ~mut[m].reconciled
     THEN /\ entry' = [entry EXCEPT ![mut[m].req] = IF @ = m THEN NoMutation ELSE @]
          /\ mut' = [mut EXCEPT ![m].handlers = @ - 1, ![m].reconciled = TRUE,
                                ![m].reports = @ + 1]
          /\ Refresh(TRUE)
     ELSE /\ mut' = [mut EXCEPT ![m].handlers = @ - 1]
          /\ UNCHANGED <<entry, viewVars>>
  /\ UNCHANGED <<session, version, told>>

\* A proposal is accepted: the dialog closes, the outcome is shown
ProposalAccepted(m) ==
  /\ Quiet /\ mut[m].kind = "proposal" /\ mut[m].phase = "accepted"
  /\ IF session = "open"
     THEN /\ mut' = [mut EXCEPT ![m].phase = "over", ![m].reports = @ + 1]
          /\ ReleaseProposal(m)
     ELSE /\ mut' = [mut EXCEPT ![m].phase = "over"]
          /\ UNCHANGED <<entry, viewVars>>
  /\ Tell(m)
  /\ UNCHANGED <<session, version>>

\* Refused or lost: the dialog may be submitted again
ProposalFails(m) ==
  /\ Quiet /\ mut[m].kind = "proposal" /\ mut[m].phase \in InFlight
  /\ mut' = [mut EXCEPT ![m].phase = IF session = "open" THEN "dialog" ELSE "over"]
  /\ UNCHANGED <<session, viewVars, entry, version, told>>

-----------------------------------------------------------------------------

Answer(m) ==
  \/ CancelAccepted(m) \/ CancelFails(m) \/ React(m)
  \/ ProposalAccepted(m) \/ ProposalFails(m)

User(m) == Cancel(m) \/ Change(m) \/ Propose(m) \/ Dismiss(m)

Next ==
  \/ Open \/ Leave \/ ClickRefresh \/ Lock \/ EndSession
  \/ \E x \in reads : ServeList(x) \/ ReceiveList(x) \/ ReceiveDetails(x) \/ FailRead(x)
  \/ \E m \in Mutations : \/ User(m) \/ Serve(m) \/ Answer(m)
                          \/ OpenDialog(m) \/ AbortPreparation(m)

Spec == Init /\ [][Next]_vars

FairSpec == Spec /\ \A m \in Mutations : WF_vars(Answer(m))

-----------------------------------------------------------------------------
(* Properties *)

\* Every variable keeps its type, and there are cards exactly while a projection
\* is committed.
TypeOK ==
  /\ session \in {"open", "locked", "ended"}
  /\ connected \in BOOLEAN
  /\ generation \in Nat
  /\ committed \in BOOLEAN
  /\ interactive \in BOOLEAN
  /\ shown \in Snapshots \cup {NoCards}
  /\ committed <=> shown # NoCards
  /\ reads \subseteq Read
  /\ \A x \in reads : x.phase # "sent" => x.cards # NoCards
  /\ entry \in [Requests -> Mutations \cup {NoMutation}]
  /\ mut \in [Mutations -> Mutation]
  /\ version \in Snapshots
  /\ told \in Snapshots

\* The tab never has two mutations of one Request on the wire, whatever lists were
\* shown and left meanwhile ("proves one wire mutation", H-023).
OneMutationInFlight ==
  \A m, n \in Mutations :
    mut[m].phase \in InFlight /\ mut[n].phase \in InFlight /\ mut[m].req = mut[n].req
    => m = n

\* The outcome of a mutation is announced at most once, by however many lists it
\* is followed.
ReportedOnce == \A m \in Mutations : mut[m].reports <= 1

\* A list with usable controls never keeps the controls of a Request closed for a
\* mutation that is over.
NoLeakedReservation ==
  Quiet /\ Active /\ interactive =>
    \A r \in Requests : entry[r] # NoMutation =>
      mut[entry[r]].phase \in {"preparing", "dialog"} \cup InFlight

\* While the view stays, its cards never go back to an older version of a Request:
\* an older response that settles last is dropped.
NeverBackwards ==
  [][ shown # NoCards /\ shown' # NoCards => \A r \in Requests : shown[r] <= shown'[r] ]_vars

\* A list with usable controls is at least as new as every mutation whose success
\* the tab has been told of.
InteractiveIsReconciled ==
  Quiet /\ Active /\ interactive => \A r \in Requests : told[r] <= shown[r]

\* Whoever stays with the cards of a list learns the outcome of a cancel on its way,
\* and the Request is released.  (Who comes back to a list that cannot be read learns
\* it when one is.)
OutcomeReported ==
  \A m \in Mutations :
    Active /\ committed /\ mut[m].kind = "cancel" /\ mut[m].phase \in InFlight
    ~> ~Active \/ (mut[m].reports = 1 /\ entry[mut[m].req] # m)
=============================================================================
