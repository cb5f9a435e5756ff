------------------------- MODULE RequestList_proofs -------------------------
(***************************************************************************)
(* The safety properties of RequestList, for every set of Requests and        *)
(* reservations and without the bound on refreshes playing a part.            *)
(***************************************************************************)
EXTENDS RequestList, TLAPS

USE NoMutationAssumption, NoCardsAssumption

-----------------------------------------------------------------------------
(* The inductive invariant *)

\* A proposal's promise has no reactions of the list, a cancel has no dialog; only
\* a settled cancel is reconciled.
KindsOK ==
  \A m \in Mutations :
    /\ mut[m].reconciled => mut[m].phase \in Settled
    /\ mut[m].kind = "proposal" => mut[m].phase \notin Settled
    /\ mut[m].kind = "cancel" => mut[m].phase \notin {"preparing", "dialog", "over"}

\* Whatever is under way in an open session holds the reservation of its Request.
Reserved ==
  session = "open" =>
    \A m \in Mutations :
      mut[m].phase \in {"preparing", "dialog"} \cup InFlight => entry[mut[m].req] = m

\* Reservations are held by mutations of the Request that are not over; a proposal
\* whose dialog was closed under it holds none.
EntryOwned ==
  /\ \A r \in Requests : entry[r] # NoMutation =>
       /\ mut[entry[r]].req = r
       /\ mut[entry[r]].phase \notin {"unborn", "over"}
       /\ ~mut[entry[r]].reconciled
  /\ session # "open" => \A m \in Mutations : HasDialog(m) => entry[mut[m].req] # m

\* Only a list that is shown has cards, and they follow every cancel that holds a
\* reservation.
Followed ==
  /\ committed => connected
  /\ Active /\ committed =>
       \A r \in Requests : entry[r] # NoMutation /\ mut[entry[r]].kind = "cancel"
                           => mut[entry[r]].handlers > 0

\* Only a reconciled cancel and a finished proposal have been announced.
Announced ==
  \A m \in Mutations :
    /\ mut[m].reports <= 1
    /\ mut[m].reports = 1 => mut[m].reconciled \/ mut[m].phase = "over"

\* Reads know nothing the backend does not, and the current one is not behind the
\* cards.
ReadsOK ==
  /\ \A x \in reads : x.generation <= generation
  /\ \A x, y \in reads : x.generation = y.generation => x = y
  /\ \A x \in reads : x.cards # NoCards => \A r \in Requests : x.cards[r] <= version[r]
  /\ shown # NoCards => \A r \in Requests : shown[r] <= version[r]
  /\ \A x \in reads : x.cards # NoCards /\ shown # NoCards /\ x.generation = generation
       => \A r \in Requests : shown[r] <= x.cards[r]

IInv ==
  /\ TypeOK
  /\ interactive => committed
  /\ KindsOK
  /\ Reserved
  /\ EntryOwned
  /\ OneMutationInFlight
  /\ Followed
  /\ Announced
  /\ ReadsOK

-----------------------------------------------------------------------------
(* Types *)

\* Init satisfies the types.
LEMMA InitType == Init => TypeOK
<1> SUFFICES ASSUME Init PROVE TypeOK
  OBVIOUS
<1>1. mut \in [Mutations -> Mutation]
  <2>1. \A r \in Requests, k \in {"cancel", "proposal"} : Unborn(r, k) \in Mutation
    BY DEF Unborn, Mutation
  <2> QED
    BY <2>1 DEF Init
<1>2. version \in Snapshots /\ told \in Snapshots
  BY DEF Init, Snapshots
<1>3. entry \in [Requests -> Mutations \cup {NoMutation}]
  BY DEF Init
<1>4. connected \in BOOLEAN /\ committed \in BOOLEAN /\ interactive \in BOOLEAN
  BY DEF Init
<1>5. committed <=> shown # NoCards
  BY DEF Init
<1>6. generation \in Nat /\ shown \in Snapshots \cup {NoCards}
  BY DEF Init
<1> QED
  BY <1>1, <1>2, <1>3, <1>4, <1>5, <1>6 DEF Init, TypeOK

\* What a refresh begins is a read that has not been answered.
LEMMA NewReadType ==
  ASSUME TypeOK, NEW f \in BOOLEAN
  PROVE  /\ NewRead(f) \in Read
         /\ NewRead(f).phase = "sent"
         /\ NewRead(f).cards = NoCards
         /\ NewRead(f).generation = generation + 1
  BY DEF TypeOK, Read, NewRead

\* A refresh keeps the types of the view.
LEMMA RefreshType ==
  ASSUME TypeOK, NEW f \in BOOLEAN, Refresh(f)
  PROVE  /\ generation' \in Nat
         /\ interactive' \in BOOLEAN
         /\ reads' \subseteq Read
         /\ \A x \in reads' : x.phase # "sent" => x.cards # NoCards
         /\ UNCHANGED <<connected, committed, shown>>
<1>1. NewRead(f) \in Read /\ NewRead(f).phase = "sent"
  BY NewReadType
<1>2. generation' \in Nat
  BY DEF TypeOK, Refresh
<1>5. interactive' \in BOOLEAN
  BY DEF TypeOK, Refresh
<1>6. UNCHANGED <<connected, committed, shown>>
  BY DEF TypeOK, Refresh
<1>3. reads' \subseteq Read
  BY <1>1 DEF TypeOK, Refresh
<1>4. \A x \in reads' : x.phase # "sent" => x.cards # NoCards
  BY <1>1 DEF TypeOK, Refresh
<1> QED
  BY <1>2, <1>3, <1>4, <1>5, <1>6

\* Steps of the view keep the types.
LEMMA ViewType ==
  ASSUME TypeOK, Open \/ Leave \/ ClickRefresh \/ Lock \/ EndSession
  PROVE  TypeOK'
<1>1. CASE Open
  <2>1. NewRead(FALSE) \in Read /\ NewRead(FALSE).phase = "sent"
    BY NewReadType
  <2>2. reads' \subseteq Read
    BY <1>1, <2>1 DEF TypeOK, Open
  <2>3. \A x \in reads' : x.phase # "sent" => x.cards # NoCards
    BY <1>1, <2>1 DEF TypeOK, Open
  <2>4. generation' \in Nat
    BY <1>1 DEF TypeOK, Open
  <2>5. connected' \in BOOLEAN
    BY <1>1 DEF TypeOK, Open
  <2> QED
    BY <1>1, <2>2, <2>3, <2>4, <2>5 DEF TypeOK, Open
<1>2. CASE Leave
  <2>1. mut' \in [Mutations -> Mutation]
    BY <1>2 DEF TypeOK, Leave, Mutation
  <2> QED
    BY <1>2, <2>1 DEF TypeOK, Leave
<1>3. CASE ClickRefresh
  BY <1>3, RefreshType DEF TypeOK, ClickRefresh
<1>4. CASE Lock
  BY <1>4 DEF TypeOK, Lock, viewVars
<1>5. CASE EndSession
  BY <1>5 DEF TypeOK, EndSession
<1> QED
  BY <1>1, <1>2, <1>3, <1>4, <1>5

\* Handlers are counted by natural numbers.
LEMMA AttachedType == TypeOK => Attached \in [Mutations -> Mutation]
  BY DEF TypeOK, Attached, Mutation

\* Steps of a read keep the types.
LEMMA ReadType ==
  ASSUME TypeOK, NEW x \in reads,
         ServeList(x) \/ ReceiveList(x) \/ ReceiveDetails(x) \/ FailRead(x)
  PROVE  TypeOK'
<1>0. x \in Read /\ version \in Snapshots /\ version # NoCards
  BY DEF TypeOK, Snapshots
<1>1. CASE ServeList(x)
  <2>1. [x EXCEPT !.phase = "listed", !.cards = version] \in Read
    BY <1>0 DEF Read
  <2> QED
    BY <1>0, <1>1, <2>1 DEF TypeOK, ServeList, Read
<1>2. CASE ReceiveList(x)
  <2>1. [x EXCEPT !.phase = "details"] \in Read /\ x.cards # NoCards
    BY <1>0, <1>2 DEF Read, ReceiveList, TypeOK
  <2> QED
    BY <1>0, <1>2, <2>1 DEF TypeOK, ReceiveList, Read
<1>3. CASE ReceiveDetails(x)
  <2>1. x.cards \in Snapshots /\ x.cards # NoCards
    BY <1>0, <1>3 DEF Read, ReceiveDetails, TypeOK
  <2> QED
    BY <1>3, <2>1, AttachedType DEF TypeOK, ReceiveDetails
<1>4. CASE FailRead(x)
  BY <1>4 DEF TypeOK, FailRead
<1> QED
  BY <1>1, <1>2, <1>3, <1>4

\* Changing some fields of one reservation keeps the type of all.
LEMMA MutType ==
  ASSUME TypeOK, NEW m \in Mutations, NEW u \in Mutation,
         mut' = [mut EXCEPT ![m] = u]
  PROVE  mut' \in [Mutations -> Mutation]
  BY DEF TypeOK

\* Releasing a reservation keeps the types.
LEMMA ReleaseType ==
  ASSUME TypeOK, NEW m \in Mutations, ReleaseProposal(m)
  PROVE  /\ entry' \in [Requests -> Mutations \cup {NoMutation}]
         /\ generation' \in Nat
         /\ interactive' \in BOOLEAN
         /\ reads' \subseteq Read
         /\ \A x \in reads' : x.phase # "sent" => x.cards # NoCards
         /\ UNCHANGED <<connected, committed, shown>>
<1>1. CASE entry[mut[m].req] = m /\ Active
  BY <1>1, RefreshType DEF ReleaseProposal, RefreshIfActive, TypeOK
<1>2. CASE ~(entry[mut[m].req] = m /\ Active)
  BY <1>2 DEF ReleaseProposal, RefreshIfActive, TypeOK, viewVars
<1> QED
  BY <1>1, <1>2

\* Steps of a mutation keep the types.
LEMMA MutationStepType ==
  ASSUME TypeOK, NEW m \in Mutations,
         \/ User(m) \/ Serve(m) \/ Answer(m) \/ OpenDialog(m) \/ AbortPreparation(m)
  PROVE  TypeOK'
<1>0. mut[m] \in Mutation /\ mut[m].req \in Requests
  BY DEF TypeOK, Mutation
<1> DEFINE posted == [mut[m] EXCEPT !.phase = "posted", !.handlers = 1,
                                    !.expected = shown[mut[m].req]]
           phased(p) == [mut[m] EXCEPT !.phase = p]
<1>p. \A p \in {"preparing", "dialog", "over"} \cup InFlight \cup Settled : phased(p) \in Mutation
  BY <1>0 DEF Mutation
<1>1. CASE Cancel(m)
  <2>1. shown[mut[m].req] \in Nat
    BY <1>0, <1>1 DEF Cancel, Clicked, TypeOK, Snapshots
  <2>2. posted \in Mutation
    BY <1>0, <2>1 DEF Mutation, InFlight
  <2>3. mut' = [mut EXCEPT ![m] = posted]
    BY <1>0, <1>1 DEF Cancel, TypeOK, Mutation
  <2> QED
    BY <1>1, <2>2, <2>3, MutType DEF Cancel, TypeOK, viewVars
<1>2. CASE Change(m)
  <2>1. shown[mut[m].req] \in Nat
    BY <1>0, <1>2 DEF Change, Clicked, TypeOK, Snapshots
  <2>2. [mut[m] EXCEPT !.phase = "preparing", !.started = generation,
                       !.expected = shown[mut[m].req]] \in Mutation
    BY <1>0, <2>1 DEF Mutation, TypeOK
  <2>3. mut' \in [Mutations -> Mutation]
    BY <1>0, <1>2, <2>2 DEF Change, TypeOK, Mutation
  <2> QED
    BY <1>2, <2>3 DEF Change, TypeOK, viewVars
<1>3. CASE Propose(m) \/ OpenDialog(m)
  BY <1>3, <1>p DEF Propose, OpenDialog, TypeOK, viewVars, InFlight
<1>4. CASE Dismiss(m) \/ AbortPreparation(m)
  BY <1>4, <1>p, ReleaseType DEF Dismiss, AbortPreparation, TypeOK
<1>5. CASE Serve(m)
  BY <1>0, <1>5, <1>p DEF Serve, TypeOK, viewVars, InFlight, Snapshots
<1>6. CASE CancelAccepted(m)
  <2>1. mut[m].expected + 1 \in Nat
    BY <1>0 DEF Mutation
  <2> QED
    BY <1>0, <1>6, <1>p, <2>1 DEF CancelAccepted, Tell, TypeOK, viewVars, Settled, Snapshots
<1>7. CASE CancelFails(m)
  BY <1>7, <1>p DEF CancelFails, TypeOK, viewVars, Settled
<1>8. CASE React(m)
  <2>1. mut[m].handlers - 1 \in Nat /\ mut[m].reports + 1 \in Nat
    BY <1>0, <1>8 DEF React, Mutation
  <2>2. CASE Active /\ ~mut[m].reconciled
    <3>1. [mut[m] EXCEPT !.handlers = @ - 1, !.reconciled = TRUE, !.reports = @ + 1] \in Mutation
      BY <1>0, <2>1 DEF Mutation
    <3>2. mut' \in [Mutations -> Mutation]
      BY <1>0, <1>8, <2>2, <3>1 DEF React, TypeOK, Mutation
    <3> QED
      BY <1>8, <2>2, <3>2, RefreshType DEF React, TypeOK
  <2>3. CASE ~(Active /\ ~mut[m].reconciled)
    <3>1. [mut[m] EXCEPT !.handlers = @ - 1] \in Mutation
      BY <1>0, <2>1 DEF Mutation
    <3> QED
      BY <1>8, <2>3, <3>1 DEF React, TypeOK, viewVars
  <2> QED
    BY <2>2, <2>3
<1>9. CASE ProposalAccepted(m)
  <2>1. mut[m].expected + 1 \in Nat /\ mut[m].reports + 1 \in Nat
    BY <1>0 DEF Mutation
  <2>2. told' \in Snapshots
    BY <1>0, <1>9, <2>1 DEF ProposalAccepted, Tell, TypeOK, Snapshots
  <2>3. [mut[m] EXCEPT !.phase = "over", !.reports = @ + 1] \in Mutation
    BY <1>0, <2>1 DEF Mutation
  <2>4. mut' \in [Mutations -> Mutation]
    BY <1>0, <1>9, <1>p, <2>3 DEF ProposalAccepted, TypeOK, Mutation
  <2>5. CASE session = "open"
    BY <1>9, <2>2, <2>4, <2>5, ReleaseType DEF ProposalAccepted, TypeOK
  <2>6. CASE session # "open"
    BY <1>9, <2>2, <2>4, <2>6 DEF ProposalAccepted, TypeOK, viewVars
  <2> QED
    BY <2>5, <2>6
<1>10. CASE ProposalFails(m)
  BY <1>10, <1>p DEF ProposalFails, TypeOK, viewVars
<1> QED
  BY <1>1, <1>2, <1>3, <1>4, <1>5, <1>6, <1>7, <1>8, <1>9, <1>10 DEF User, Answer

\* Every step keeps the types.
LEMMA NextType == TypeOK /\ [Next]_vars => TypeOK'
<1> SUFFICES ASSUME TypeOK, [Next]_vars PROVE TypeOK'
  OBVIOUS
<1>1. CASE Next
  BY <1>1, ViewType, ReadType, MutationStepType DEF Next
<1>2. CASE UNCHANGED vars
  BY <1>2 DEF vars, viewVars, TypeOK
<1> QED
  BY <1>1, <1>2

\* Every reachable state is well typed, with cards exactly while a projection of the
\* list is committed.
THEOREM TypeCorrect == Spec => []TypeOK
  BY InitType, NextType, PTL DEF Spec

-----------------------------------------------------------------------------
(* What a step of one mutation leaves alone *)

MutationStep(m) ==
  \/ User(m) \/ Serve(m) \/ Answer(m) \/ OpenDialog(m) \/ AbortPreparation(m)

\* A step of m changes no other reservation, no other Request's entry, and neither
\* what m is nor which Request it is for.
LEMMA Frame ==
  ASSUME TypeOK, NEW m \in Mutations, MutationStep(m)
  PROVE  /\ \A n \in Mutations : n # m => mut'[n] = mut[n]
         /\ mut'[m].req = mut[m].req
         /\ mut'[m].kind = mut[m].kind
         /\ \A r \in Requests : r # mut[m].req => entry'[r] = entry[r]
         /\ session' = session
<1>0. mut[m] \in Mutation
  BY DEF TypeOK
<1>1. CASE Cancel(m)
  BY <1>0, <1>1 DEF Cancel, TypeOK, Mutation
<1>7. CASE Change(m)
  BY <1>0, <1>7 DEF Change, TypeOK, Mutation
<1>2. CASE Propose(m) \/ OpenDialog(m) \/ CancelFails(m) \/ ProposalFails(m)
  BY <1>0, <1>2 DEF Propose, OpenDialog, CancelFails, ProposalFails, TypeOK, Mutation, viewVars
<1>3. CASE Dismiss(m) \/ AbortPreparation(m)
  BY <1>0, <1>3 DEF Dismiss, AbortPreparation, ReleaseProposal, TypeOK, Mutation
<1>4. CASE Serve(m) \/ CancelAccepted(m)
  BY <1>0, <1>4 DEF Serve, CancelAccepted, TypeOK, Mutation, viewVars
<1>5. CASE React(m)
  <2>1. CASE Active /\ ~mut[m].reconciled
    BY <1>0, <1>5, <2>1 DEF React, TypeOK, Mutation
  <2>2. CASE ~(Active /\ ~mut[m].reconciled)
    BY <1>0, <1>5, <2>2 DEF React, TypeOK, Mutation
  <2> QED
    BY <2>1, <2>2
<1>6. CASE ProposalAccepted(m)
  <2>1. CASE session = "open"
    BY <1>0, <1>6, <2>1 DEF ProposalAccepted, ReleaseProposal, TypeOK, Mutation
  <2>2. CASE session # "open"
    BY <1>0, <1>6, <2>2 DEF ProposalAccepted, TypeOK, Mutation
  <2> QED
    BY <2>1, <2>2
<1> QED
  BY <1>1, <1>2, <1>3, <1>4, <1>5, <1>6, <1>7 DEF MutationStep, User, Answer

\* Steps of the view and of reads change of a reservation at most the number of its
\* reactions.
SamePhases ==
  \A m \in Mutations : /\ mut'[m].req = mut[m].req
                       /\ mut'[m].kind = mut[m].kind
                       /\ mut'[m].expected = mut[m].expected
                       /\ mut'[m].phase = mut[m].phase
                       /\ mut'[m].reconciled = mut[m].reconciled
                       /\ mut'[m].reports = mut[m].reports

ViewStep ==
  \/ Open \/ Leave \/ ClickRefresh \/ Lock \/ EndSession
  \/ \E x \in reads : ServeList(x) \/ ReceiveList(x) \/ ReceiveDetails(x) \/ FailRead(x)

\* Such a step takes and gives back no reservation while the session stays open.
LEMMA ViewFrame ==
  ASSUME TypeOK, ViewStep
  PROVE  /\ SamePhases
         /\ session' = "open" => session = "open" /\ entry' = entry
<1>1. CASE Leave
  BY <1>1 DEF Leave, SamePhases, TypeOK, Mutation
<1>2. ASSUME NEW x \in reads, ReceiveDetails(x) PROVE SamePhases
  <2>1. CASE mut' = Attached
    BY <2>1 DEF Attached, SamePhases, TypeOK, Mutation
  <2>2. CASE mut' = mut
    BY <2>2 DEF SamePhases
  <2> QED
    BY <1>2, <2>1, <2>2 DEF ReceiveDetails
<1>3. CASE Open \/ ClickRefresh \/ Lock \/ EndSession
           \/ \E x \in reads : ServeList(x) \/ ReceiveList(x) \/ FailRead(x)
  <2>1. mut' = mut
    BY <1>3 DEF Open, ClickRefresh, Lock, EndSession, ServeList, ReceiveList, FailRead
  <2> QED
    BY <1>3, <2>1 DEF SamePhases, Open, ClickRefresh, Lock, EndSession, ServeList,
                      ReceiveList, FailRead
<1> QED
  BY <1>1, <1>2, <1>3 DEF ViewStep, Leave, ReceiveDetails

\* Next, by who takes the step.
LEMMA NextCases == Next <=> ViewStep \/ \E m \in Mutations : MutationStep(m)
  BY DEF Next, ViewStep, MutationStep

\* A step of m takes the reservation of its Request when there is none, gives back
\* its own, or leaves it.
Taken(m) ==
  /\ session = "open"
  /\ mut[m].phase = "unborn"
  /\ entry[mut[m].req] = NoMutation
  /\ entry' = [entry EXCEPT ![mut[m].req] = m]
  /\ \/ mut[m].kind = "cancel" /\ mut'[m].phase = "posted" /\ mut'[m].handlers = 1
     \/ mut[m].kind = "proposal" /\ mut'[m].phase = "preparing"
  /\ mut'[m].reconciled = mut[m].reconciled
  /\ mut'[m].reports = mut[m].reports

Moved(m) ==
  /\ entry' = entry
  /\ \/ mut[m].phase = "preparing" /\ mut'[m].phase = "dialog" /\ session = "open"
     \/ mut[m].phase \in InFlight /\ mut'[m].phase \in InFlight
     \/ /\ mut[m].phase \in {"dialog"} \cup InFlight /\ mut'[m].phase \in {"dialog"} \cup InFlight
        /\ session = "open"
     \/ mut[m].phase \in InFlight /\ mut[m].kind = "cancel" /\ mut'[m].phase \in Settled
     \/ mut[m].phase \in InFlight /\ mut[m].kind = "proposal" /\ mut'[m].phase = "over"
        /\ session # "open"
  /\ mut[m].kind = "cancel" => mut'[m].phase # "dialog"
  /\ mut'[m].handlers = mut[m].handlers
  /\ mut'[m].reconciled = mut[m].reconciled
  /\ mut'[m].reports = mut[m].reports

Released(m) ==
  /\ mut[m].kind = "proposal"
  /\ mut[m].phase \in {"preparing", "dialog"} \cup InFlight
  /\ mut'[m].phase = "over"
  /\ IF entry[mut[m].req] = m
     THEN entry' = [entry EXCEPT ![mut[m].req] = NoMutation] ELSE entry' = entry
  /\ mut'[m].reconciled = mut[m].reconciled
  /\ mut'[m].reports \in {mut[m].reports, mut[m].reports + 1}

Reacted(m) ==
  /\ mut[m].phase \in Settled
  /\ mut'[m].phase = mut[m].phase
  /\ \/ /\ ~mut[m].reconciled /\ mut'[m].reconciled
        /\ IF entry[mut[m].req] = m
           THEN entry' = [entry EXCEPT ![mut[m].req] = NoMutation] ELSE entry' = entry
        /\ mut'[m].reports = mut[m].reports + 1
     \/ /\ ~Active \/ mut[m].reconciled
        /\ entry' = entry
        /\ mut'[m].reconciled = mut[m].reconciled
        /\ mut'[m].reports = mut[m].reports

\* releaseProposal() gives back at most m's own reservation.
LEMMA ReleaseEffect ==
  ASSUME TypeOK, NEW m \in Mutations, ReleaseProposal(m)
  PROVE  IF entry[mut[m].req] = m
         THEN entry' = [entry EXCEPT ![mut[m].req] = NoMutation] ELSE entry' = entry
  BY DEF ReleaseProposal

\* There is no other effect of m's steps on reservations.
LEMMA Effect ==
  ASSUME TypeOK, KindsOK, NEW m \in Mutations, MutationStep(m)
  PROVE  Taken(m) \/ Moved(m) \/ Released(m) \/ Reacted(m)
<1>0. mut[m] \in Mutation
  BY DEF TypeOK
<1>1. CASE Cancel(m)
  <2>1. Taken(m)
    BY <1>0, <1>1 DEF Cancel, Clicked, Active, Taken, TypeOK, Mutation
  <2> QED
    BY <2>1
<1>2. CASE Change(m)
  <2>1. Taken(m)
    BY <1>0, <1>2 DEF Change, Clicked, Active, Taken, TypeOK, Mutation
  <2> QED
    BY <2>1
<1>3. CASE OpenDialog(m)
  <2>1. Moved(m)
    BY <1>0, <1>3 DEF OpenDialog, Active, Moved, TypeOK, Mutation, KindsOK
  <2> QED
    BY <2>1
<1>4. CASE Propose(m)
  <2>1. Moved(m)
    BY <1>0, <1>4 DEF Propose, Moved, TypeOK, Mutation, KindsOK, InFlight
  <2> QED
    BY <2>1
<1>5. CASE Serve(m)
  <2>1. Moved(m)
    BY <1>0, <1>5 DEF Serve, Moved, TypeOK, Mutation, InFlight
  <2> QED
    BY <2>1
<1>6. CASE CancelAccepted(m) \/ CancelFails(m)
  <2>1. Moved(m)
    BY <1>0, <1>6 DEF CancelAccepted, CancelFails, Moved, TypeOK, Mutation, InFlight, Settled
  <2> QED
    BY <2>1
<1>7. CASE ProposalFails(m)
  <2>1. Moved(m)
    BY <1>0, <1>7 DEF ProposalFails, Moved, TypeOK, Mutation, InFlight
  <2> QED
    BY <2>1
<1>8. CASE Dismiss(m) \/ AbortPreparation(m)
  <2>1. mut[m].kind = "proposal"
    BY <1>0, <1>8 DEF Dismiss, AbortPreparation, KindsOK, Mutation
  <2>2. Released(m)
    BY <1>0, <1>8, <2>1, ReleaseEffect DEF Dismiss, AbortPreparation, Released, TypeOK, Mutation
  <2> QED
    BY <2>2
<1>9. CASE ProposalAccepted(m)
  <2>1. CASE session = "open"
    <3>1. mut'[m].phase = "over" /\ mut'[m].reconciled = mut[m].reconciled
          /\ mut'[m].reports = mut[m].reports + 1
      BY <1>0, <1>9, <2>1 DEF ProposalAccepted, TypeOK, Mutation
    <3>2. Released(m)
      BY <1>9, <2>1, <3>1, ReleaseEffect DEF ProposalAccepted, Released, InFlight
    <3> QED
      BY <3>2
  <2>2. CASE session # "open"
    <3>1. Moved(m)
      BY <1>0, <1>9, <2>2 DEF ProposalAccepted, Moved, TypeOK, Mutation, InFlight
    <3> QED
      BY <3>1
  <2> QED
    BY <2>1, <2>2
<1>10. CASE React(m)
  <2>1. CASE Active /\ ~mut[m].reconciled
    <3>1. mut'[m].phase = mut[m].phase /\ mut'[m].reconciled
          /\ mut'[m].reports = mut[m].reports + 1
      BY <1>0, <1>10, <2>1 DEF React, TypeOK, Mutation
    <3>2. entry' = [entry EXCEPT ![mut[m].req] = IF @ = m THEN NoMutation ELSE @]
      BY <1>10, <2>1 DEF React
    <3>3. IF entry[mut[m].req] = m
          THEN entry' = [entry EXCEPT ![mut[m].req] = NoMutation] ELSE entry' = entry
      BY <1>0, <3>2 DEF TypeOK, Mutation
    <3>4. mut[m].phase \in Settled
      BY <1>10 DEF React
    <3> QED
      BY <2>1, <3>1, <3>3, <3>4 DEF Reacted
  <2>2. CASE ~(Active /\ ~mut[m].reconciled)
    <3>1. Reacted(m)
      BY <1>0, <1>10, <2>2 DEF React, Reacted, TypeOK, Mutation
    <3> QED
      BY <3>1
  <2> QED
    BY <2>1, <2>2
<1> QED
  BY <1>1, <1>2, <1>3, <1>4, <1>5, <1>6, <1>7, <1>8, <1>9, <1>10 DEF MutationStep, User, Answer

\* A step of a mutation shows no other cards and gives no list back.
LEMMA ViewKept ==
  ASSUME TypeOK, NEW m \in Mutations, MutationStep(m)
  PROVE  UNCHANGED <<connected, committed, shown>> /\ (interactive' => interactive)
<1>1. CASE Refresh(TRUE)
  BY <1>1 DEF Refresh
<1>2. CASE UNCHANGED viewVars
  BY <1>2 DEF viewVars
<1> QED
  BY <1>1, <1>2 DEF MutationStep, User, Answer, Cancel, Change, OpenDialog, AbortPreparation,
                    Propose, Dismiss, Serve, CancelAccepted, CancelFails, React,
                    ProposalAccepted, ProposalFails, ReleaseProposal, RefreshIfActive, viewVars

-----------------------------------------------------------------------------
(* The invariant is kept, conjunct by conjunct *)

\* Every step keeps each part of the invariant.
LEMMA KindsKept ==
  ASSUME TypeOK, KindsOK, Next
  PROVE  KindsOK'
<1>1. CASE ViewStep
  BY <1>1, ViewFrame DEF KindsOK, SamePhases
<1>2. ASSUME NEW m \in Mutations, MutationStep(m) PROVE KindsOK'
  <2>0. mut[m] \in Mutation
    BY DEF TypeOK
  <2>1. /\ mut'[m].reconciled => mut'[m].phase \in Settled
        /\ mut'[m].kind = "proposal" => mut'[m].phase \notin Settled
        /\ mut'[m].kind = "cancel" => mut'[m].phase \notin {"preparing", "dialog", "over"}
    <3>1. mut'[m].kind = mut[m].kind
      BY <1>2, Frame
    <3>2. CASE Taken(m)
      BY <3>1, <3>2 DEF Taken, KindsOK, Settled
    <3>3. CASE Moved(m)
      BY <3>1, <3>3, <2>0 DEF Moved, KindsOK, Settled, InFlight, Mutation
    <3>4. CASE Released(m)
      BY <3>1, <3>4 DEF Released, KindsOK, Settled, InFlight
    <3>5. CASE Reacted(m)
      BY <3>1, <3>5 DEF Reacted, KindsOK
    <3> QED
      BY <1>2, <3>2, <3>3, <3>4, <3>5, Effect
  <2>2. \A n \in Mutations : n # m => mut'[n] = mut[n]
    BY <1>2, Frame
  <2> QED
    BY <2>1, <2>2 DEF KindsOK
<1> QED
  BY <1>1, <1>2, NextCases

\* What is under way keeps its reservation.
LEMMA ReservedKept ==
  ASSUME TypeOK, KindsOK, Reserved, EntryOwned, Next
  PROVE  Reserved'
<1>1. CASE ViewStep
  BY <1>1, ViewFrame DEF Reserved, SamePhases
<1>2. ASSUME NEW m \in Mutations, MutationStep(m) PROVE Reserved'
  <2> SUFFICES ASSUME session' = "open", NEW n \in Mutations,
                      mut'[n].phase \in {"preparing", "dialog"} \cup InFlight
               PROVE  entry'[mut'[n].req] = n
    BY DEF Reserved
  <2>0. /\ mut[m] \in Mutation /\ mut[n] \in Mutation /\ session = "open"
        /\ entry \in [Requests -> Mutations \cup {NoMutation}]
    BY <1>2, Frame DEF TypeOK
  <2>1. CASE n = m
    <3>1. mut'[n].req = mut[n].req
      BY <1>2, <2>1, Frame
    <3>2. CASE Taken(m)
      BY <2>0, <2>1, <3>1, <3>2 DEF Taken, Mutation
    <3>3. CASE Moved(m)
      BY <2>0, <2>1, <3>1, <3>3 DEF Moved, Reserved, InFlight, Settled
    <3>4. CASE Released(m)
      BY <2>1, <3>4 DEF Released, InFlight
    <3>5. CASE Reacted(m)
      BY <2>1, <3>5 DEF Reacted, InFlight, Settled
    <3> QED
      BY <1>2, <3>2, <3>3, <3>4, <3>5, Effect
  <2>2. CASE n # m
    <3>1. mut'[n] = mut[n]
      BY <1>2, <2>2, Frame
    <3>2. entry[mut[n].req] = n
      BY <2>0, <3>1 DEF Reserved
    <3>3. mut[n].req \in Requests /\ mut[m].req \in Requests
      BY <2>0 DEF Mutation
    <3>4. CASE mut[n].req # mut[m].req
      BY <1>2, <3>1, <3>2, <3>3, <3>4, Frame
    <3>5. CASE mut[n].req = mut[m].req
      <4>1. entry[mut[m].req] = n /\ n # NoMutation
        BY <3>2, <3>5
      <4>2. entry' = entry
        BY <1>2, <2>2, <4>1, Effect DEF Taken, Moved, Released, Reacted
      <4> QED
        BY <3>1, <3>2, <4>2
    <3> QED
      BY <3>4, <3>5
  <2> QED
    BY <2>1, <2>2
<1> QED
  BY <1>1, <1>2, NextCases

\* Reservations stay with live mutations of their Request.
LEMMA EntryOwnedKept ==
  ASSUME TypeOK, KindsOK, EntryOwned, Next
  PROVE  EntryOwned'
<1>1. CASE ViewStep
  <2>1. \A r \in Requests : entry'[r] # NoMutation => entry'[r] = entry[r] /\ entry[r] \in Mutations
    BY <1>1 DEF ViewStep, Open, Leave, ClickRefresh, Lock, EndSession, ServeList, ReceiveList,
                ReceiveDetails, FailRead, TypeOK
  <2>2. \A r \in Requests : entry'[r] # NoMutation =>
          /\ mut'[entry'[r]].req = r
          /\ mut'[entry'[r]].phase \notin {"unborn", "over"}
          /\ ~mut'[entry'[r]].reconciled
    BY <1>1, <2>1, ViewFrame DEF EntryOwned, SamePhases
  <2>3. ASSUME session' # "open", NEW m \in Mutations, HasDialog(m)'
        PROVE  entry'[mut'[m].req] # m
    <3>1. mut'[m].req = mut[m].req /\ HasDialog(m) /\ mut[m].req \in Requests
      BY <1>1, <2>3, ViewFrame DEF SamePhases, HasDialog, TypeOK, Mutation
    <3>2. CASE session # "open"
      BY <2>1, <3>1, <3>2 DEF EntryOwned
    <3>3. CASE Lock
      BY <3>1, <3>3 DEF Lock, HasDialog
    <3>4. CASE EndSession
      BY <3>1, <3>4 DEF EndSession
    <3>5. session # "open" \/ Lock \/ EndSession
      BY <1>1, <2>3 DEF ViewStep, Open, Leave, ClickRefresh, ServeList, ReceiveList,
                        ReceiveDetails, FailRead
    <3> QED
      BY <3>2, <3>3, <3>4, <3>5
  <2> QED
    BY <2>2, <2>3 DEF EntryOwned
<1>2. ASSUME NEW m \in Mutations, MutationStep(m) PROVE EntryOwned'
  <2>0. /\ mut[m] \in Mutation /\ mut[m].req \in Requests
        /\ entry \in [Requests -> Mutations \cup {NoMutation}]
    BY DEF TypeOK, Mutation
  <2>1. ASSUME NEW r \in Requests, entry'[r] # NoMutation
        PROVE  /\ mut'[entry'[r]].req = r
               /\ mut'[entry'[r]].phase \notin {"unborn", "over"}
               /\ ~mut'[entry'[r]].reconciled
    <3>1. CASE entry'[r] # m
      <4>1. entry'[r] = entry[r]
        BY <1>2, <2>0, <2>1, <3>1, Effect DEF Taken, Moved, Released, Reacted
      <4>2. mut'[entry[r]] = mut[entry[r]]
        BY <1>2, <2>0, <2>1, <3>1, <4>1, Frame
      <4> QED
        BY <2>1, <4>1, <4>2 DEF EntryOwned
    <3>2. CASE entry'[r] = m
      <4>0. mut'[m].req = mut[m].req
        BY <1>2, Frame
      <4>1. CASE Taken(m)
        <5>1. r = mut[m].req
          BY <2>0, <3>2, <4>1 DEF Taken, EntryOwned
        <5> QED
          BY <3>2, <4>0, <4>1, <5>1 DEF Taken, KindsOK, Settled
      <4>2. CASE Moved(m)
        <5>1. entry[r] = m /\ mut[m].req = r /\ ~mut[m].reconciled
          BY <3>2, <4>2 DEF Moved, EntryOwned
        <5>2. mut'[m].phase \notin {"unborn", "over"}
          BY <4>2, <5>1 DEF Moved, EntryOwned, HasDialog, InFlight, Settled
        <5> QED
          BY <3>2, <4>0, <4>2, <5>1, <5>2 DEF Moved
      <4>3. CASE Released(m)
        BY <2>0, <3>2, <4>3 DEF Released, EntryOwned
      <4>4. CASE Reacted(m)
        <5>1. entry[r] = m /\ entry[mut[m].req] = m /\ entry' = entry
          BY <2>0, <3>2, <4>4 DEF Reacted, EntryOwned
        <5>2. mut'[m].reconciled = mut[m].reconciled
          BY <2>0, <4>4, <5>1 DEF Reacted
        <5> QED
          BY <3>2, <4>0, <4>4, <5>1, <5>2 DEF Reacted, EntryOwned
      <4> QED
        BY <1>2, <4>1, <4>2, <4>3, <4>4, Effect
    <3> QED
      BY <3>1, <3>2
  <2>2. ASSUME session' # "open", NEW n \in Mutations, HasDialog(n)'
        PROVE  entry'[mut'[n].req] # n
    <3>0. session # "open" /\ mut[n].req \in Requests
      BY <1>2, <2>2, Frame DEF TypeOK, Mutation
    <3>1. ~Taken(m) /\ mut'[n].req = mut[n].req
      BY <1>2, <3>0, Frame DEF Taken
    <3>2. HasDialog(n)
      <4>1. CASE n # m
        BY <1>2, <2>2, <4>1, Frame DEF HasDialog
      <4>2. CASE n = m
        BY <1>2, <2>2, <3>0, <3>1, <4>2, Frame, Effect
           DEF HasDialog, Moved, Released, Reacted, InFlight, Settled
      <4> QED
        BY <4>1, <4>2
    <3>3. entry[mut[n].req] # n
      BY <3>0, <3>2 DEF EntryOwned
    <3>4. entry'[mut[n].req] \in {entry[mut[n].req], NoMutation}
      BY <1>2, <2>0, <3>0, <3>1, Effect DEF Moved, Released, Reacted
    <3> QED
      BY <3>1, <3>3, <3>4
  <2> QED
    BY <2>1, <2>2 DEF EntryOwned
<1> QED
  BY <1>1, <1>2, NextCases

\* Two on the wire would both hold the reservation.
LEMMA OneMutationKept ==
  ASSUME TypeOK, KindsOK, Reserved, EntryOwned, OneMutationInFlight, Next
  PROVE  OneMutationInFlight'
<1>1. CASE ViewStep
  BY <1>1, ViewFrame DEF OneMutationInFlight, SamePhases
<1>2. ASSUME NEW m \in Mutations, MutationStep(m) PROVE OneMutationInFlight'
  <2>1. CASE session' = "open"
    BY <2>1, ReservedKept DEF Reserved, OneMutationInFlight
  <2>2. CASE session' # "open"
    <3>1. session # "open" /\ ~Taken(m)
      BY <1>2, <2>2, Frame DEF Taken
    <3>2. \A n \in Mutations : mut'[n].phase \in InFlight => mut[n].phase \in InFlight
      <4>1. mut'[m].phase \in InFlight => mut[m].phase \in InFlight
        BY <1>2, <3>1, Effect DEF Moved, Released, Reacted, InFlight, Settled
      <4> QED
        BY <1>2, <4>1, Frame
    <3>3. \A n \in Mutations : mut'[n].req = mut[n].req
      BY <1>2, Frame
    <3> QED
      BY <3>2, <3>3 DEF OneMutationInFlight
  <2> QED
    BY <2>1, <2>2
<1> QED
  BY <1>1, <1>2, NextCases

\* An outcome is announced by the step that reconciles it.
LEMMA AnnouncedKept ==
  ASSUME TypeOK, KindsOK, Announced, Next
  PROVE  Announced'
<1>1. CASE ViewStep
  BY <1>1, ViewFrame DEF Announced, SamePhases
<1>2. ASSUME NEW m \in Mutations, MutationStep(m) PROVE Announced'
  <2>0. mut[m] \in Mutation /\ mut[m].reports \in Nat
    BY DEF TypeOK, Mutation
  <2>1. /\ mut'[m].reports <= 1
        /\ mut'[m].reports = 1 => mut'[m].reconciled \/ mut'[m].phase = "over"
    <3>1. CASE Taken(m)
      BY <2>0, <3>1 DEF Taken, Announced, KindsOK, Settled
    <3>2. CASE Moved(m)
      BY <2>0, <3>2 DEF Moved, Announced, KindsOK, Settled, InFlight
    <3>3. CASE Released(m)
      <4>1. mut[m].reports = 0
        BY <2>0, <3>3 DEF Released, Announced, KindsOK, Settled, InFlight
      <4> QED
        BY <3>3, <4>1 DEF Released
    <3>4. CASE Reacted(m)
      <4>1. CASE ~mut[m].reconciled /\ mut'[m].reconciled /\ mut'[m].reports = mut[m].reports + 1
        <5>1. mut[m].reports = 0
          BY <2>0, <3>4, <4>1 DEF Reacted, Announced, Settled
        <5> QED
          BY <4>1, <5>1
      <4>2. CASE mut'[m].reconciled = mut[m].reconciled /\ mut'[m].reports = mut[m].reports
        BY <3>4, <4>2 DEF Reacted, Announced, Settled
      <4> QED
        BY <3>4, <4>1, <4>2 DEF Reacted
    <3> QED
      BY <1>2, <3>1, <3>2, <3>3, <3>4, Effect
  <2> QED
    BY <1>2, <2>1, Frame DEF Announced
<1> QED
  BY <1>1, <1>2, NextCases

\* Usable controls are those of a committed projection.
LEMMA InteractiveKept ==
  ASSUME interactive => committed, TypeOK, Next
  PROVE  interactive' => committed'
<1>1. CASE ViewStep
  <2>1. CASE ClickRefresh
    BY <2>1 DEF ClickRefresh, Refresh
  <2>2. ASSUME NEW x \in reads, ReceiveDetails(x) PROVE interactive' => committed'
    BY <2>2 DEF ReceiveDetails
  <2>3. ASSUME NEW x \in reads, FailRead(x) PROVE interactive' => committed'
    BY <2>3 DEF FailRead
  <2> QED
    BY <1>1, <2>1, <2>2, <2>3 DEF ViewStep, Open, Leave, Lock, EndSession, ServeList,
                                  ReceiveList, viewVars
<1>2. ASSUME NEW m \in Mutations, MutationStep(m) PROVE interactive' => committed'
  BY <1>2, ViewKept
<1> QED
  BY <1>1, <1>2, NextCases

\* New cards follow the cancels that are reserved, and these stay followed.
LEMMA FollowedKept ==
  ASSUME TypeOK, KindsOK, EntryOwned, Followed, Next
  PROVE  Followed'
<1>1. CASE ViewStep
  <2>1. ASSUME NEW x \in reads, ReceiveDetails(x), IsCurrent(x) PROVE Followed'
    <3>1. mut' = Attached /\ UNCHANGED <<connected, session, entry>>
      BY <2>1 DEF ReceiveDetails
    <3>2. connected
      BY <2>1 DEF IsCurrent, Active
    <3>3. \A r \in Requests : entry[r] # NoMutation /\ mut'[entry[r]].kind = "cancel"
                               => mut'[entry[r]].handlers > 0
      <4> SUFFICES ASSUME NEW r \in Requests, entry[r] # NoMutation,
                          mut'[entry[r]].kind = "cancel"
                   PROVE  mut'[entry[r]].handlers > 0
        OBVIOUS
      <4>1. entry[r] \in Mutations /\ mut[entry[r]] \in Mutation
        BY DEF TypeOK
      <4>2. mut[entry[r]].req = r /\ mut[entry[r]].kind = "cancel"
        BY <4>1, <3>1, <2>1, ViewFrame DEF EntryOwned, ViewStep, SamePhases
      <4>3. mut'[entry[r]].handlers = mut[entry[r]].handlers + 1
        BY <3>1, <4>1, <4>2 DEF Attached, Mutation
      <4> QED
        BY <4>1, <4>3 DEF Mutation
    <3> QED
      BY <3>1, <3>2, <3>3 DEF Followed
  <2>2. ASSUME NEW x \in reads, \/ ReceiveDetails(x) /\ ~IsCurrent(x)
                                \/ FailRead(x) \/ ServeList(x) \/ ReceiveList(x)
        PROVE  Followed'
    <3>1. UNCHANGED <<session, connected, entry, mut>>
      BY <2>2 DEF ReceiveDetails, FailRead, ServeList, ReceiveList
    <3>2. committed' => committed
      BY <2>2 DEF ReceiveDetails, FailRead, ServeList, ReceiveList
    <3> QED
      BY <3>1, <3>2 DEF Followed, Active
  <2>3. CASE Open
    BY <2>3 DEF Open, Followed
  <2>4. CASE Leave \/ EndSession
    BY <2>4 DEF Leave, EndSession, Followed, Active
  <2>5. CASE Lock
    BY <2>5 DEF Lock, Followed, Active, viewVars
  <2>6. CASE ClickRefresh
    BY <2>6 DEF ClickRefresh, Refresh, Followed, Active
  <2> QED
    BY <1>1, <2>1, <2>2, <2>3, <2>4, <2>5, <2>6 DEF ViewStep
<1>2. ASSUME NEW m \in Mutations, MutationStep(m) PROVE Followed'
  <2>1. UNCHANGED <<connected, committed, session>>
    BY <1>2, ViewKept, Frame
  <2>2. ASSUME Active, committed, NEW r \in Requests, entry'[r] # NoMutation,
               mut'[entry'[r]].kind = "cancel"
        PROVE  mut'[entry'[r]].handlers > 0
    <3>0. /\ mut[m] \in Mutation /\ mut[m].req \in Requests
          /\ entry \in [Requests -> Mutations \cup {NoMutation}]
      BY DEF TypeOK, Mutation
    <3>1. CASE entry'[r] # m
      <4>1. entry'[r] = entry[r]
        BY <1>2, <2>2, <3>0, <3>1, Effect DEF Taken, Moved, Released, Reacted
      <4>2. mut'[entry[r]] = mut[entry[r]]
        BY <1>2, <2>2, <3>0, <3>1, <4>1, Frame
      <4> QED
        BY <2>2, <4>1, <4>2 DEF Followed
    <3>2. CASE entry'[r] = m
      <4>0. mut[m].kind = "cancel"
        BY <1>2, <2>2, <3>2, Frame
      <4>1. CASE Taken(m)
        BY <3>2, <4>0, <4>1 DEF Taken
      <4>2. CASE Moved(m)
        BY <2>2, <3>2, <4>0, <4>2 DEF Moved, Followed
      <4>3. CASE Released(m)
        BY <4>0, <4>3 DEF Released
      <4>4. CASE Reacted(m)
        BY <2>2, <3>0, <3>2, <4>4 DEF Reacted, EntryOwned
      <4> QED
        BY <1>2, <4>1, <4>2, <4>3, <4>4, Effect
    <3> QED
      BY <3>1, <3>2
  <2> QED
    BY <2>1, <2>2 DEF Followed, Active
<1> QED
  BY <1>1, <1>2, NextCases

\* A refresh begins with a read that is newer than all others and empty.
LEMMA NewReadKept ==
  ASSUME TypeOK, ReadsOK, NEW f \in BOOLEAN,
         generation' = generation + 1, reads' = reads \cup {NewRead(f)},
         shown' = shown, version' = version
  PROVE  ReadsOK'
<1>1. /\ NewRead(f).generation = generation + 1
      /\ NewRead(f).cards = NoCards
  BY NewReadType
<1>2. generation \in Nat /\ \A x \in reads : x.generation \in Nat
  BY DEF TypeOK, Read
<1>3. \A x \in reads' : x.generation <= generation'
  BY <1>1, <1>2 DEF ReadsOK
<1>4. \A x, y \in reads' : x.generation = y.generation => x = y
  BY <1>1, <1>2 DEF ReadsOK
<1>5. \A x \in reads' : x.cards # NoCards => \A r \in Requests : x.cards[r] <= version'[r]
  BY <1>1 DEF ReadsOK
<1>6. shown' # NoCards => \A r \in Requests : shown'[r] <= version'[r]
  BY DEF ReadsOK
<1>7. \A x \in reads' : x.cards # NoCards => x.generation # generation'
  BY <1>1, <1>2 DEF ReadsOK
<1> QED
  BY <1>3, <1>4, <1>5, <1>6, <1>7 DEF ReadsOK

\* A read is replaced by one of its generation, or by none, while the cards stay.
LEMMA SwapKept ==
  ASSUME TypeOK, ReadsOK, NEW x \in reads, NEW s, reads' \subseteq (reads \ {x}) \cup {s},
         s.generation = x.generation, s.cards \in {x.cards, version},
         generation' = generation, version' = version, shown' \in {shown, NoCards}
  PROVE  ReadsOK'
<1>0. version \in Snapshots /\ \A r \in Requests : version[r] \in Nat
  BY DEF TypeOK, Snapshots
<1>1. \A y \in reads' : y.generation <= generation'
  BY DEF ReadsOK
<1>2. \A y, z \in reads' : y.generation = z.generation => y = z
  BY DEF ReadsOK
<1>3. \A y \in reads' : y.cards # NoCards => \A r \in Requests : y.cards[r] <= version'[r]
  <2>1. s.cards # NoCards => \A r \in Requests : s.cards[r] <= version[r]
    BY <1>0 DEF ReadsOK
  <2> QED
    BY <2>1 DEF ReadsOK
<1>4. shown' # NoCards => \A r \in Requests : shown'[r] <= version'[r]
  BY DEF ReadsOK
<1>5. \A y \in reads' : y.cards # NoCards /\ shown' # NoCards /\ y.generation = generation'
        => \A r \in Requests : shown'[r] <= y.cards[r]
  <2>1. s.cards # NoCards /\ shown # NoCards /\ s.generation = generation
          => \A r \in Requests : shown[r] <= s.cards[r]
    BY DEF ReadsOK
  <2> QED
    BY <2>1 DEF ReadsOK
<1> QED
  BY <1>1, <1>2, <1>3, <1>4, <1>5 DEF ReadsOK

\* So does a refresh of the shown surface.
LEMMA RefreshReadsKept ==
  ASSUME TypeOK, ReadsOK, version' = version, NEW f \in BOOLEAN, Refresh(f)
  PROVE  ReadsOK'
  BY NewReadKept DEF Refresh

\* Reads stay distinct, of the past, and the current one is not behind the cards.
LEMMA ReadsKept ==
  ASSUME TypeOK, ReadsOK, Next
  PROVE  ReadsOK'
<1>1. CASE ViewStep
  <2>1. CASE Open
    BY <2>1, NewReadKept DEF Open
  <2>2. CASE Leave \/ EndSession
    BY <2>2 DEF Leave, EndSession, ReadsOK
  <2>3. CASE Lock
    BY <2>3 DEF Lock, viewVars, ReadsOK
  <2>4. CASE ClickRefresh
    BY <2>4, RefreshReadsKept DEF ClickRefresh
  <2>5. ASSUME NEW x \in reads, ServeList(x) PROVE ReadsOK'
    <3> DEFINE s == [x EXCEPT !.phase = "listed", !.cards = version]
    <3>1. s.generation = x.generation /\ s.cards = version
      BY DEF TypeOK, Read
    <3>2. reads' = (reads \ {x}) \cup {s}
      BY <2>5 DEF ServeList
    <3> HIDE DEF s
    <3> QED
      BY <2>5, <3>1, <3>2, SwapKept DEF ServeList
  <2>6. ASSUME NEW x \in reads, ReceiveList(x) PROVE ReadsOK'
    <3> DEFINE s == [x EXCEPT !.phase = "details"]
    <3>1. s.generation = x.generation /\ s.cards = x.cards
      BY DEF TypeOK, Read
    <3>2. reads' \subseteq (reads \ {x}) \cup {s}
      BY <2>6 DEF ReceiveList
    <3> HIDE DEF s
    <3> QED
      BY <2>6, <3>1, <3>2, SwapKept DEF ReceiveList
  <2>7. ASSUME NEW x \in reads, FailRead(x) PROVE ReadsOK'
    <3>1. shown' \in {shown, NoCards}
      BY <2>7 DEF FailRead
    <3> QED
      BY <2>7, <3>1, SwapKept DEF FailRead
  <2>8. ASSUME NEW x \in reads, ReceiveDetails(x) PROVE ReadsOK'
    <3>1. CASE IsCurrent(x)
      <4>1. /\ x.generation = generation /\ shown' = x.cards /\ reads' = reads \ {x}
            /\ UNCHANGED <<generation, version>>
        BY <2>8, <3>1 DEF ReceiveDetails, IsCurrent
      <4> QED
        BY <4>1 DEF ReadsOK
    <3>2. CASE ~IsCurrent(x)
      BY <2>8, <3>2, SwapKept DEF ReceiveDetails
    <3> QED
      BY <3>1, <3>2
  <2> QED
    BY <1>1, <2>1, <2>2, <2>3, <2>4, <2>5, <2>6, <2>7, <2>8 DEF ViewStep
<1>2. ASSUME NEW m \in Mutations, MutationStep(m) PROVE ReadsOK'
  <2>1. CASE Serve(m)
    <3>0. /\ \A r \in Requests : version[r] \in Nat
          /\ \A x \in reads : x.cards # NoCards => \A r \in Requests : x.cards[r] \in Nat
          /\ shown # NoCards => \A r \in Requests : shown[r] \in Nat
      BY DEF TypeOK, Snapshots, Read
    <3>1. \A r \in Requests : version[r] <= version'[r]
      BY <2>1, <3>0 DEF Serve, TypeOK, Snapshots
    <3>2. UNCHANGED <<generation, reads, shown>>
      BY <2>1 DEF Serve, viewVars
    <3>3. \A r \in Requests : version'[r] \in Nat
      BY <2>1, MutationStepType DEF TypeOK, Snapshots
    <3>4. \A x \in reads' : x.cards # NoCards => \A r \in Requests : x.cards[r] <= version'[r]
      BY <3>0, <3>1, <3>2, <3>3 DEF ReadsOK
    <3>5. shown' # NoCards => \A r \in Requests : shown'[r] <= version'[r]
      BY <3>0, <3>1, <3>2, <3>3 DEF ReadsOK
    <3> QED
      BY <3>2, <3>4, <3>5 DEF ReadsOK
  <2>2. CASE ~Serve(m)
    <3>1. version' = version
      BY <1>2, <2>2 DEF MutationStep, User, Answer, Cancel, Change, OpenDialog,
         AbortPreparation, Propose, Dismiss, CancelAccepted, CancelFails, React,
         ProposalAccepted, ProposalFails
    <3>2. Refresh(TRUE) \/ UNCHANGED viewVars
      BY <1>2 DEF MutationStep, User, Answer, Cancel, Change, OpenDialog,
         AbortPreparation, Propose, Dismiss, Serve, CancelAccepted, CancelFails, React,
         ProposalAccepted, ProposalFails, ReleaseProposal, RefreshIfActive
    <3>3. CASE UNCHANGED viewVars
      BY <3>1, <3>3 DEF viewVars, ReadsOK
    <3> QED
      BY <3>1, <3>2, <3>3, RefreshReadsKept
  <2> QED
    BY <2>1, <2>2
<1> QED
  BY <1>1, <1>2, NextCases

-----------------------------------------------------------------------------
(* The theorems *)

\* The initial states satisfy the invariant.
LEMMA InitIInv == Init => IInv
<1> SUFFICES ASSUME Init PROVE IInv
  OBVIOUS
<1>1. TypeOK
  BY InitType
<1>2. \A m \in Mutations : /\ mut[m].phase = "unborn"
                           /\ ~mut[m].reconciled
                           /\ mut[m].reports = 0
  BY DEF Init, Unborn
<1>3. KindsOK /\ OneMutationInFlight
  BY <1>2 DEF KindsOK, OneMutationInFlight, InFlight, Settled
<1>4. Reserved
  BY <1>2 DEF Reserved, InFlight
<1>5. \A r \in Requests : entry[r] = NoMutation
  BY DEF Init
<1>6. EntryOwned
  BY <1>5 DEF EntryOwned, Init
<1>7. Followed /\ (interactive => committed)
  BY DEF Followed, Init
<1>8. Announced
  BY <1>2 DEF Announced
<1>9. ReadsOK
  BY DEF ReadsOK, Init
<1> QED
  BY <1>1, <1>3, <1>4, <1>6, <1>7, <1>8, <1>9 DEF IInv

\* Every step keeps it.
LEMMA NextIInv == IInv /\ [Next]_vars => IInv'
<1> SUFFICES ASSUME IInv, [Next]_vars PROVE IInv'
  OBVIOUS
<1>1. CASE Next
  BY <1>1, NextType, KindsKept, ReservedKept, EntryOwnedKept, OneMutationKept,
     InteractiveKept, FollowedKept, AnnouncedKept, ReadsKept DEF IInv
<1>2. CASE UNCHANGED vars
  <2>1. TypeOK'
    BY <1>2, NextType DEF IInv
  <2>2. /\ UNCHANGED <<session, connected, generation, committed, interactive, shown>>
        /\ UNCHANGED <<reads, entry, mut, version, told>>
    BY <1>2 DEF vars, viewVars
  <2>3. KindsOK' /\ OneMutationInFlight' /\ Announced'
    BY <2>2 DEF IInv, KindsOK, OneMutationInFlight, Announced
  <2>4. Reserved' /\ EntryOwned'
    BY <2>2 DEF IInv, Reserved, EntryOwned, HasDialog
  <2>5. Followed'
    BY <2>2 DEF IInv, Followed, Active
  <2>6. ReadsOK'
    BY <2>2 DEF IInv, ReadsOK
  <2> QED
    BY <2>1, <2>2, <2>3, <2>4, <2>5, <2>6 DEF IInv
<1> QED
  BY <1>1, <1>2

\* It holds in every reachable state.
LEMMA Invariant == Spec => []IInv
  BY InitIInv, NextIInv, PTL DEF Spec

\* No two mutations of one Request are ever on the wire.
THEOREM OneMutationAtATime == Spec => []OneMutationInFlight
<1>1. IInv => OneMutationInFlight
  BY DEF IInv
<1> QED
  BY <1>1, Invariant, PTL

\* No outcome is announced twice.
THEOREM OutcomesReportedOnce == Spec => []ReportedOnce
<1>1. IInv => ReportedOnce
  BY DEF IInv, Announced, ReportedOnce
<1> QED
  BY <1>1, Invariant, PTL

\* What a list with usable controls keeps reserved is under way: a cancel that settled
\* had a reaction of this list, and Quiet says it has been taken.
THEOREM ReservationsAreLive == Spec => []NoLeakedReservation
<1>1. IInv => NoLeakedReservation
  <2> SUFFICES ASSUME IInv, Quiet, Active, interactive, NEW r \in Requests,
                      entry[r] # NoMutation
               PROVE  mut[entry[r]].phase \in {"preparing", "dialog"} \cup InFlight
    BY DEF NoLeakedReservation
  <2>1. entry[r] \in Mutations /\ mut[entry[r]] \in Mutation
    BY DEF IInv, TypeOK
  <2>2. mut[entry[r]].phase \notin {"unborn", "over"}
    BY DEF IInv, EntryOwned
  <2>3. mut[entry[r]].phase \notin Settled
    <3> SUFFICES ASSUME mut[entry[r]].phase \in Settled PROVE FALSE
      OBVIOUS
    <3>1. mut[entry[r]].kind = "cancel"
      BY <2>1 DEF IInv, KindsOK, Mutation
    <3>2. mut[entry[r]].handlers = 0
      BY <2>1 DEF Quiet
    <3>3. mut[entry[r]].handlers > 0
      BY <3>1 DEF IInv, Followed
    <3> QED
      BY <3>2, <3>3
  <2> QED
    BY <2>1, <2>2, <2>3 DEF Mutation
<1> QED
  BY <1>1, Invariant, PTL

\* The cards of a list that stays never go back to an older version of a Request.
THEOREM CardsNeverGoBack == Spec => NeverBackwards
<1> DEFINE Forward == shown # NoCards /\ shown' # NoCards
                        => \A r \in Requests : shown[r] <= shown'[r]
<1>1. IInv /\ [Next]_vars => [Forward]_vars
  <2> SUFFICES ASSUME IInv, Next, shown # NoCards, shown' # NoCards, NEW r \in Requests
               PROVE  shown[r] <= shown'[r]
    OBVIOUS
  <2>0. shown \in Snapshots /\ shown[r] \in Nat
    BY DEF IInv, TypeOK, Snapshots
  <2>1. CASE shown' = shown
    BY <2>0, <2>1
  <2>2. ASSUME NEW x \in reads, ReceiveDetails(x), IsCurrent(x)
        PROVE  shown[r] <= shown'[r]
    <3>1. shown' = x.cards /\ x.generation = generation /\ x.cards # NoCards
      BY <2>2 DEF ReceiveDetails, IsCurrent, IInv, TypeOK
    <3> QED
      BY <3>1 DEF IInv, ReadsOK
  <2>3. shown' = shown \/ \E x \in reads : ReceiveDetails(x) /\ IsCurrent(x)
    <3>1. CASE ViewStep
      <4>1. ASSUME NEW x \in reads, FailRead(x) PROVE shown' = shown
        BY <4>1 DEF FailRead
      <4> QED
        BY <3>1, <4>1 DEF ViewStep, Open, Leave, ClickRefresh, Refresh, Lock, EndSession,
                          ServeList, ReceiveList, ReceiveDetails, viewVars
    <3>2. ASSUME NEW m \in Mutations, MutationStep(m) PROVE shown' = shown
      BY <3>2, ViewKept DEF IInv
    <3> QED
      BY <3>1, <3>2, NextCases
  <2> QED
    BY <2>1, <2>2, <2>3
<1> QED
  BY <1>1, Invariant, PTL DEF Spec, NeverBackwards


-----------------------------------------------------------------------------
(* InteractiveIsReconciled does not hold of every behaviour: a refresh of the user's
   may take the place of the one that follows a mutation, and when it fails it gives
   back cards of before the mutation.  Nothing else breaks it. *)

\* The user has the list read again while it is read for a mutation that was reconciled
RefreshOverReconciling == ClickRefresh /\ \E x \in reads : IsCurrent(x) /\ x.focus

\* A cancel of r succeeded, and its reconciliation is due: the cards follow it
Due(r) == entry[r] # NoMutation /\ mut[entry[r]].phase = "done"

\* What the tab was told, or will be, is in the backend's past
ToldPast == /\ \A r \in Requests : told[r] <= version[r]
            /\ \A m \in Mutations : mut[m].phase = "accepted"
                                    => mut[m].expected + 1 <= version[mut[m].req]

\* Usable controls wait for no read
NoneAwaited == interactive => \A x \in reads : x.generation # generation

\* The snapshot of a list, or of the present read, is as new as all that was told but
\* what is due
IsNew(cards) == \A r \in Requests : told[r] <= cards[r] \/ Due(r)

NewRequestsRead  == \A x \in reads : IsCurrent(x) /\ x.cards # NoCards => IsNew(x.cards)

NewRequestsShown == Active /\ committed /\ (\A x \in reads : IsCurrent(x) => ~x.focus)
                    => IsNew(shown)

NewInv == ToldPast /\ NoneAwaited /\ NewRequestsRead /\ NewRequestsShown

\* Versions grow, and an answer names the version that its mutation made.
LEMMA ToldPastStep ==
  ASSUME TypeOK, ToldPast, Next
  PROVE  ToldPast'
<1>0. /\ mut \in [Mutations -> Mutation]
      /\ version \in [Requests -> Nat] /\ told \in [Requests -> Nat]
  BY DEF TypeOK, Snapshots
<1>1. CASE ViewStep
  <2>1. UNCHANGED <<version, told>>
    BY <1>1 DEF ViewStep, Open, Leave, ClickRefresh, Lock, EndSession, ServeList,
                ReceiveList, ReceiveDetails, FailRead
  <2>2. \A m \in Mutations : /\ mut'[m].req = mut[m].req /\ mut'[m].phase = mut[m].phase
                             /\ mut'[m].expected = mut[m].expected
    BY <1>1, ViewFrame DEF SamePhases
  <2> QED
    BY <2>1, <2>2 DEF ToldPast
<1>2. ASSUME NEW m \in Mutations, MutationStep(m) PROVE ToldPast'
  <2>0. mut[m] \in Mutation
    BY <1>0
  <2>1. /\ \A n \in Mutations : n # m => mut'[n] = mut[n]
        /\ mut'[m].req = mut[m].req
    BY <1>2, Frame
  <2>2. CASE Serve(m)
    <3>1. told' = told /\ mut'[m].expected = mut[m].expected
      BY <1>0, <2>0, <2>2 DEF Serve, Mutation
    <3>2. \A r \in Requests : version[r] <= version'[r]
      BY <1>0, <2>0, <2>2 DEF Serve, Mutation
    <3>3. mut'[m].phase = "accepted" => mut[m].expected + 1 <= version'[mut[m].req]
      BY <1>0, <2>0, <2>2 DEF Serve, Mutation
    <3>4. version' \in [Requests -> Nat]
      BY NextType DEF TypeOK, Snapshots
    <3>5. \A r \in Requests : told'[r] <= version'[r]
      BY <1>0, <3>1, <3>2, <3>4 DEF ToldPast
    <3>6. ASSUME NEW n \in Mutations, mut'[n].phase = "accepted", n # m
          PROVE  mut'[n].expected + 1 <= version'[mut'[n].req]
      <4>1. mut[n].req \in Requests /\ mut[n].expected \in Nat
        BY <1>0 DEF Mutation
      <4> QED
        BY <1>0, <2>1, <3>2, <3>4, <3>6, <4>1 DEF ToldPast
    <3> QED
      BY <2>1, <3>1, <3>3, <3>5, <3>6 DEF ToldPast
  <2>3. CASE CancelAccepted(m) \/ ProposalAccepted(m)
    <3>1. mut[m].phase = "accepted" /\ Tell(m) /\ version' = version
      BY <2>3 DEF CancelAccepted, ProposalAccepted
    <3>2. mut'[m].phase # "accepted"
      BY <1>0, <2>0, <2>3 DEF CancelAccepted, ProposalAccepted, Mutation
    <3>3. \A r \in Requests : told'[r] <= version[r]
      BY <1>0, <2>0, <3>1 DEF ToldPast, Tell, Mutation
    <3> QED
      BY <2>1, <3>1, <3>2, <3>3 DEF ToldPast
  <2>4. CASE ~Serve(m) /\ ~CancelAccepted(m) /\ ~ProposalAccepted(m)
    <3>1. UNCHANGED <<version, told>>
      BY <1>2, <2>4 DEF MutationStep, User, Answer, Cancel, Change, OpenDialog,
         AbortPreparation, Propose, Dismiss, CancelFails, React, ProposalFails
    <3>2. mut'[m].phase # "accepted"
      <4>1. CASE React(m)
        <5>1. mut[m].phase \in Settled
          BY <4>1 DEF React
        <5>2. mut'[m].phase = mut[m].phase
          <6>1. CASE Active /\ ~mut[m].reconciled
            BY <1>0, <2>0, <4>1, <6>1 DEF React, Mutation
          <6>2. CASE ~(Active /\ ~mut[m].reconciled)
            BY <1>0, <2>0, <4>1, <6>2 DEF React, Mutation
          <6> QED
            BY <6>1, <6>2
        <5> QED
          BY <5>1, <5>2 DEF Settled
      <4>2. CASE ProposalFails(m) \/ CancelFails(m) \/ OpenDialog(m) \/ AbortPreparation(m)
        BY <1>0, <2>0, <4>2 DEF ProposalFails, CancelFails, OpenDialog, AbortPreparation, Mutation
      <4>3. CASE User(m)
        BY <1>0, <2>0, <4>3 DEF User, Cancel, Change, Propose, Dismiss, Mutation
      <4> QED
        BY <1>2, <2>4, <4>1, <4>2, <4>3 DEF MutationStep, Answer
    <3> QED
      BY <2>1, <3>1, <3>2 DEF ToldPast
  <2> QED
    BY <2>2, <2>3, <2>4
<1> QED
  BY <1>1, <1>2, NextCases

\* A mutation's step has the list read anew, or leaves it.
LEMMA RefreshOrNot ==
  ASSUME NEW m \in Mutations, MutationStep(m)
  PROVE  Refresh(TRUE) \/ UNCHANGED viewVars
  BY DEF MutationStep, User, Answer, Cancel, Change, OpenDialog, AbortPreparation, Propose,
         Dismiss, Serve, CancelAccepted, CancelFails, React, ProposalAccepted, ProposalFails,
         ReleaseProposal, RefreshIfActive

\* If it leaves the list, then what is told is due, and what is due remains so.
LEMMA DueKept ==
  ASSUME IInv, NEW m \in Mutations, MutationStep(m), UNCHANGED viewVars, Active,
         NEW r \in Requests
  PROVE  Due(r)' \/ (told'[r] = told[r] /\ ~Due(r))
<1>0. /\ TypeOK /\ KindsOK /\ mut[m] \in Mutation /\ session = "open"
      /\ told \in [Requests -> Nat] /\ generation \in Nat
      /\ mut \in [Mutations -> Mutation]
      /\ entry \in [Requests -> Mutations \cup {NoMutation}]
  BY DEF IInv, TypeOK, Snapshots, Active
<1>1. ~Refresh(TRUE)
  <2>1. generation' = generation
    BY DEF viewVars
  <2> SUFFICES ASSUME Refresh(TRUE) PROVE FALSE
    OBVIOUS
  <2>2. generation' = generation + 1
    BY DEF Refresh
  <2>3. generation \in Nat
    BY <1>0
  <2> QED
    BY <2>1, <2>2, <2>3
<1>2. CASE CancelAccepted(m)
  <2>1. entry[mut[m].req] = m /\ entry' = entry
    BY <1>0, <1>2 DEF CancelAccepted, IInv, Reserved, InFlight
  <2>2. mut'[m].phase = "done"
    BY <1>0, <1>2 DEF CancelAccepted
  <2>3. CASE r = mut[m].req
    BY <2>1, <2>2, <2>3 DEF Due
  <2>4. CASE r # mut[m].req
    <3>1. told'[r] = told[r]
      BY <1>0, <1>2, <2>4 DEF CancelAccepted, Tell
    <3>2. Due(r) => mut'[entry[r]] = mut[entry[r]]
      BY <1>0, <1>2, <2>4, Frame DEF Due, IInv, EntryOwned
    <3> QED
      BY <2>1, <3>1, <3>2 DEF Due
  <2> QED
    BY <2>3, <2>4
<1>3. CASE ~CancelAccepted(m)
  <2>1. ~ProposalAccepted(m)
    <3> SUFFICES ASSUME ProposalAccepted(m) PROVE FALSE
      OBVIOUS
    <3>1. entry[mut[m].req] = m
      BY <1>0 DEF ProposalAccepted, IInv, Reserved, InFlight
    <3> QED
      BY <1>0, <1>1, <3>1 DEF ProposalAccepted, ReleaseProposal, RefreshIfActive
  <2>2. told' = told
    BY <1>3, <2>1 DEF MutationStep, User, Answer, Cancel, Change, OpenDialog,
       AbortPreparation, Propose, Dismiss, Serve, CancelFails, React, ProposalFails
  <2>3. ASSUME Due(r) PROVE Due(r)'
    <3> DEFINE n == entry[r]
    <3>1. n \in Mutations /\ mut[n].phase = "done" /\ mut[n].req = r /\ ~mut[n].reconciled
      BY <1>0, <2>3 DEF Due, IInv, EntryOwned
    <3>2. CASE n = m
      <4>1. Reacted(m)
        BY <1>0, <3>1, <3>2, Effect DEF Taken, Moved, Released, InFlight
      <4>2. React(m)
        BY <3>1, <3>2 DEF MutationStep, User, Answer, Cancel, Clicked, Change, OpenDialog,
           AbortPreparation, Propose, Dismiss, Serve, CancelAccepted, CancelFails,
           ProposalAccepted, ProposalFails, InFlight
      <4> QED
        BY <1>1, <3>1, <3>2, <4>2 DEF React
    <3>3. CASE n # m
      <4>1. mut'[n] = mut[n]
        BY <1>0, <3>1, <3>3, Frame
      <4>2. entry'[r] = n
        BY <1>0, <3>1, <3>3, Effect, Frame DEF Taken, Moved, Released, Reacted
      <4> QED
        BY <3>1, <4>1, <4>2, NoMutationAssumption DEF Due
    <3> QED
      BY <3>2, <3>3
  <2> QED
    BY <2>2, <2>3
<1> QED
  BY <1>2, <1>3

\* What the backend has answered or the page shows stays as new while the view is
\* rendered, refreshed or left.
LEMMA ViewKeepsNew ==
  ASSUME TypeOK, ViewStep, session' = "open", NEW c, IsNew(c)
  PROVE  \A r \in Requests : told'[r] <= c[r] \/ Due(r)'
<1>1. told' = told
  BY DEF ViewStep, Open, Leave, ClickRefresh, Lock, EndSession, ServeList,
         ReceiveList, ReceiveDetails, FailRead
<1>2. ASSUME NEW r \in Requests, Due(r) PROVE Due(r)'
  <2>1. entry' = entry /\ entry[r] \in Mutations
    BY <1>2, ViewFrame DEF Due, TypeOK
  <2>2. mut'[entry[r]].phase = mut[entry[r]].phase
    BY <2>1, ViewFrame DEF SamePhases
  <2> QED
    BY <1>2, <2>1, <2>2 DEF Due
<1> QED
  BY <1>1, <1>2 DEF IsNew

\* A refresh awaits a read that is current and empty.
LEMMA RefreshAwaits ==
  ASSUME IInv, NEW f \in BOOLEAN, generation' = generation + 1,
         reads' = reads \cup {NewRead(f)}
  PROVE  /\ NewRequestsRead'
         /\ Active' => \E x \in reads' : IsCurrent(x)' /\ x.focus = f
         /\ \A x \in reads' : x.generation = generation' => x = NewRead(f)
<1>1. /\ NewRead(f).generation = generation' /\ NewRead(f).cards = NoCards
      /\ NewRead(f).focus = f
  BY NewReadType DEF IInv, NewRead
<1>2. \A x \in reads : x.generation # generation'
  BY DEF IInv, TypeOK, ReadsOK, Read
<1>3. \A x \in reads' : x.generation = generation' => x = NewRead(f)
  BY <1>2
<1>4. NewRequestsRead'
  BY <1>1, <1>3 DEF NewRequestsRead, IsCurrent
<1>5. Active' => \E x \in reads' : IsCurrent(x)' /\ x.focus = f
  <2>1. NewRead(f) \in reads'
    OBVIOUS
  <2> QED
    BY <1>1, <2>1 DEF IsCurrent
<1> QED
  BY <1>3, <1>4, <1>5

\* A read that is answered, or goes on, keeps its generation and its purpose.
LEMMA ReadGoesOn ==
  ASSUME TypeOK, NEW x \in reads, ServeList(x) \/ ReceiveList(x)
  PROVE  \E y : /\ y.generation = x.generation /\ y.focus = x.focus
                /\ \/ y.cards = version /\ ServeList(x)
                   \/ y.cards = x.cards /\ ReceiveList(x)
                /\ \/ reads' = (reads \ {x}) \cup {y}
                   \/ reads' = reads \ {x} /\ ~IsCurrent(x)
<1>0. x \in Read
  BY DEF TypeOK
<1>1. CASE ServeList(x)
  <2> DEFINE y == [x EXCEPT !.phase = "listed", !.cards = version]
  <2>1. /\ y.generation = x.generation /\ y.focus = x.focus /\ y.cards = version
        /\ reads' = (reads \ {x}) \cup {y}
    BY <1>0, <1>1 DEF ServeList, Read
  <2> QED
    BY <1>1, <2>1
<1>2. CASE ReceiveList(x)
  <2> DEFINE y == [x EXCEPT !.phase = "details"]
  <2>1. y.generation = x.generation /\ y.focus = x.focus /\ y.cards = x.cards
    BY <1>0 DEF Read
  <2>2. \/ reads' = (reads \ {x}) \cup {y}
        \/ reads' = reads \ {x} /\ ~IsCurrent(x)
    BY <1>2 DEF ReceiveList
  <2> HIDE DEF y
  <2> QED
    BY <1>2, <2>1, <2>2
<1> QED
  BY <1>1, <1>2

\* Steps of the view.
LEMMA NewViewStep ==
  ASSUME IInv, NewInv, ViewStep, ~RefreshOverReconciling
  PROVE  NoneAwaited' /\ NewRequestsRead' /\ NewRequestsShown'
<1>0. /\ TypeOK
      /\ \A x, y \in reads : x.generation = y.generation => x = y
      /\ interactive => committed
      /\ committed => connected
  BY DEF IInv, ReadsOK, Followed
<1>1. CASE Open
  <2>1. ~committed /\ ~interactive
    BY <1>0, <1>1 DEF Open
  <2>2. NewRequestsRead'
    BY <1>1, RefreshAwaits DEF Open
  <2> QED
    BY <1>1, <2>1, <2>2 DEF Open, NoneAwaited, NewRequestsShown
<1>2. CASE Leave \/ EndSession \/ Lock
  <2>1. ~Active'
    BY <1>2 DEF Leave, EndSession, Lock, Active
  <2>2. UNCHANGED <<reads, generation>> /\ (interactive' => interactive)
    BY <1>2 DEF Leave, EndSession, Lock, viewVars
  <2> QED
    BY <2>1, <2>2 DEF NewInv, NoneAwaited, NewRequestsRead, NewRequestsShown, IsCurrent
<1>3. CASE ClickRefresh
  <2>1. /\ NewRequestsRead' /\ ~interactive'
        /\ UNCHANGED <<session, connected, committed, shown>>
    BY <1>3, RefreshAwaits DEF ClickRefresh, Refresh
  <2>2. NewRequestsShown'
    <3> SUFFICES ASSUME Active', committed' PROVE IsNew(shown)'
      BY DEF NewRequestsShown
    <3>1. Active /\ committed
      BY <2>1 DEF Active
    <3>2. IsNew(shown)
      BY <1>3, <3>1 DEF NewInv, NewRequestsShown, RefreshOverReconciling
    <3>3. session' = "open"
      BY DEF Active
    <3> QED
      BY <1>0, <2>1, <3>2, <3>3, ViewKeepsNew DEF IsNew
  <2> QED
    BY <2>1, <2>2 DEF NoneAwaited
<1>4. ASSUME NEW x \in reads, ServeList(x) \/ ReceiveList(x)
      PROVE  NoneAwaited' /\ NewRequestsRead' /\ NewRequestsShown'
  <2>0. UNCHANGED <<session, connected, generation, committed, interactive, shown>>
    BY <1>4 DEF ServeList, ReceiveList
  <2>1. PICK y : /\ y.generation = x.generation /\ y.focus = x.focus
                 /\ \/ y.cards = version /\ ServeList(x)
                    \/ y.cards = x.cards /\ ReceiveList(x)
                 /\ \/ reads' = (reads \ {x}) \cup {y}
                    \/ reads' = reads \ {x} /\ ~IsCurrent(x)
    BY <1>0, <1>4, ReadGoesOn
  <2>2. \A z : IsCurrent(z)' <=> IsCurrent(z)
    BY <2>0 DEF IsCurrent, Active
  <2>3. NoneAwaited'
    BY <2>0, <2>1 DEF NewInv, NoneAwaited
  <2>4. NewRequestsRead'
    <3> SUFFICES ASSUME NEW z \in reads', IsCurrent(z), z.cards # NoCards,
                        session' = "open"
                 PROVE  \A r \in Requests : told'[r] <= z.cards[r] \/ Due(r)'
      BY <2>2 DEF NewRequestsRead, IsNew, IsCurrent, Active
    <3>1. IsNew(version)
      BY DEF NewInv, ToldPast, IsNew
    <3>2. IsNew(z.cards)
      <4>1. CASE z \in reads
        BY <4>1 DEF NewInv, NewRequestsRead
      <4>2. CASE z = y /\ ServeList(x)
        <5>1. y.cards = version \/ y.cards = x.cards
          BY <2>1
        <5>2. IsCurrent(x)
          BY <2>1, <4>2 DEF IsCurrent
        <5> QED
          BY <2>1, <3>1, <4>2, <5>1, <5>2 DEF NewInv, NewRequestsRead
      <4>3. CASE z = y /\ ReceiveList(x)
        <5>1. y.cards = version \/ y.cards = x.cards
          BY <2>1
        <5>2. IsCurrent(x)
          BY <2>1, <4>3 DEF IsCurrent
        <5> QED
          BY <2>1, <3>1, <4>3, <5>1, <5>2 DEF NewInv, NewRequestsRead
      <4> QED
        BY <1>4, <2>1, <4>1, <4>2, <4>3
    <3> QED
      BY <1>0, <3>2, ViewKeepsNew
  <2>5. NewRequestsShown'
    <3> SUFFICES ASSUME Active', committed', \A z \in reads' : IsCurrent(z)' => ~z.focus
                 PROVE  IsNew(shown)'
      BY DEF NewRequestsShown
    <3>1. \A z \in reads : IsCurrent(z) => ~z.focus
      BY <2>1, <2>2 DEF IsCurrent
    <3>2. IsNew(shown)
      BY <2>0, <3>1 DEF NewInv, NewRequestsShown, Active
    <3>3. session' = "open"
      BY DEF Active
    <3> QED
      BY <1>0, <2>0, <3>2, <3>3, ViewKeepsNew DEF IsNew
  <2> QED
    BY <2>3, <2>4, <2>5
<1>5. ASSUME NEW x \in reads, ReceiveDetails(x) \/ FailRead(x)
      PROVE  NoneAwaited' /\ NewRequestsRead' /\ NewRequestsShown'
  <2>0. reads' = reads \ {x} /\ UNCHANGED <<session, connected, generation>>
    BY <1>5 DEF ReceiveDetails, FailRead
  <2>1. \A z : IsCurrent(z)' <=> IsCurrent(z)
    BY <2>0 DEF IsCurrent, Active
  <2>2. NewRequestsRead'
    <3> SUFFICES ASSUME NEW z \in reads', IsCurrent(z), z.cards # NoCards,
                        session' = "open"
                 PROVE  \A r \in Requests : told'[r] <= z.cards[r] \/ Due(r)'
      BY <2>1 DEF NewRequestsRead, IsNew, IsCurrent, Active
    <3>1. IsNew(z.cards)
      BY <2>0 DEF NewInv, NewRequestsRead
    <3> QED
      BY <1>0, <3>1, ViewKeepsNew
  <2>3. CASE ~IsCurrent(x)
    <3>1. UNCHANGED <<committed, interactive, shown>>
      BY <1>5, <2>3 DEF ReceiveDetails, FailRead
    <3>2. NoneAwaited'
      BY <2>0, <3>1 DEF NewInv, NoneAwaited
    <3>3. NewRequestsShown'
      <4> SUFFICES ASSUME Active', committed', \A z \in reads' : IsCurrent(z)' => ~z.focus
                   PROVE  IsNew(shown)'
        BY DEF NewRequestsShown
      <4>1. IsNew(shown)
        BY <2>0, <2>1, <2>3, <3>1 DEF NewInv, NewRequestsShown, Active
      <4>2. session' = "open"
        BY DEF Active
      <4> QED
        BY <1>0, <3>1, <4>1, <4>2, ViewKeepsNew DEF IsNew
    <3> QED
      BY <2>2, <3>2, <3>3
  <2>4. CASE IsCurrent(x)
    <3>1. \A z \in reads' : z.generation # generation
      BY <1>0, <2>0, <2>4 DEF IsCurrent
    <3>2. NoneAwaited'
      BY <2>0, <3>1 DEF NoneAwaited
    <3>3. NewRequestsShown'
      <4> SUFFICES ASSUME Active', committed' PROVE IsNew(shown)'
        BY DEF NewRequestsShown
      <4>1. CASE ReceiveDetails(x)
        <5>1. shown' = x.cards /\ x.cards # NoCards
          BY <1>0, <2>4, <4>1 DEF ReceiveDetails, TypeOK
        <5>2. IsNew(x.cards)
          BY <2>4, <5>1 DEF NewInv, NewRequestsRead
        <5>3. session' = "open"
          BY DEF Active
        <5> QED
          BY <1>0, <5>1, <5>2, <5>3, ViewKeepsNew DEF IsNew
      <4>2. CASE FailRead(x)
        <5>1. committed /\ ~x.focus /\ shown' = shown
          BY <2>4, <4>2 DEF FailRead
        <5>2. \A z \in reads : IsCurrent(z) => z = x
          BY <1>0, <2>4 DEF IsCurrent
        <5>3. IsNew(shown)
          BY <2>4, <5>1, <5>2 DEF NewInv, NewRequestsShown, IsCurrent
        <5>4. session' = "open"
          BY DEF Active
        <5> QED
          BY <1>0, <5>1, <5>3, <5>4, ViewKeepsNew DEF IsNew
      <4> QED
        BY <1>5, <4>1, <4>2
    <3> QED
      BY <2>2, <3>2, <3>3
  <2> QED
    BY <2>3, <2>4
<1> QED
  BY <1>1, <1>2, <1>3, <1>4, <1>5 DEF ViewStep

\* Steps of a mutation.
LEMMA NewMutationStep ==
  ASSUME IInv, NewInv, NEW m \in Mutations, MutationStep(m)
  PROVE  NoneAwaited' /\ NewRequestsRead' /\ NewRequestsShown'
<1>0. session' = session
  BY Frame DEF IInv
<1>1. CASE Refresh(TRUE)
  <2>1. NewRequestsRead' /\ (Active' => \E x \in reads' : IsCurrent(x)' /\ x.focus = TRUE)
    BY <1>1, RefreshAwaits DEF Refresh
  <2>2. ~interactive'
    BY <1>1 DEF Refresh
  <2> QED
    BY <2>1, <2>2 DEF NoneAwaited, NewRequestsShown
<1>2. CASE UNCHANGED viewVars
  <2>1. /\ UNCHANGED <<connected, generation, committed, interactive, shown, reads>>
        /\ Active' <=> Active
    BY <1>0, <1>2 DEF viewVars, Active
  <2>2. \A z : IsCurrent(z)' <=> IsCurrent(z)
    BY <2>1 DEF IsCurrent
  <2>3. ASSUME Active, NEW c, IsNew(c)
        PROVE  \A r \in Requests : told'[r] <= c[r] \/ Due(r)'
    BY <1>2, <2>3, DueKept DEF IsNew
  <2>4. NewRequestsRead'
    BY <2>1, <2>2, <2>3 DEF NewInv, NewRequestsRead, IsNew, IsCurrent
  <2>5. NewRequestsShown'
    BY <2>1, <2>2, <2>3 DEF NewInv, NewRequestsShown, IsNew
  <2> QED
    BY <2>1, <2>4, <2>5 DEF NewInv, NoneAwaited
<1> QED
  BY <1>1, <1>2, RefreshOrNot

\* As long as no refresh of the user's takes the place of one that reconciles a
\* mutation, a list with usable controls is as new as every success the tab was told of.
THEOREM OnlyARefreshRestoresOldCards ==
  Spec /\ [][~RefreshOverReconciling]_vars => []InteractiveIsReconciled
<1>1. Init => NewInv
  BY DEF Init, NewInv, ToldPast, NoneAwaited, NewRequestsRead, NewRequestsShown, Snapshots, Unborn
<1>2. IInv /\ NewInv /\ [Next]_vars /\ [~RefreshOverReconciling]_vars => NewInv'
  <2> SUFFICES ASSUME IInv, NewInv, [Next]_vars, [~RefreshOverReconciling]_vars PROVE NewInv'
    OBVIOUS
  <2>1. CASE UNCHANGED vars
    BY <2>1 DEF vars, viewVars, NewInv, ToldPast, NoneAwaited, NewRequestsRead,
                NewRequestsShown, IsCurrent, Active, IsNew, Due
  <2>2. CASE Next /\ ~RefreshOverReconciling
    <3>1. ToldPast'
      BY <2>2, ToldPastStep DEF IInv, NewInv
    <3> QED
      BY <2>2, <3>1, NextCases, NewViewStep, NewMutationStep DEF NewInv
  <2> QED
    BY <2>1, <2>2
<1>3. IInv /\ NewInv => InteractiveIsReconciled
  <2> SUFFICES ASSUME IInv, NewInv, Quiet, Active, interactive, NEW r \in Requests
               PROVE  told[r] <= shown[r]
    BY DEF InteractiveIsReconciled
  <2>1. told[r] <= shown[r] \/ Due(r)
    BY DEF IInv, NewInv, NoneAwaited, NewRequestsShown, IsCurrent, IsNew
  <2>2. ~Due(r)
    <3> SUFFICES ASSUME Due(r) PROVE FALSE
      OBVIOUS
    <3>1. entry[r] \in Mutations /\ mut[entry[r]] \in Mutation
      BY DEF Due, IInv, TypeOK
    <3>2. mut[entry[r]].kind = "cancel" /\ mut[entry[r]].handlers = 0
      BY <3>1 DEF Due, IInv, KindsOK, Mutation, Quiet, Settled
    <3> QED
      BY <3>2 DEF Due, IInv, Followed
  <2> QED
    BY <2>1, <2>2
<1> QED
  BY <1>1, <1>2, <1>3, Invariant, PTL DEF Spec
=============================================================================
