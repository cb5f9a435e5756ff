------------------------ MODULE ManagerRequests_proofs ------------------------
(***************************************************************************)
(* Type correctness of ManagerRequests, and its safety properties through   *)
(* inductive invariants, for every set of Requests and mutations.           *)
(***************************************************************************)
EXTENDS ManagerRequests, TLAPS

USE NoMutationAssumption, NoAnswerAssumption, NoListAssumption

-----------------------------------------------------------------------------
(* Lemmas about the operators *)

\* A mutation that is over keeps its Request and its kind only.
LEMMA OverMutation ==
  ASSUME TypeOK, NEW m \in Mutations
  PROVE  /\ Over(m) \in Mutation
         /\ Over(m).req = mut[m].req /\ Over(m).kind = mut[m].kind
         /\ Over(m).phase = "over" /\ ~Over(m).own /\ ~Over(m).followed
  BY DEF TypeOK, Mutation, Over, Unborn, Wire, RoomContext

\* A reservation is given back by the mutation that holds it, and by no other.
LEMMA ReleasedEntry ==
  ASSUME TypeOK, NEW m \in Mutations
  PROVE  /\ Released(m) \in [Requests -> Mutations \cup {NoMutation}]
         /\ \A r \in Requests :
              Released(m)[r] = IF r = mut[m].req /\ entry[r] = m THEN NoMutation ELSE entry[r]
<1>1. mut[m].req \in Requests
  BY DEF TypeOK, Mutation
<1> QED
  BY <1>1 DEF TypeOK, Released

\* The read a refresh begins is of the generation that follows.
LEMMA NewReadType ==
  ASSUME TypeOK, NEW focus \in BOOLEAN
  PROVE  /\ NewRead(focus) \in Read
         /\ NewRead(focus).generation = generation + 1
         /\ ~NewRead(focus).looking
         /\ NewRead(focus).cards = NoAnswer
         /\ \A r \in Requests : NewRead(focus).contexts[r] = NoAnswer
  BY DEF TypeOK, NewRead, Read, Offers

\* What is drawn is a list.
LEMMA DrawnType ==
  ASSUME TypeOK, NEW x \in reads, x.looking, NEW visible \in SUBSET Requests
  PROVE  /\ Drawn(x, visible) \in List
         /\ Drawn(x, visible) # NoList
         /\ Drawn(x, visible).catalog = x.catalog
         /\ Drawn(x, visible).cards = x.cards
         /\ Drawn(x, visible).visible = visible
         /\ Drawn(x, visible).contexts = x.contexts
<1>1. x \in Read /\ x.catalog # NoAnswer /\ x.cards # NoAnswer
  BY DEF TypeOK
<1>2. Drawn(x, visible) \in List
  BY <1>1 DEF Drawn, List, Read
<1> QED
  BY <1>2 DEF Drawn

\* New cards change what follows a mutation, and nothing else about it.
LEMMA FollowedType ==
  ASSUME TypeOK, NEW visible \in SUBSET Requests
  PROVE  /\ Followed(visible) \in [Mutations -> Mutation]
         /\ \A m \in Mutations :
              Followed(visible)[m] \in {mut[m], [mut[m] EXCEPT !.followed = TRUE]}
<1>1. \A m \in Mutations : [mut[m] EXCEPT !.followed = TRUE] \in Mutation
  <2>1. \A u \in Mutation : [u EXCEPT !.followed = TRUE] \in Mutation
    BY DEF Mutation
  <2> QED
    BY <2>1 DEF TypeOK
<1> QED
  BY <1>1 DEF Followed, TypeOK

-----------------------------------------------------------------------------
(* Types *)

Phases == {"unborn", "first", "second", "dialog", "over"} \cup Wire

\* A step of one mutation.
LEMMA MutType ==
  ASSUME TypeOK, NEW m \in Mutations, NEW u \in Mutation, u.req = mut[m].req,
         mut' = [mut EXCEPT ![m] = u]
  PROVE  /\ mut' \in [Mutations -> Mutation]
         /\ mut'[m] = u
         /\ \A n \in Mutations \ {m} : mut'[n] = mut[n]
         /\ \A n \in Mutations : mut'[n].req = mut[n].req
  BY DEF TypeOK

\* refresh() keeps the types of the view.
LEMMA RefreshTypes ==
  ASSUME TypeOK, NEW focus \in BOOLEAN, Refresh(focus)
  PROVE  /\ UNCHANGED <<connected, list>>
         /\ generation' = generation + 1 /\ ~interactive' /\ interactive' \in BOOLEAN
         /\ reads' = Superseded \cup {NewRead(focus)}
         /\ reads' \subseteq Read
         /\ \A x \in reads' : x.looking => x.catalog # NoAnswer /\ x.cards # NoAnswer
<1>1. NewRead(focus) \in Read /\ ~NewRead(focus).looking
  BY NewReadType
<1> QED
  BY <1>1 DEF TypeOK, Refresh, Superseded

\* What a step of a mutation does to it, by the record it leaves.
LEMMA MutationRecord ==
  ASSUME TypeOK, NEW m \in Mutations, PrepareStep(m) \/ WireStep(m)
  PROVE  \E u \in Mutation : /\ u.req = mut[m].req /\ u.kind = mut[m].kind
                             /\ mut' = [mut EXCEPT ![m] = u]
<1> DEFINE Good(u) == u \in Mutation /\ u.req = mut[m].req /\ u.kind = mut[m].kind
<1>0. mut[m] \in Mutation /\ mut[m].req \in Requests
  BY DEF TypeOK, Mutation
<1>1. \A p \in Phases : Good([mut[m] EXCEPT !.phase = p])
  BY <1>0 DEF Mutation, Phases
<1>2. Good(Over(m))
  BY OverMutation
<1>3. CASE Act(m) \/ Prepare(m)
  <2>1. list.cards[mut[m].req] \in Nat /\ list.catalog \in Nat
    BY <1>0, <1>3 DEF Act, Prepare, Usable, TypeOK, List, Versions
  <2>2. Good(Started(m))
    BY <1>0, <2>1 DEF Started, Mutation
  <2>3. Good([Started(m) EXCEPT !.phase = "posted"])
    BY <2>2 DEF Mutation, Phases, Wire
  <2>4. Good([Started(m) EXCEPT !.phase = "first", !.started = generation, !.catalog = list.catalog])
    BY <2>1, <2>2 DEF TypeOK, Mutation, Phases
  <2> QED
    BY <1>3, <2>3, <2>4 DEF Act, Prepare, Begin
<1>4. CASE ServeContext(m)
  <2> DEFINE context == [version |-> version[mut[m].req], locations |-> locations]
  <2>1. context \in RoomContext
    BY <1>0 DEF RoomContext, TypeOK, Versions
  <2> HIDE DEF context
  <2>2. Good([mut[m] EXCEPT !.context = context])
    BY <1>0, <2>1 DEF Mutation
  <2> QED
    BY <1>4, <2>2 DEF ServeContext, context
<1>5. CASE ServeCatalogAgain(m)
  <2>1. Good([mut[m] EXCEPT !.catalog = locations])
    BY <1>0 DEF Mutation, TypeOK
  <2> QED
    BY <1>5, <2>1 DEF ServeCatalogAgain
<1>6. CASE PrepareAgain(m)
  <2>1. Good([mut[m] EXCEPT !.phase = "second", !.context = NoAnswer, !.catalog = NoAnswer])
    BY <1>0 DEF Mutation, Phases
  <2> QED
    BY <1>6, <2>1 DEF PrepareAgain
<1>7. CASE OpenDialog(m)
  BY <1>1, <1>7 DEF OpenDialog, Phases
<1>8. CASE \/ MissDialog(m) \/ GiveUpPreparation(m) \/ FailPreparation(m) \/ Dismiss(m)
           \/ Succeed(m) \/ Fail(m) \/ ProposalSucceeds(m)
  BY <1>2, <1>8 DEF MissDialog, GiveUpPreparation, FailPreparation, Dismiss, Succeed, Fail,
                    ProposalSucceeds
<1>9. CASE Propose(m)
  <2>1. Good([mut[m] EXCEPT !.phase = "posted", !.followed = FALSE])
    BY <1>0 DEF Mutation, Phases, Wire
  <2> QED
    BY <1>9, <2>1 DEF Propose, Begin
<1>10. CASE Accept(m)
  <2>1. version'[mut[m].req] \in Nat
    BY <1>0, <1>10 DEF Accept, TypeOK, Versions
  <2>2. Good([mut[m] EXCEPT !.phase = "accepted", !.result = version'[mut[m].req]])
    BY <1>0, <2>1 DEF Mutation, Phases, Wire
  <2> QED
    BY <1>10, <2>2 DEF Accept, Answered
<1>11. CASE Refuse(m)
  BY <1>1, <1>11 DEF Refuse, Phases, Wire
<1>12. CASE ProposalFails(m)
  <2>1. Good([mut[m] EXCEPT !.phase = "dialog", !.followed = FALSE, !.result = 0])
    BY <1>0 DEF Mutation, Phases
  <2> QED
    BY <1>12, <2>1 DEF ProposalFails
<1> QED
  BY <1>3, <1>4, <1>5, <1>6, <1>7, <1>8, <1>9, <1>10, <1>11, <1>12 DEF PrepareStep, WireStep

\* The phases in which a mutation needs the reservation of its Request
Reserving(u) == u.phase \in {"first", "second"} \cup Wire

\* A mutation that is over reserves nothing.
LEMMA OverReserves == ASSUME TypeOK, NEW m \in Mutations PROVE ~Reserving(Over(m))
  BY OverMutation DEF Reserving, Wire

\* A mutation comes to hold a reservation only by making it, and gives it back with
\* the step that ends its need of it.
LEMMA Reservation ==
  ASSUME TypeOK, NEW m \in Mutations, PrepareStep(m) \/ WireStep(m)
  PROVE  \/ UNCHANGED entry /\ (Reserving(mut'[m]) => Reserving(mut[m]))
         \/ entry' = Released(m) /\ ~Reserving(mut'[m])
         \/ entry[mut[m].req] = NoMutation /\ entry' = [entry EXCEPT ![mut[m].req] = m]
<1>1. CASE Prepare(m) \/ Act(m) \/ Propose(m)
  BY <1>1 DEF Prepare, Act, Propose, Begin
<1>2. CASE ServeContext(m) \/ ServeCatalogAgain(m) \/ PrepareAgain(m)
  BY <1>2 DEF ServeContext, ServeCatalogAgain, PrepareAgain, Reserving, TypeOK
<1>3. CASE OpenDialog(m)
  BY <1>3 DEF OpenDialog, Reserving, Wire, TypeOK, Mutation
<1>4. CASE \/ MissDialog(m) \/ GiveUpPreparation(m) \/ FailPreparation(m)
           \/ Succeed(m) \/ Fail(m) \/ ProposalSucceeds(m)
  <2>1. entry' = Released(m) /\ mut' = [mut EXCEPT ![m] = Over(m)]
    BY <1>4 DEF MissDialog, GiveUpPreparation, FailPreparation, Succeed, Fail, ProposalSucceeds
  <2> QED
    BY <2>1, OverReserves DEF TypeOK
<1>5. CASE ProposalFails(m)
  BY <1>5 DEF ProposalFails, Reserving, Wire, TypeOK, Mutation
<1>6. CASE Dismiss(m)
  BY <1>6, OverReserves DEF Dismiss, TypeOK
<1>7. CASE Accept(m) \/ Refuse(m)
  BY <1>7 DEF Accept, Answered, Refuse, Reserving, Wire, TypeOK, Mutation
<1> QED
  BY <1>1, <1>2, <1>3, <1>4, <1>5, <1>6, <1>7 DEF PrepareStep, WireStep

\* The types of reservations and mutations after a step of one mutation.
LEMMA MutationTypes ==
  ASSUME TypeOK, NEW m \in Mutations, PrepareStep(m) \/ WireStep(m)
  PROVE  /\ entry' \in [Requests -> Mutations \cup {NoMutation}]
         /\ \A r \in Requests : entry'[r] # NoMutation => mut'[entry'[r]].req = r
         /\ mut' \in [Mutations -> Mutation]
<1>1. /\ mut' \in [Mutations -> Mutation]
      /\ \A n \in Mutations : mut'[n].req = mut[n].req
  BY MutationRecord, MutType
<1>2. mut[m].req \in Requests
  BY DEF TypeOK, Mutation
<1>3. /\ entry' \in [Requests -> Mutations \cup {NoMutation}]
      /\ \A r \in Requests : entry'[r] \in {entry[r], NoMutation} \/ (r = mut[m].req /\ entry'[r] = m)
  <2>1. CASE UNCHANGED entry
    BY <2>1 DEF TypeOK
  <2>2. CASE entry' = Released(m)
    BY <2>2, ReleasedEntry
  <2>3. CASE entry' = [entry EXCEPT ![mut[m].req] = m]
    BY <1>2, <2>3 DEF TypeOK
  <2> QED
    BY <2>1, <2>2, <2>3, Reservation
<1> QED
  BY <1>1, <1>3 DEF TypeOK

\* The list, the reads and what the view keeps of them
ViewType ==
  /\ connected \in BOOLEAN
  /\ generation \in Nat
  /\ interactive \in BOOLEAN
  /\ list \in List \cup {NoList}
  /\ interactive => list # NoList
  /\ closed \subseteq Requests
  /\ reads \subseteq Read
  /\ \A x \in reads : x.looking => x.catalog # NoAnswer /\ x.cards # NoAnswer

BackendType ==
  version \in Versions /\ change \in [Requests -> BOOLEAN] /\ locations \in Nat

\* Those of the view and of the backend after it.
LEMMA MutationViewTypes ==
  ASSUME TypeOK, NEW m \in Mutations, PrepareStep(m) \/ WireStep(m)
  PROVE  ViewType' /\ BackendType' /\ told' \in Versions /\ UNCHANGED session
<1>0. /\ ViewType /\ BackendType /\ told \in Versions
      /\ mut[m] \in Mutation /\ mut[m].req \in Requests /\ mut[m].result \in Nat
  BY DEF TypeOK, ViewType, BackendType, Mutation
<1>1. ASSUME NEW c, RefreshIf(c), closed' \subseteq Requests PROVE ViewType'
  <2>1. CASE Refresh(TRUE)
    <3>1. /\ connected' = connected /\ list' = list
          /\ generation' = generation + 1 /\ interactive' = FALSE
          /\ reads' \subseteq Read
          /\ \A x \in reads' : x.looking => x.catalog # NoAnswer /\ x.cards # NoAnswer
      BY <2>1, RefreshTypes
    <3>2. generation' \in Nat
      BY <1>0, <3>1 DEF ViewType
    <3>3. connected' \in BOOLEAN /\ list' \in List \cup {NoList} /\ closed' \subseteq Requests
      BY <1>0, <1>1, <3>1 DEF ViewType
    <3>4. interactive' \in BOOLEAN /\ (interactive' => list' # NoList)
      BY <3>1
    <3> QED
      BY <3>1, <3>2, <3>3, <3>4 DEF ViewType
  <2>2. CASE UNCHANGED <<connected, generation, interactive, list, reads>>
    BY <1>0, <1>1, <2>2 DEF ViewType
  <2> QED
    BY <1>1, <2>1, <2>2 DEF RefreshIf
<1>2. ASSUME Tell(m) PROVE told' \in Versions
  BY <1>0, <1>2 DEF Tell, Versions
<1>3. ASSUME NEW u, Begin(m, u)
      PROVE  ViewType' /\ BackendType' /\ told' \in Versions /\ UNCHANGED session
  BY <1>0, <1>3 DEF Begin, ViewType, BackendType, backendVars
<1>4. CASE PrepareStep(m)
  BY <1>0, <1>1, <1>3, <1>4
     DEF PrepareStep, Prepare, ServeContext, ServeCatalogAgain, PrepareAgain, OpenDialog,
         MissDialog, GiveUpPreparation, FailPreparation, Propose, Dismiss,
         ViewType, BackendType, viewVars, backendVars
<1>5. CASE Accept(m)
  <2>1. ViewType' /\ UNCHANGED <<locations, told, session>>
    BY <1>0, <1>5 DEF Accept, ViewType, viewVars
  <2>2. version' \in Versions
    BY <1>0, <1>5 DEF Accept, BackendType, Versions
  <2>3. change' \in [Requests -> BOOLEAN]
    BY <1>0, <1>5 DEF Accept, BackendType
  <2> QED
    BY <1>0, <2>1, <2>2, <2>3 DEF BackendType
<1>6. CASE Act(m) \/ Refuse(m) \/ Succeed(m) \/ Fail(m) \/ ProposalSucceeds(m) \/ ProposalFails(m)
  BY <1>0, <1>1, <1>2, <1>3, <1>6
     DEF Act, Refuse, Succeed, Fail, ProposalSucceeds, ProposalFails,
         ViewType, BackendType, viewVars, backendVars
<1> QED
  BY <1>4, <1>5, <1>6 DEF WireStep

\* Those of the view after a step of a read.
LEMMA ReadTypes ==
  ASSUME TypeOK, NEW x \in reads, ReadStep(x)
  PROVE  /\ ViewType'
         /\ mut' \in [Mutations -> Mutation]
         /\ \A m \in Mutations : mut'[m].req = mut[m].req
         /\ UNCHANGED <<session, entry, backendVars, told>>
<1>0. /\ ViewType /\ mut \in [Mutations -> Mutation]
      /\ x \in Read /\ version \in Versions /\ locations \in Nat
  BY DEF TypeOK, ViewType
<1>1. ASSUME NEW y \in Read, Becomes(x, y), y.looking => y.catalog # NoAnswer /\ y.cards # NoAnswer
      PROVE  ViewType' /\ UNCHANGED <<mut, session, entry, backendVars, told>>
  BY <1>0, <1>1 DEF Becomes, ViewType
<1>2. CASE ServeCatalog(x) \/ ServeList(x) \/ StartLookups(x)
  <2>1. [x EXCEPT !.catalog = locations] \in Read /\ [x EXCEPT !.cards = version] \in Read
        /\ [x EXCEPT !.looking = TRUE] \in Read
    BY <1>0 DEF Read
  <2>2. x.catalog = NoAnswer \/ x.cards = NoAnswer => ~x.looking
    BY DEF TypeOK
  <2> QED
    BY <1>0, <1>1, <1>2, <2>1, <2>2 DEF ServeCatalog, ServeList, StartLookups, Read
<1>3. ASSUME NEW r \in Requests, LookupChange(x, r) \/ LookupContext(x, r)
      PROVE  ViewType' /\ UNCHANGED <<mut, session, entry, backendVars, told>>
  <2>1. CASE LookupChange(x, r)
    <3>1. [x EXCEPT !.offers[r] = IF change[r] THEN "open" ELSE "none"] \in Read
      BY <1>0 DEF Read, Offers
    <3> QED
      BY <1>0, <1>1, <2>1, <3>1 DEF LookupChange, Read, ViewType
  <2>2. CASE LookupContext(x, r)
    <3> DEFINE context == [version |-> version[r], locations |-> locations]
    <3>1. context \in RoomContext
      BY <1>0 DEF RoomContext, Versions
    <3> HIDE DEF context
    <3>2. [x EXCEPT !.contexts[r] = context] \in Read
      BY <1>0, <3>1 DEF Read
    <3>3. Becomes(x, [x EXCEPT !.contexts[r] = context])
      BY <2>2 DEF LookupContext, context
    <3> QED
      BY <1>0, <1>1, <3>2, <3>3 DEF Read, ViewType
  <2> QED
    BY <1>3, <2>1, <2>2
<1>4. ASSUME NEW visible \in SUBSET Requests, Draw(x, visible)
      PROVE  /\ ViewType'
             /\ mut' \in [Mutations -> Mutation]
             /\ \A m \in Mutations : mut'[m].req = mut[m].req
             /\ UNCHANGED <<session, entry, backendVars, told>>
  <2>1. /\ Drawn(x, visible) \in List \ {NoList}
        /\ Followed(visible) \in [Mutations -> Mutation]
        /\ \A m \in Mutations : Followed(visible)[m].req = mut[m].req
    BY <1>0, <1>4, DrawnType, FollowedType DEF Draw, Mutation
  <2> QED
    BY <1>0, <1>4, <2>1 DEF Draw, Reserved, ViewType
<1>5. CASE DropRead(x)
  BY <1>0, <1>5 DEF DropRead, ViewType
<1>6. CASE FailRead(x)
  BY <1>0, <1>6 DEF FailRead, ViewType
<1> QED
  BY <1>0, <1>2, <1>3, <1>4, <1>5, <1>6 DEF ReadStep

\* Every step keeps the types.
LEMMA TypeStep == TypeOK /\ [Next]_vars => TypeOK'
<1> SUFFICES ASSUME TypeOK, [Next]_vars PROVE TypeOK'
  OBVIOUS
<1>0. ViewType /\ BackendType
  BY DEF TypeOK, ViewType, BackendType
<1> USE DEF viewVars, backendVars
<1>1. ASSUME NEW focus \in BOOLEAN, Refresh(focus),
             UNCHANGED <<session, closed, entry, mut, backendVars, told>>
      PROVE  TypeOK'
  BY <1>1, RefreshTypes DEF TypeOK
<1>2. CASE Open
  <2>1. NewRead(FALSE) \in Read /\ ~NewRead(FALSE).looking
    BY NewReadType
  <2>2. /\ reads' \subseteq Read
        /\ \A x \in reads' : x.looking => x.catalog # NoAnswer /\ x.cards # NoAnswer
    BY <1>2, <2>1 DEF Open, Superseded, TypeOK
  <2>3. generation' \in Nat /\ connected' \in BOOLEAN
    BY <1>2 DEF Open, TypeOK
  <2> QED
    BY <1>2, <2>2, <2>3 DEF Open, TypeOK
<1>3. CASE Leave
  <2>1. /\ mut' \in [Mutations -> Mutation]
        /\ \A m \in Mutations : mut'[m].req = mut[m].req
    <3>1. \A u \in Mutation : /\ [u EXCEPT !.own = FALSE, !.followed = FALSE] \in Mutation
                              /\ [u EXCEPT !.own = FALSE, !.followed = FALSE].req = u.req
      BY DEF Mutation
    <3> QED
      BY <1>3, <3>1 DEF Leave, TypeOK
  <2> QED
    BY <1>3, <2>1 DEF Leave, Superseded, TypeOK
<1>4. ASSUME NEW s \in {"locked", "ended"}, Close(s),
             UNCHANGED entry \/ entry' = [r \in Requests |-> NoMutation]
      PROVE  TypeOK'
  <2>1. /\ mut' \in [Mutations -> Mutation]
        /\ \A m \in Mutations : mut'[m].req = mut[m].req
    BY <1>4, OverMutation DEF Close
  <2> QED
    BY <1>4, <2>1 DEF Close, TypeOK
<1>5. CASE ClickRefresh
  BY <1>1, <1>5 DEF ClickRefresh
<1>6. CASE Lock \/ EndSession
  BY <1>4, <1>6 DEF Lock, EndSession
<1>7. CASE Relocate
  BY <1>7 DEF Relocate, TypeOK
<1>8. ASSUME NEW x \in reads, ReadStep(x) PROVE TypeOK'
  BY <1>8, ReadTypes DEF ViewType, TypeOK
<1>9. ASSUME NEW m \in Mutations, PrepareStep(m) \/ WireStep(m) PROVE TypeOK'
  BY <1>9, MutationTypes, MutationViewTypes DEF ViewType, BackendType, TypeOK
<1>10. ASSUME NEW r \in Requests, Elsewhere(r) PROVE TypeOK'
  BY <1>10 DEF Elsewhere, TypeOK, Versions
<1>11. CASE UNCHANGED vars
  BY <1>11 DEF vars, TypeOK
<1> QED
  BY <1>2, <1>3, <1>5, <1>6, <1>7, <1>8, <1>9, <1>10, <1>11 DEF Next

\* Type correctness: the view, its reads, the reservations and the mutations keep their
\* types, a reservation is for the Request of its mutation, and only a projection that
\* is committed is interactive.
THEOREM TypeCorrect == Spec => []TypeOK
<1>1. ASSUME Init PROVE TypeOK
  <2>1. \A r \in Requests, k \in {"transition", "decision", "proposal"} : Unborn(r, k) \in Mutation
    BY DEF Unborn, Mutation
  <2>2. mut \in [Mutations -> Mutation]
    BY <1>1, <2>1 DEF Init
  <2>3. version \in Versions /\ told \in Versions /\ change \in [Requests -> BOOLEAN]
    BY <1>1 DEF Init, Versions
  <2>4. connected = FALSE
    BY <1>1, Zenon DEF Init
  <2>5. interactive = FALSE
    BY <1>1, Zenon DEF Init
  <2>6. generation \in Nat /\ locations \in Nat
    BY <1>1 DEF Init
  <2>7. reads = {} /\ closed = {} /\ session = "open" /\ list = NoList
    BY <1>1 DEF Init
  <2>8. entry \in [Requests -> Mutations \cup {NoMutation}]
        /\ \A r \in Requests : entry[r] = NoMutation
    BY <1>1 DEF Init
  <2> QED
    BY <2>2, <2>3, <2>4, <2>5, <2>6, <2>7, <2>8 DEF TypeOK
<1> QED
  BY <1>1, TypeStep, PTL DEF Spec

-----------------------------------------------------------------------------
(* Reservations.  Two mutations of one Request cannot be on the wire because each
   of them would hold the reservation of the Request, from the preparation on. *)

Owned == \A m \in Mutations : Reserving(mut[m]) => entry[mut[m].req] = m

\* What the steps of the view leave of a mutation: everything but what reacts to it
SameButFollowed(u, v) ==
  /\ u.req = v.req /\ u.kind = v.kind /\ u.phase = v.phase
  /\ u.expected = v.expected /\ u.started = v.started
  /\ u.catalog = v.catalog /\ u.context = v.context /\ u.result = v.result
  /\ u.own => v.own

\* Leaving the view and reading change of a mutation only what reacts to it.
LEMMA ViewMutations ==
  ASSUME TypeOK, Leave \/ \E x \in reads : ReadStep(x)
  PROVE  UNCHANGED entry /\ \A m \in Mutations : SameButFollowed(mut'[m], mut[m])
<1>1. CASE Leave
  <2>1. \A u \in Mutation : SameButFollowed([u EXCEPT !.own = FALSE, !.followed = FALSE], u)
    BY DEF Mutation, SameButFollowed
  <2> QED
    BY <1>1, <2>1 DEF Leave, TypeOK
<1>2. ASSUME NEW x \in reads, NEW visible \in SUBSET Requests, Draw(x, visible)
      PROVE  UNCHANGED entry /\ \A m \in Mutations : SameButFollowed(mut'[m], mut[m])
  <2>1. \A u \in Mutation : /\ SameButFollowed([u EXCEPT !.followed = TRUE], u)
                            /\ SameButFollowed(u, u)
    BY DEF Mutation, SameButFollowed
  <2>2. \A m \in Mutations : SameButFollowed(Followed(visible)[m], mut[m])
    BY <2>1, FollowedType DEF TypeOK
  <2>3. \A m \in Mutations : SameButFollowed(mut[m], mut[m])
    BY <2>1 DEF TypeOK
  <2> QED
    BY <1>2, <2>2, <2>3 DEF Draw
<1>3. ASSUME NEW x \in reads, ReadStep(x), ~\E visible \in SUBSET Requests : Draw(x, visible)
      PROVE  UNCHANGED <<entry, mut>>
  BY <1>3 DEF ReadStep, ServeCatalog, ServeList, StartLookups, LookupChange, LookupContext,
              Becomes, DropRead, FailRead
<1> QED
  BY <1>1, <1>2, <1>3 DEF ReadStep, SameButFollowed

\* Every step keeps the reservations.
LEMMA OwnedStep == TypeOK /\ Owned /\ [Next]_vars => Owned'
<1> SUFFICES ASSUME TypeOK, Owned, [Next]_vars PROVE Owned'
  OBVIOUS
<1> USE DEF viewVars
<1>1. ASSUME NEW m \in Mutations, PrepareStep(m) \/ WireStep(m) PROVE Owned'
  <2>1. /\ \A n \in Mutations \ {m} : mut'[n] = mut[n]
        /\ mut'[m].req = mut[m].req
    BY <1>1, MutationRecord, MutType
  <2>2. mut[m].req \in Requests /\ \A n \in Mutations : mut[n].req \in Requests
    BY DEF TypeOK, Mutation
  <2>3. CASE UNCHANGED entry /\ (Reserving(mut'[m]) => Reserving(mut[m]))
    BY <2>1, <2>3 DEF Owned
  <2>4. CASE entry' = Released(m) /\ ~Reserving(mut'[m])
    <3>1. \A r \in Requests : entry[r] # m => entry'[r] = entry[r]
      BY <2>4, ReleasedEntry
    <3> QED
      BY <2>1, <2>2, <2>4, <3>1 DEF Owned
  <2>5. CASE entry[mut[m].req] = NoMutation /\ entry' = [entry EXCEPT ![mut[m].req] = m]
    BY <2>1, <2>2, <2>5 DEF Owned, TypeOK
  <2> QED
    BY <1>1, <2>3, <2>4, <2>5, Reservation
<1>2. CASE Leave \/ \E x \in reads : ReadStep(x)
  BY <1>2, ViewMutations DEF SameButFollowed, Owned, Reserving
<1>3. CASE Lock \/ EndSession
  BY <1>3, OverReserves DEF Lock, EndSession, Close, Owned
<1>4. CASE Open \/ ClickRefresh \/ Relocate \/ UNCHANGED vars \/ \E r \in Requests : Elsewhere(r)
  BY <1>4 DEF Open, ClickRefresh, Relocate, Elsewhere, Owned, vars
<1> QED
  BY <1>1, <1>2, <1>3, <1>4 DEF Next

\* A mutation under way holds the reservation of its Request, in every reachable state.
LEMMA OwnedInvariant == Spec => [](TypeOK /\ Owned)
<1>1. Init => Owned
  <2>1. \A r, k : ~Reserving(Unborn(r, k))
    BY DEF Reserving, Unborn, Wire
  <2> QED
    BY <2>1 DEF Init, Owned
<1> QED
  BY <1>1, OwnedStep, TypeCorrect, PTL DEF Spec

\* The tab never has two mutations of one Request on the wire, for any number of
\* Requests, views and mutations.
THEOREM MutationsDoNotOverlap == Spec => []OneMutationInFlight
<1>1. TypeOK /\ Owned => OneMutationInFlight
  BY DEF Owned, Reserving, OneMutationInFlight
<1> QED
  BY <1>1, OwnedInvariant, PTL

-----------------------------------------------------------------------------
(* What is read and what is shown.  Only the read of the present generation is ever
   drawn, it is the only one of its generation, and it was answered after the list that
   is shown: so the list never goes back. *)

\* Contexts that go with the cards and the catalogue they stand beside
Together(x) == \A r \in Requests :
                 x.contexts[r] # NoAnswer => Coherent(x.contexts[r], x.cards[r], x.catalog)

\* Versions the backend has or had, which it never takes back
Past(cards) == \A r \in Requests : cards[r] <= version[r]
Growing     == \A r \in Requests : version[r] <= version'[r]

ReadsOnce     == \A x \in reads : /\ x.generation <= generation
                                  /\ \A y \in reads : x.generation = y.generation => x = y
Idle          == interactive => connected /\ \A x \in reads : x.generation # generation
BareReads     == \A x \in reads : ~x.looking => \A r \in Requests : x.contexts[r] = NoAnswer
ReadsTogether == \A x \in reads : Together(x)
PastCards     == /\ list # NoList => \A r \in Requests : list.cards[r] <= version[r]
                 /\ \A x \in reads : x.cards # NoAnswer => Past(x.cards)
NewerCards    == \A x \in reads : x.generation = generation /\ x.cards # NoAnswer /\ list # NoList
                                  => \A r \in Requests : list.cards[r] <= x.cards[r]

ViewInv == /\ ReadsOnce /\ Idle /\ BareReads
           /\ ReadsTogether /\ (list # NoList => Together(list))
           /\ PastCards /\ NewerCards

\* Steps after which no read is there that was not there before, and the same list or none.
LEMMA FewerReads ==
  ASSUME TypeOK, TypeOK', ViewInv, Growing, reads' \subseteq reads,
         UNCHANGED generation, list' = list \/ list' = NoList,
         interactive' => connected' /\ \A x \in reads' : x.generation # generation
  PROVE  ViewInv'
<1>1. ReadsOnce' /\ Idle' /\ BareReads' /\ ReadsTogether' /\ (list' # NoList => Together(list'))
  BY DEF ViewInv, ReadsOnce, Idle, BareReads, ReadsTogether, Together
<1>2. \A c \in Versions : Past(c) => \A r \in Requests : c[r] <= version'[r]
  BY DEF Past, Growing, TypeOK, Versions
<1>3. list' # NoList => list.cards \in Versions
  BY DEF TypeOK, List
<1>4. \A x \in reads : x.cards # NoAnswer => x.cards \in Versions
  BY DEF TypeOK, Read
<1>5. PastCards'
  BY <1>2, <1>3, <1>4 DEF ViewInv, PastCards, Past
<1>6. NewerCards'
  BY DEF ViewInv, NewerCards
<1> QED
  BY <1>1, <1>5, <1>6 DEF ViewInv

\* Steps that begin a read.
LEMMA OneMoreRead ==
  ASSUME TypeOK, TypeOK', ViewInv, NEW focus \in BOOLEAN,
         reads' \subseteq reads \cup {NewRead(focus)},
         generation' = generation + 1, ~interactive', UNCHANGED <<list, version>>
  PROVE  ViewInv'
<1> DEFINE z == NewRead(focus)
<1>0. /\ z.generation = generation + 1 /\ z.cards = NoAnswer
      /\ \A r \in Requests : z.contexts[r] = NoAnswer
  BY NewReadType
<1> HIDE DEF z
<1>1. generation \in Nat /\ \A x \in reads : x.generation \in Nat
  BY DEF TypeOK, Read
<1>2. ReadsOnce'
  BY <1>0, <1>1 DEF ViewInv, ReadsOnce, z
<1>3. BareReads' /\ ReadsTogether' /\ (list' # NoList => Together(list'))
  BY <1>0 DEF ViewInv, BareReads, ReadsTogether, Together, z
<1>4. PastCards'
  BY <1>0 DEF ViewInv, PastCards, Past, z
<1>5. NewerCards'
  BY <1>0, <1>1 DEF ViewInv, ReadsOnce, NewerCards, z
<1> QED
  BY <1>2, <1>3, <1>4, <1>5 DEF ViewInv, Idle

\* Steps in which the present read is answered.
LEMMA AnsweredRead ==
  ASSUME TypeOK, TypeOK', ViewInv, NEW x \in reads, IsCurrent(x), NEW y \in Read, Becomes(x, y),
         y.generation = x.generation, y.cards \in {x.cards, version}, Together(y),
         ~y.looking => \A r \in Requests : y.contexts[r] = NoAnswer
  PROVE  ViewInv'
<1>1. /\ reads' = (reads \ {x}) \cup {y}
      /\ UNCHANGED <<connected, generation, interactive, list, version>>
  BY DEF Becomes, backendVars
<1>2. x.generation = generation
  BY DEF IsCurrent
<1>3. ReadsOnce' /\ Idle'
  BY <1>1 DEF ViewInv, ReadsOnce, Idle
<1>4. BareReads' /\ ReadsTogether' /\ (list' # NoList => Together(list'))
  BY <1>1 DEF ViewInv, BareReads, ReadsTogether, Together
<1>5. \A r \in Requests : version[r] \in Nat
  BY DEF TypeOK, Versions
<1>6. PastCards'
  BY <1>1, <1>5 DEF ViewInv, PastCards, Past
<1>7. NewerCards'
  BY <1>1, <1>2 DEF ViewInv, NewerCards, PastCards
<1> QED
  BY <1>3, <1>4, <1>6, <1>7 DEF ViewInv

\* The present read is drawn.
LEMMA DrawnRead ==
  ASSUME TypeOK, TypeOK', ViewInv, NEW x \in reads, IsCurrent(x), NEW visible \in SUBSET Requests,
         Draw(x, visible)
  PROVE  /\ ViewInv'
         /\ list' # NoList /\ list'.cards = x.cards /\ list'.visible = visible
         /\ \A y \in reads' : y.generation # generation
<1>1. /\ reads' = reads \ {x} /\ x.looking
      /\ list' = Drawn(x, visible)
      /\ UNCHANGED <<connected, generation, version>>
  BY DEF Draw, backendVars
<1>2. /\ list' # NoList /\ list'.catalog = x.catalog /\ list'.cards = x.cards
      /\ list'.visible = visible /\ list'.contexts = x.contexts
  BY <1>1, DrawnType
<1>3. x.generation = generation /\ connected
  BY DEF IsCurrent, Active
<1>4. \A y \in reads' : y.generation # generation
  BY <1>1, <1>3 DEF ViewInv, ReadsOnce
<1>5. ReadsOnce' /\ Idle' /\ BareReads' /\ NewerCards'
  BY <1>1, <1>3, <1>4 DEF ViewInv, ReadsOnce, Idle, BareReads, NewerCards
<1>6. ReadsTogether' /\ Together(list')
  BY <1>1, <1>2 DEF ViewInv, ReadsTogether, Together
<1>7. x.cards # NoAnswer
  BY <1>1 DEF TypeOK
<1>8. PastCards'
  BY <1>1, <1>2, <1>7 DEF ViewInv, PastCards, Past
<1> QED
  BY <1>2, <1>4, <1>5, <1>6, <1>8 DEF ViewInv

\* An answer to a read completes it, once, and a context is taken only if it goes with
\* the rest.
Answers(x, y) ==
  /\ IsCurrent(x) /\ Becomes(x, y)
  /\ y \in Read /\ y.generation = x.generation
  /\ y.cards \in {x.cards, version} /\ (x.cards # NoAnswer => y.cards = x.cards)
  /\ Together(y)
  /\ ~y.looking => \A r \in Requests : y.contexts[r] = NoAnswer

\* So does every step of a read that is answered.
LEMMA ReadAnswers ==
  ASSUME TypeOK, ViewInv, NEW x \in reads,
         \/ ServeCatalog(x) \/ ServeList(x) \/ StartLookups(x)
         \/ \E r \in Requests : LookupChange(x, r) \/ LookupContext(x, r)
  PROVE  \E y : Answers(x, y)
<1>0. /\ x \in Read /\ Together(x)
      /\ ~x.looking => \A r \in Requests : x.contexts[r] = NoAnswer
      /\ x.looking => x.catalog # NoAnswer /\ x.cards # NoAnswer
      /\ version \in Versions /\ locations \in Nat
  BY DEF TypeOK, ViewInv, ReadsTogether, BareReads
<1>1. CASE ServeCatalog(x)
  <2> DEFINE y == [x EXCEPT !.catalog = locations]
  <2>1. /\ y \in Read /\ y.generation = x.generation /\ y.cards = x.cards
        /\ y.contexts = x.contexts
    BY <1>0 DEF Read
  <2>2. \A r \in Requests : y.contexts[r] = NoAnswer
    BY <1>0, <1>1, <2>1 DEF ServeCatalog
  <2>3. IsCurrent(x) /\ Becomes(x, y)
    BY <1>1 DEF ServeCatalog, Becomes
  <2> HIDE DEF y
  <2> QED
    BY <2>1, <2>2, <2>3 DEF Answers, Together
<1>2. CASE ServeList(x)
  <2> DEFINE y == [x EXCEPT !.cards = version]
  <2>1. /\ y \in Read /\ y.generation = x.generation /\ y.cards = version
        /\ y.contexts = x.contexts
    BY <1>0 DEF Read
  <2>2. x.cards = NoAnswer /\ \A r \in Requests : y.contexts[r] = NoAnswer
    BY <1>0, <1>2, <2>1 DEF ServeList
  <2>3. IsCurrent(x) /\ Becomes(x, y)
    BY <1>2 DEF ServeList, Becomes
  <2> HIDE DEF y
  <2> QED
    BY <2>1, <2>2, <2>3 DEF Answers, Together
<1>3. CASE StartLookups(x)
  <2> DEFINE y == [x EXCEPT !.looking = TRUE]
  <2>1. /\ y \in Read /\ y.generation = x.generation /\ y.cards = x.cards
        /\ y.contexts = x.contexts /\ y.catalog = x.catalog /\ y.looking
    BY <1>0 DEF Read
  <2>2. IsCurrent(x) /\ Becomes(x, y)
    BY <1>3 DEF StartLookups, Becomes
  <2> HIDE DEF y
  <2> QED
    BY <1>0, <2>1, <2>2 DEF Answers, Together
<1>4. ASSUME NEW r \in Requests, LookupChange(x, r) PROVE \E y : Answers(x, y)
  <2> DEFINE y == [x EXCEPT !.offers[r] = IF change[r] THEN "open" ELSE "none"]
  <2>1. /\ y \in Read /\ y.generation = x.generation /\ y.cards = x.cards
        /\ y.contexts = x.contexts /\ y.catalog = x.catalog /\ y.looking = x.looking
    BY <1>0 DEF Read, Offers
  <2>2. x.looking /\ IsCurrent(x) /\ Becomes(x, y)
    BY <1>4 DEF LookupChange, Becomes
  <2> HIDE DEF y
  <2> QED
    BY <1>0, <2>1, <2>2 DEF Answers, Together
<1>5. ASSUME NEW r \in Requests, LookupContext(x, r) PROVE \E y : Answers(x, y)
  <2> DEFINE context == [version |-> version[r], locations |-> locations]
             y       == [x EXCEPT !.contexts[r] = context]
  <2>1. context \in RoomContext /\ Coherent(context, x.cards[r], x.catalog)
    BY <1>0, <1>5 DEF RoomContext, Versions, LookupContext
  <2>2. x.looking /\ IsCurrent(x) /\ Becomes(x, y)
    BY <1>5 DEF LookupContext, Becomes
  <2> HIDE DEF context
  <2>3. /\ y \in Read /\ y.generation = x.generation /\ y.cards = x.cards
        /\ y.catalog = x.catalog /\ y.looking = x.looking
        /\ \A s \in Requests : y.contexts[s] = IF s = r THEN context ELSE x.contexts[s]
    BY <1>0, <2>1 DEF Read
  <2> HIDE DEF y
  <2> QED
    BY <1>0, <2>1, <2>2, <2>3 DEF Answers, Together
<1> QED
  BY <1>1, <1>2, <1>3, <1>4, <1>5

\* The backend takes no version back.
LEMMA VersionsGrow == TypeOK /\ [Next]_vars => Growing
<1> SUFFICES ASSUME TypeOK, [Next]_vars PROVE Growing
  OBVIOUS
<1>0. \A r \in Requests : version[r] \in Nat
  BY DEF TypeOK, Versions
<1>1. CASE UNCHANGED version
  BY <1>0, <1>1 DEF Growing
<1>2. ASSUME NEW m \in Mutations, Accept(m) PROVE Growing
  BY <1>0, <1>2 DEF Accept, Growing, TypeOK, Versions, Mutation
<1>3. ASSUME NEW r \in Requests, Elsewhere(r) PROVE Growing
  BY <1>0, <1>3 DEF Elsewhere, Growing, TypeOK, Versions
<1>4. ASSUME NEW m \in Mutations, PrepareStep(m) PROVE UNCHANGED version
  BY <1>4 DEF PrepareStep, Prepare, ServeContext, ServeCatalogAgain, PrepareAgain, OpenDialog,
              MissDialog, GiveUpPreparation, FailPreparation, Propose, Dismiss, Begin, backendVars
<1>5. ASSUME NEW m \in Mutations, WireStep(m) PROVE Growing
  BY <1>1, <1>2, <1>5 DEF WireStep, Act, Begin, Refuse, Succeed, Fail, ProposalSucceeds,
                          ProposalFails, backendVars
<1>6. ASSUME NEW x \in reads, ReadStep(x) PROVE UNCHANGED version
  BY <1>6, ReadTypes DEF backendVars
<1>7. CASE Open \/ Leave \/ ClickRefresh \/ Relocate
  BY <1>1, <1>7 DEF Open, Leave, ClickRefresh, Relocate, backendVars
<1>8. CASE Lock \/ EndSession \/ UNCHANGED vars
  BY <1>1, <1>8 DEF Lock, EndSession, Close, vars, backendVars
<1> QED
  BY <1>1, <1>3, <1>4, <1>5, <1>6, <1>7, <1>8 DEF Next

\* Every step keeps the invariant of the view.
LEMMA ViewStep == TypeOK /\ ViewInv /\ [Next]_vars => ViewInv'
<1> SUFFICES ASSUME TypeOK, ViewInv, [Next]_vars PROVE ViewInv'
  OBVIOUS
<1>0. TypeOK' /\ Growing
  BY TypeStep, VersionsGrow
<1> USE DEF viewVars, backendVars
<1>1. CASE UNCHANGED <<connected, generation, interactive, list, reads>>
  BY <1>0, <1>1, FewerReads DEF ViewInv, Idle
<1>2. ASSUME NEW focus \in BOOLEAN, Refresh(focus), UNCHANGED version PROVE ViewInv'
  <2>1. reads' \subseteq reads \cup {NewRead(focus)}
    BY <1>2 DEF Refresh, Superseded
  <2> QED
    BY <1>0, <1>2, <2>1, OneMoreRead DEF Refresh
<1>3. CASE Open
  <2>1. reads' \subseteq reads \cup {NewRead(FALSE)}
    BY <1>3 DEF Open, Superseded
  <2>2. ~interactive'
    BY <1>3 DEF Open, ViewInv, Idle
  <2> QED
    BY <1>0, <1>3, <2>1, <2>2, OneMoreRead DEF Open
<1>4. CASE Leave \/ Lock \/ EndSession
  BY <1>0, <1>4, FewerReads DEF Leave, Lock, EndSession, Close, Superseded
<1>5. CASE ClickRefresh
  BY <1>2, <1>5 DEF ClickRefresh
<1>6. ASSUME NEW m \in Mutations, PrepareStep(m) PROVE ViewInv'
  BY <1>1, <1>2, <1>6 DEF PrepareStep, Prepare, ServeContext, ServeCatalogAgain, PrepareAgain,
                          OpenDialog, MissDialog, GiveUpPreparation, FailPreparation, Propose,
                          Dismiss, Begin, RefreshIf
<1>7. ASSUME NEW m \in Mutations, WireStep(m) PROVE ViewInv'
  BY <1>1, <1>2, <1>7 DEF WireStep, Act, Begin, Accept, Refuse, Succeed, Fail, ProposalSucceeds,
                          ProposalFails, RefreshIf
<1>8. ASSUME NEW x \in reads, ReadStep(x) PROVE ViewInv'
  <2>1. ASSUME NEW y, Answers(x, y) PROVE ViewInv'
    BY <1>0, <2>1, AnsweredRead DEF Answers
  <2>2. ASSUME NEW visible \in SUBSET Requests, Draw(x, visible) PROVE ViewInv'
    <3>1. CASE IsCurrent(x)
      BY <1>0, <2>2, <3>1, DrawnRead
    <3>2. CASE ~IsCurrent(x)
      BY <1>0, <2>2, <3>2, FewerReads DEF Draw, ViewInv, Idle
    <3> QED
      BY <3>1, <3>2
  <2>3. CASE DropRead(x)
    BY <1>0, <2>3, FewerReads DEF DropRead, ViewInv, Idle
  <2>4. CASE FailRead(x)
    <3>1. /\ reads' = reads \ {x} /\ UNCHANGED <<generation, connected>>
          /\ list' = list \/ list' = NoList
          /\ x.generation = generation /\ connected
      BY <2>4 DEF FailRead, IsCurrent, Active
    <3>2. \A y \in reads' : y.generation # generation
      BY <3>1 DEF ViewInv, ReadsOnce
    <3> QED
      BY <1>0, <3>1, <3>2, FewerReads
  <2> QED
    BY <1>8, <2>1, <2>2, <2>3, <2>4, ReadAnswers DEF ReadStep
<1>9. CASE Relocate \/ UNCHANGED vars \/ \E r \in Requests : Elsewhere(r)
  BY <1>1, <1>9 DEF Relocate, Elsewhere, vars
<1> QED
  BY <1>3, <1>4, <1>5, <1>6, <1>7, <1>8, <1>9 DEF Next

\* The invariant of the view holds in every reachable state.
LEMMA ViewInvariant == Spec => [](TypeOK /\ ViewInv)
<1>1. Init => ViewInv
  BY DEF Init, ViewInv, ReadsOnce, Idle, BareReads, ReadsTogether, PastCards, NewerCards
<1> QED
  BY <1>1, ViewStep, TypeCorrect, PTL DEF Spec

\* The list that is shown is replaced by what the present read found, or by nothing.
LEMMA ListSteps ==
  ASSUME TypeOK, [Next]_vars
  PROVE  \/ list' = list
         \/ list' = NoList
         \/ \E x \in reads, visible \in SUBSET Requests : IsCurrent(x) /\ Draw(x, visible)
<1> USE DEF viewVars
<1>1. ASSUME NEW m \in Mutations, PrepareStep(m) PROVE list' = list
  BY <1>1 DEF PrepareStep, Prepare, ServeContext, ServeCatalogAgain, PrepareAgain, OpenDialog,
              MissDialog, GiveUpPreparation, FailPreparation, Propose, Dismiss, Begin,
              RefreshIf, Refresh
<1>2. ASSUME NEW m \in Mutations, WireStep(m) PROVE list' = list
  BY <1>2 DEF WireStep, Act, Begin, Accept, Refuse, Succeed, Fail, ProposalSucceeds,
              ProposalFails, RefreshIf, Refresh
<1>3. ASSUME NEW x \in reads, ReadStep(x)
      PROVE  \/ list' = list
             \/ list' = NoList
             \/ \E visible \in SUBSET Requests : IsCurrent(x) /\ Draw(x, visible)
  BY <1>3 DEF ReadStep, ServeCatalog, ServeList, StartLookups, LookupChange, LookupContext,
              Becomes, Draw, DropRead, FailRead
<1>4. CASE Open \/ Leave \/ ClickRefresh \/ Lock \/ EndSession \/ Relocate
  BY <1>4 DEF Open, Leave, ClickRefresh, Refresh, Lock, EndSession, Close, Relocate
<1> QED
  BY <1>1, <1>2, <1>3, <1>4 DEF Next, Elsewhere, vars

\* While the view stays, its cards never go back to an older version of a Request, in
\* whatever order refreshes are begun, answered, superseded and failed.
THEOREM CardsNeverGoBack == Spec => NeverBackwards
<1>1. TypeOK /\ ViewInv /\ [Next]_vars
      => [list # NoList /\ list' # NoList =>
            \A r \in Requests : list.cards[r] <= list'.cards[r]]_vars
  <2> SUFFICES ASSUME TypeOK, ViewInv, [Next]_vars, list # NoList, list' # NoList
               PROVE  \A r \in Requests : list.cards[r] <= list'.cards[r]
    OBVIOUS
  <2>1. \A r \in Requests : list.cards[r] \in Nat
    BY DEF TypeOK, List, Versions
  <2>2. CASE list' = list
    BY <2>1, <2>2
  <2>3. ASSUME NEW x \in reads, NEW visible \in SUBSET Requests, IsCurrent(x), Draw(x, visible)
        PROVE  \A r \in Requests : list.cards[r] <= list'.cards[r]
    <3>1. list'.cards = x.cards
      BY <2>3, DrawnRead, TypeStep
    <3>2. x.generation = generation /\ x.cards # NoAnswer
      BY <2>3 DEF IsCurrent, Draw, TypeOK
    <3> QED
      BY <3>1, <3>2 DEF ViewInv, NewerCards
  <2> QED
    BY <2>2, <2>3, ListSteps
<1> QED
  BY <1>1, ViewInvariant, PTL DEF Spec, NeverBackwards

-----------------------------------------------------------------------------
(* ShownTogether *)

\* Only proposals are prepared, and their dialogs stand on a context that went with the
\* card and the catalogue
Dialogs == \A m \in Mutations :
             /\ mut[m].phase \in {"first", "second", "dialog"} => mut[m].kind = "proposal"
             /\ mut[m].kind = "proposal" /\ mut[m].phase \in {"dialog"} \cup Wire => IsCoherent(m)

\* Every step keeps this.
LEMMA DialogsStep == TypeOK /\ Dialogs /\ [Next]_vars => Dialogs'
<1> SUFFICES ASSUME TypeOK, Dialogs, [Next]_vars PROVE Dialogs'
  OBVIOUS
<1> USE DEF viewVars
<1>0. mut \in [Mutations -> Mutation]
  BY DEF TypeOK
<1>1. ASSUME NEW m \in Mutations, PrepareStep(m) \/ WireStep(m),
             mut'[m].phase \in {"first", "second", "dialog"} => mut[m].kind = "proposal",
             \/ mut'[m].phase \notin {"dialog"} \cup Wire
             \/ mut[m].kind # "proposal"
             \/ /\ mut'[m].context = mut[m].context /\ mut'[m].expected = mut[m].expected
                /\ mut'[m].catalog = mut[m].catalog
                /\ IsCoherent(m)
      PROVE  Dialogs'
  <2>1. \A n \in Mutations \ {m} : mut'[n] = mut[n]
    BY <1>1, MutationRecord, MutType
  <2>2. mut'[m].kind = mut[m].kind
    BY <1>1, MutationRecord, MutType
  <2> QED
    BY <1>1, <2>1, <2>2 DEF Dialogs, IsCoherent
<1>2. ASSUME NEW m \in Mutations, PrepareStep(m) PROVE Dialogs'
  <2>1. CASE OpenDialog(m) \/ Propose(m)
    <3>1. IsCoherent(m) /\ mut[m].kind = "proposal"
      BY <2>1 DEF OpenDialog, Propose, Dialogs
    <3>2. /\ mut'[m].context = mut[m].context /\ mut'[m].expected = mut[m].expected
          /\ mut'[m].catalog = mut[m].catalog
      <4>1. CASE OpenDialog(m)
        BY <1>0, <4>1 DEF OpenDialog, Mutation
      <4>2. CASE Propose(m)
        BY <1>0, <4>2 DEF Propose, Begin, Mutation
      <4> QED
        BY <2>1, <4>1, <4>2
    <3> QED
      BY <1>1, <1>2, <3>1, <3>2
  <2>2. CASE Prepare(m)
    <3>1. mut'[m].phase = "first" /\ mut[m].kind = "proposal"
      BY <1>0, <2>2 DEF Prepare, Begin, Started, TypeOK, Mutation
    <3> QED
      BY <1>1, <1>2, <3>1 DEF Wire
  <2>3. CASE ServeContext(m) \/ ServeCatalogAgain(m) \/ PrepareAgain(m)
    <3>1. mut[m].phase \in {"first", "second"} /\ mut'[m].phase \in {"first", "second"}
      BY <1>0, <2>3 DEF ServeContext, ServeCatalogAgain, PrepareAgain, TypeOK, Mutation
    <3> QED
      BY <1>1, <1>2, <3>1 DEF Dialogs, Wire
  <2>4. CASE MissDialog(m) \/ GiveUpPreparation(m) \/ FailPreparation(m) \/ Dismiss(m)
    <3>1. mut'[m] = Over(m)
      BY <2>4 DEF MissDialog, GiveUpPreparation, FailPreparation, Dismiss, TypeOK
    <3> QED
      BY <1>1, <1>2, <3>1, OverMutation DEF Wire
  <2> QED
    BY <1>2, <2>1, <2>2, <2>3, <2>4 DEF PrepareStep
<1>3. ASSUME NEW m \in Mutations, WireStep(m) PROVE Dialogs'
  <2>1. CASE Act(m)
    <3>1. mut[m].kind # "proposal" /\ mut'[m].phase = "posted"
      BY <1>0, <2>1 DEF Act, Begin, Started, TypeOK, Mutation
    <3> QED
      BY <1>1, <1>3, <3>1
  <2>2. CASE Accept(m) \/ Refuse(m)
    <3>1. /\ mut'[m].context = mut[m].context /\ mut'[m].expected = mut[m].expected
          /\ mut'[m].catalog = mut[m].catalog
          /\ mut[m].phase \in Wire /\ mut'[m].phase \in Wire
      BY <1>0, <2>2 DEF Accept, Answered, Refuse, TypeOK, Mutation, Wire
    <3> QED
      BY <1>1, <1>3, <3>1 DEF Dialogs, Wire
  <2>3. CASE ProposalFails(m)
    <3>1. /\ mut'[m].context = mut[m].context /\ mut'[m].expected = mut[m].expected
          /\ mut'[m].catalog = mut[m].catalog
          /\ mut[m].phase \in Wire /\ mut[m].kind = "proposal"
      BY <1>0, <2>3 DEF ProposalFails, TypeOK, Mutation
    <3> QED
      BY <1>1, <1>3, <3>1 DEF Dialogs
  <2>4. CASE Succeed(m) \/ Fail(m) \/ ProposalSucceeds(m)
    <3>1. mut'[m] = Over(m)
      BY <2>4 DEF Succeed, Fail, ProposalSucceeds, TypeOK
    <3> QED
      BY <1>1, <1>3, <3>1, OverMutation DEF Wire
  <2> QED
    BY <1>3, <2>1, <2>2, <2>3, <2>4 DEF WireStep
<1>4. CASE Leave \/ \E x \in reads : ReadStep(x)
  BY <1>4, ViewMutations DEF SameButFollowed, Dialogs, IsCoherent
<1>5. CASE Lock \/ EndSession
  BY <1>5, OverMutation DEF Lock, EndSession, Close, Dialogs, Wire
<1>6. CASE Open \/ ClickRefresh \/ Relocate \/ UNCHANGED vars \/ \E r \in Requests : Elsewhere(r)
  BY <1>6 DEF Open, ClickRefresh, Relocate, Elsewhere, Dialogs, IsCoherent, vars
<1> QED
  BY <1>2, <1>3, <1>4, <1>5, <1>6 DEF Next

\* What is shown together was true together: the room context of every card and of
\* every proposal is of the version on the card and of the catalogue beside it.
THEOREM ContextsGoWithTheirCards == Spec => []ShownTogether
<1>1. Init => Dialogs
  <2>1. \A r, k : Unborn(r, k).phase = "unborn"
    BY DEF Unborn
  <2> QED
    BY <2>1 DEF Init, Dialogs, Wire
<1>2. ViewInv /\ Dialogs => ShownTogether
  BY DEF ViewInv, Together, Dialogs, ShownTogether
<1> QED
  BY <1>1, <1>2, DialogsStep, ViewInvariant, PTL DEF Spec

-----------------------------------------------------------------------------
(* UsableIsReconciled.  The list is told of a mutation and read anew in one step, so a
   read that is drawn was answered after everything it was told before; and a card that is
   older than what its list was told stays closed, because no mutation is left that could
   open it. *)

\* The steps of a mutation that goes on, and those that end it
GoesOn(m) == \/ ServeContext(m) \/ ServeCatalogAgain(m) \/ PrepareAgain(m) \/ OpenDialog(m)
             \/ Propose(m) \/ Accept(m) \/ Refuse(m) \/ ProposalFails(m)
Ends(m)   == \/ MissDialog(m) \/ GiveUpPreparation(m) \/ FailPreparation(m) \/ Dismiss(m)
             \/ Succeed(m) \/ Fail(m) \/ ProposalSucceeds(m)

Prepared(u) == u.kind = "proposal" /\ u.phase \notin {"unborn", "over"}

\* A mutation begins, goes on or ends.
LEMMA MutationSteps ==
  ASSUME NEW m \in Mutations, PrepareStep(m) \/ WireStep(m)
  PROVE  Prepare(m) \/ Act(m) \/ GoesOn(m) \/ Ends(m)
  BY DEF PrepareStep, WireStep, GoesOn, Ends

\* A mutation that goes on was begun from the same list.
LEMMA GoesOnFrom ==
  ASSUME TypeOK, NEW m \in Mutations, GoesOn(m)
  PROVE  /\ mut[m].phase \notin {"unborn", "over"}
         /\ mut'[m].req = mut[m].req /\ mut'[m].kind = mut[m].kind
         /\ mut'[m].started = mut[m].started /\ mut'[m].own = mut[m].own
         /\ mut'[m].phase = "accepted" => Accept(m)
         /\ \A n \in Mutations \ {m} : mut'[n] = mut[n]
<1>0. mut \in [Mutations -> Mutation]
  BY DEF TypeOK
<1>1. CASE ServeContext(m)
  BY <1>0, <1>1 DEF ServeContext, Mutation
<1>2. CASE ServeCatalogAgain(m)
  BY <1>0, <1>2 DEF ServeCatalogAgain, Mutation
<1>3. CASE PrepareAgain(m)
  BY <1>0, <1>3 DEF PrepareAgain, Mutation
<1>4. CASE OpenDialog(m)
  BY <1>0, <1>4 DEF OpenDialog, Mutation
<1>5. CASE Propose(m)
  BY <1>0, <1>5 DEF Propose, Begin, Mutation
<1>6. CASE Accept(m)
  BY <1>0, <1>6 DEF Accept, Answered, Mutation
<1>7. CASE Refuse(m)
  BY <1>0, <1>7 DEF Refuse, Mutation
<1>8. CASE ProposalFails(m)
  BY <1>0, <1>8 DEF ProposalFails, Mutation, Wire
<1> QED
  BY <1>1, <1>2, <1>3, <1>4, <1>5, <1>6, <1>7, <1>8 DEF GoesOn

\* One that ends is over.
LEMMA EndsOver ==
  ASSUME TypeOK, NEW m \in Mutations, Ends(m)
  PROVE  mut'[m] = Over(m) /\ \A n \in Mutations \ {m} : mut'[n] = mut[n]
<1>1. mut' = [mut EXCEPT ![m] = Over(m)]
  BY DEF Ends, MissDialog, GiveUpPreparation, FailPreparation, Dismiss, Succeed, Fail,
         ProposalSucceeds
<1> QED
  BY <1>1 DEF TypeOK

\* What one begins with.
LEMMA BeginsFrom ==
  ASSUME TypeOK, NEW m \in Mutations, Prepare(m) \/ Act(m)
  PROVE  /\ mut[m].req \in Requests /\ Usable(mut[m].req) /\ list # NoList
         /\ mut'[m].req = mut[m].req /\ mut'[m].kind = mut[m].kind
         /\ mut'[m].phase \in {"first", "posted"}
         /\ \/ mut'[m].kind # "proposal"
            \/ mut'[m].started = generation
         /\ \A n \in Mutations \ {m} : mut'[n] = mut[n]
<1>0. mut \in [Mutations -> Mutation] /\ mut[m].req \in Requests
  BY DEF TypeOK, Mutation
<1>1. Usable(mut[m].req) /\ list # NoList
  BY DEF Prepare, Act, Usable, TypeOK
<1>2. CASE Prepare(m)
  BY <1>0, <1>1, <1>2 DEF Prepare, Begin, Started, Mutation
<1>3. CASE Act(m)
  BY <1>0, <1>1, <1>3 DEF Act, Begin, Started, Mutation
<1> QED
  BY <1>2, <1>3

\* The view after a step of a mutation: as it was, or read anew.
LEMMA MutationView ==
  ASSUME NEW m \in Mutations, PrepareStep(m) \/ WireStep(m)
  PROVE  \/ UNCHANGED <<connected, generation, interactive, list, reads, told>>
         \/ Refresh(TRUE)
<1> USE DEF viewVars
<1>1. CASE Prepare(m) \/ Act(m) \/ GoesOn(m)
  BY <1>1 DEF Prepare, Act, Begin, GoesOn, ServeContext, ServeCatalogAgain, PrepareAgain,
              OpenDialog, Propose, Accept, Refuse, ProposalFails
<1>2. CASE Ends(m)
  BY <1>2 DEF Ends, MissDialog, GiveUpPreparation, FailPreparation, Dismiss, Succeed, Fail,
              ProposalSucceeds, Tell, RefreshIf
<1> QED
  BY <1>1, <1>2, MutationSteps

\* What the list is told, and what answers will tell it, is in the backend's past.
TellsPast == /\ Past(told)
             /\ \A m \in Mutations : mut[m].phase = "accepted" => mut[m].result <= version[mut[m].req]

\* Every step keeps this: versions grow, and an answer names the version it left.
LEMMA TellsPastStep == TypeOK /\ TellsPast /\ [Next]_vars => TellsPast'
<1> SUFFICES ASSUME TypeOK, TellsPast, [Next]_vars PROVE TellsPast'
  OBVIOUS
<1> USE DEF viewVars
<1>0. /\ Growing /\ TypeOK'
      /\ \A r \in Requests : version[r] \in Nat /\ version'[r] \in Nat /\ told[r] \in Nat
      /\ \A m \in Mutations : mut[m].req \in Requests /\ mut[m].result \in Nat
  BY VersionsGrow, TypeStep DEF TypeOK, Versions, Mutation
<1>1. ASSUME UNCHANGED told PROVE Past(told)'
  BY <1>0, <1>1 DEF TellsPast, Past, Growing
<1>2. ASSUME \A m \in Mutations : mut'[m].phase = "accepted" => /\ mut[m].phase = "accepted"
                                                                /\ mut'[m].req = mut[m].req
                                                                /\ mut'[m].result = mut[m].result
      PROVE  \A m \in Mutations : mut'[m].phase = "accepted" => mut'[m].result <= version'[mut'[m].req]
  BY <1>0, <1>2 DEF TellsPast, Growing
<1>3. ASSUME NEW m \in Mutations, Prepare(m) \/ Act(m) PROVE TellsPast'
  <2>1. UNCHANGED told
    BY <1>3 DEF Prepare, Act, Begin
  <2>2. mut'[m].phase # "accepted" /\ \A n \in Mutations \ {m} : mut'[n] = mut[n]
    BY <1>3, BeginsFrom
  <2> QED
    BY <1>1, <1>2, <2>1, <2>2 DEF TellsPast
<1>4. ASSUME NEW m \in Mutations, GoesOn(m) PROVE TellsPast'
  <2>1. UNCHANGED told
    BY <1>4 DEF GoesOn, ServeContext, ServeCatalogAgain, PrepareAgain, OpenDialog, Propose, Begin,
                Accept, Refuse, ProposalFails
  <2>2. CASE mut'[m].phase # "accepted"
    BY <1>1, <1>2, <1>4, <2>1, <2>2, GoesOnFrom DEF TellsPast
  <2>3. CASE Accept(m)
    <3>1. mut'[m].result = version'[mut[m].req]
      BY <2>3 DEF Accept, Answered, TypeOK, Mutation
    <3>2. mut'[m].req = mut[m].req /\ \A n \in Mutations \ {m} : mut'[n] = mut[n]
      BY <1>4, GoesOnFrom
    <3> QED
      BY <1>0, <1>1, <2>1, <3>1, <3>2 DEF TellsPast, Growing
  <2> QED
    BY <1>4, <2>2, <2>3, GoesOnFrom
<1>5. ASSUME NEW m \in Mutations, Ends(m) PROVE TellsPast'
  <2>1. mut'[m].phase = "over" /\ \A n \in Mutations \ {m} : mut'[n] = mut[n]
    BY <1>5, EndsOver, OverMutation
  <2>2. \/ UNCHANGED told
        \/ mut[m].phase = "accepted" /\ told' = [told EXCEPT ![mut[m].req] = mut[m].result]
    BY <1>5 DEF Ends, MissDialog, GiveUpPreparation, FailPreparation, Dismiss, Succeed, Fail,
                ProposalSucceeds, Tell
  <2>3. Past(told)'
    BY <1>0, <1>1, <2>2 DEF TellsPast, Past, Growing, TypeOK, Versions
  <2> QED
    BY <1>2, <2>1, <2>3 DEF TellsPast
<1>6. CASE Leave \/ \E x \in reads : ReadStep(x)
  <2>1. UNCHANGED told
    BY <1>6, ReadTypes DEF Leave
  <2> QED
    BY <1>1, <1>2, <1>6, <2>1, ViewMutations DEF SameButFollowed, TellsPast
<1>7. CASE Lock \/ EndSession
  <2>1. UNCHANGED told /\ \A m \in Mutations : mut'[m].phase = "over"
    BY <1>7, OverMutation DEF Lock, EndSession, Close
  <2> QED
    BY <1>1, <1>2, <2>1 DEF TellsPast
<1>8. CASE Open \/ ClickRefresh \/ Relocate \/ UNCHANGED vars \/ \E r \in Requests : Elsewhere(r)
  BY <1>1, <1>2, <1>8 DEF Open, ClickRefresh, Relocate, Elsewhere, vars, TellsPast
<1> QED
  BY <1>3, <1>4, <1>5, <1>6, <1>7, <1>8, MutationSteps DEF Next

\* Every step drops reads, begins one of the generation that follows, or answers the
\* present one.
LEMMA ReadSteps ==
  ASSUME TypeOK, ViewInv, [Next]_vars
  PROVE  \/ reads' \subseteq reads /\ UNCHANGED <<generation, told>>
         \/ generation' = generation + 1
            /\ \E focus \in BOOLEAN : reads' \subseteq reads \cup {NewRead(focus)}
         \/ \E x \in reads, y \in Read : Answers(x, y)
<1> USE DEF viewVars
<1>1. ASSUME NEW m \in Mutations, PrepareStep(m) \/ WireStep(m)
      PROVE  \/ UNCHANGED <<generation, reads, told>>
             \/ /\ generation' = generation + 1
                /\ reads' \subseteq reads \cup {NewRead(TRUE)}
  BY <1>1, MutationView DEF Refresh, Superseded
<1>2. ASSUME NEW x \in reads, ReadStep(x)
      PROVE  \/ reads' \subseteq reads /\ UNCHANGED <<generation, told>>
             \/ \E y \in Read : Answers(x, y)
  <2>1. CASE DropRead(x) \/ FailRead(x) \/ \E visible \in SUBSET Requests : Draw(x, visible)
    BY <2>1 DEF DropRead, FailRead, Draw
  <2>2. ASSUME NEW y, Answers(x, y) PROVE y \in Read
    BY <2>2 DEF Answers
  <2> QED
    BY <1>2, <2>1, <2>2, ReadAnswers DEF ReadStep
<1>3. CASE Leave \/ Lock \/ EndSession \/ Relocate \/ UNCHANGED vars \/ \E r \in Requests : Elsewhere(r)
  BY <1>3 DEF Leave, Lock, EndSession, Close, Relocate, Elsewhere, Superseded, vars
<1>4. CASE Open \/ ClickRefresh
  BY <1>4 DEF Open, ClickRefresh, Refresh, Superseded
<1> QED
  BY <1>1, <1>2, <1>3, <1>4 DEF Next

\* What the present read was answered is as new as what the list was told.
NewerTold == \A x \in reads : x.generation = generation /\ x.cards # NoAnswer
                              => \A r \in Requests : told[r] <= x.cards[r]

\* Every step keeps this: whatever tells the list has it read anew.
LEMMA NewerToldStep == TypeOK /\ ViewInv /\ TellsPast /\ NewerTold /\ [Next]_vars => NewerTold'
<1> SUFFICES ASSUME TypeOK, ViewInv, TellsPast, NewerTold, [Next]_vars PROVE NewerTold'
  OBVIOUS
<1>0. generation \in Nat /\ \A x \in reads : x.generation \in Nat /\ x.generation <= generation
  BY DEF TypeOK, Read, ViewInv, ReadsOnce
<1>1. CASE reads' \subseteq reads /\ UNCHANGED <<generation, told>>
  BY <1>1 DEF NewerTold
<1>2. ASSUME NEW focus \in BOOLEAN, generation' = generation + 1,
             reads' \subseteq reads \cup {NewRead(focus)}
      PROVE  NewerTold'
  <2>1. \A x \in reads' : x.generation = generation' => x = NewRead(focus)
    BY <1>0, <1>2
  <2> QED
    BY <2>1, NewReadType DEF NewerTold
<1>3. ASSUME NEW x \in reads, NEW y \in Read, Answers(x, y) PROVE NewerTold'
  <2>1. /\ reads' = (reads \ {x}) \cup {y} /\ UNCHANGED <<generation, told>>
        /\ x.generation = generation /\ y.cards \in {x.cards, version}
    BY <1>3 DEF Answers, Becomes, IsCurrent
  <2>2. y.cards # NoAnswer => \A r \in Requests : told[r] <= y.cards[r]
    BY <2>1 DEF NewerTold, TellsPast, Past
  <2> QED
    BY <2>1, <2>2 DEF NewerTold
<1> QED
  BY <1>1, <1>2, <1>3, ReadSteps

\* The controls of a reserved Request are closed; and a card that is older than what its
\* list was told stays closed, for no mutation is left that could open it.
ReservedClosed == \A m \in Mutations :
  list # NoList /\ Reserving(mut[m]) /\ mut[m].req \in list.visible => mut[m].req \in closed

Reconciled == list # NoList => \A r \in list.visible :
  \/ told[r] <= list.cards[r]
  \/ r \in closed /\ \A m \in Mutations : Reserving(mut[m]) => mut[m].req # r

\* While the list is the one a proposal was prepared on, its card stays as new as it was.
PreparedOn == \A m \in Mutations : Prepared(mut[m]) =>
  /\ mut[m].started <= generation
  /\ \A x \in reads : x.generation # mut[m].started
  /\ mut[m].own /\ mut[m].started = generation /\ list # NoList
     => told[mut[m].req] <= list.cards[mut[m].req]

\* A proposal was prepared before, on the same list, or its preparation begins with
\* usable controls.
LEMMA PreparedFrom ==
  ASSUME TypeOK, [Next]_vars, NEW m \in Mutations, Prepared(mut'[m])
  PROVE  /\ mut'[m].req = mut[m].req
         /\ \/ /\ Prepared(mut[m])
               /\ mut'[m].started = mut[m].started /\ (mut'[m].own => mut[m].own)
            \/ /\ mut'[m].started = generation /\ Usable(mut[m].req)
               /\ UNCHANGED <<generation, list, reads, told>>
<1> USE DEF viewVars
<1>1. ASSUME NEW n \in Mutations, Prepare(n) \/ Act(n)
      PROVE  n # m => mut'[m] = mut[m]
  BY <1>1, BeginsFrom
<1>2. CASE Prepare(m) \/ Act(m)
  <2>1. UNCHANGED <<generation, list, reads, told>>
    BY <1>2 DEF Prepare, Act, Begin
  <2> QED
    BY <1>2, <2>1, BeginsFrom DEF Prepared
<1>3. CASE GoesOn(m)
  BY <1>3, GoesOnFrom DEF Prepared
<1>4. CASE Ends(m)
  BY <1>4, EndsOver, OverMutation DEF Prepared
<1>5. ASSUME NEW n \in Mutations \ {m}, GoesOn(n) \/ Ends(n) PROVE mut'[m] = mut[m]
  BY <1>5, GoesOnFrom, EndsOver
<1>6. CASE Leave \/ \E x \in reads : ReadStep(x)
  BY <1>6, ViewMutations DEF SameButFollowed, Prepared
<1>7. CASE Lock \/ EndSession
  BY <1>7, OverMutation DEF Lock, EndSession, Close, Prepared
<1>8. CASE Open \/ ClickRefresh \/ Relocate \/ UNCHANGED vars \/ \E r \in Requests : Elsewhere(r)
  BY <1>8 DEF Open, ClickRefresh, Relocate, Elsewhere, vars
<1> QED
  BY <1>1, <1>2, <1>3, <1>4, <1>5, <1>6, <1>7, <1>8, MutationSteps DEF Next

\* Usable controls are those of a card that is as new as what its list was told.
LEMMA UsableIsNew ==
  ASSUME TypeOK, Reconciled, NEW r \in Requests, Usable(r)
  PROVE  list # NoList /\ told[r] <= list.cards[r]
  BY DEF TypeOK, Reconciled, Usable

\* Every step keeps what proposals stand on: a refresh is of a later generation, and the list
\* they were prepared on is not replaced by a read of its own generation.
LEMMA PreparedOnStep ==
  TypeOK /\ ViewInv /\ Reconciled /\ PreparedOn /\ [Next]_vars => PreparedOn'
<1> SUFFICES ASSUME TypeOK, ViewInv, Reconciled, PreparedOn, [Next]_vars,
                    NEW m \in Mutations, Prepared(mut'[m])
             PROVE  /\ mut'[m].started <= generation'
                    /\ \A x \in reads' : x.generation # mut'[m].started
                    /\ mut'[m].own /\ mut'[m].started = generation' /\ list' # NoList
                       => told'[mut'[m].req] <= list'.cards[mut'[m].req]
  BY DEF PreparedOn
<1>0. generation \in Nat /\ mut[m].started \in Nat /\ mut[m].req \in Requests
  BY DEF TypeOK, Mutation
<1>1. CASE /\ mut'[m].started = generation /\ Usable(mut[m].req)
           /\ UNCHANGED <<generation, list, reads, told>>
  <2>1. \A x \in reads : x.generation # generation
    BY <1>1 DEF ViewInv, Idle, Usable
  <2> QED
    BY <1>0, <1>1, <2>1, PreparedFrom, UsableIsNew
<1>2. CASE /\ Prepared(mut[m])
           /\ mut'[m].started = mut[m].started /\ (mut'[m].own => mut[m].own)
  <2>0. /\ mut[m].started <= generation
        /\ \A x \in reads : x.generation # mut[m].started
        /\ mut[m].own /\ mut[m].started = generation /\ list # NoList
           => told[mut[m].req] <= list.cards[mut[m].req]
        /\ mut'[m].req = mut[m].req
    BY <1>2, PreparedFrom DEF PreparedOn
  <2>1. ASSUME generation' = generation, told' = told, mut[m].started = generation, list' # NoList
        PROVE  list' = list
    <3>1. ASSUME NEW x \in reads, IsCurrent(x) PROVE FALSE
      BY <2>0, <2>1, <3>1 DEF IsCurrent
    <3> QED
      BY <2>1, <3>1, ListSteps
  <2>2. CASE reads' \subseteq reads /\ UNCHANGED <<generation, told>>
    BY <1>2, <2>0, <2>1, <2>2
  <2>3. ASSUME NEW focus \in BOOLEAN, generation' = generation + 1,
               reads' \subseteq reads \cup {NewRead(focus)}
        PROVE  /\ mut[m].started < generation'
               /\ \A x \in reads' : x.generation # mut[m].started
    BY <1>0, <2>0, <2>3, NewReadType
  <2>4. ASSUME NEW x \in reads, NEW y \in Read, Answers(x, y)
        PROVE  /\ UNCHANGED <<generation, told>>
               /\ \A z \in reads' : z.generation # mut[m].started
    BY <2>0, <2>4 DEF Answers, Becomes
  <2> QED
    BY <1>0, <1>2, <2>0, <2>1, <2>2, <2>3, <2>4, ReadSteps
<1> QED
  BY <1>1, <1>2, PreparedFrom

ShownInv == ReservedClosed /\ Reconciled

\* Steps that leave the list and its controls, or no list, and reserve nothing.
LEMMA QuietSteps ==
  ASSUME ShownInv, UNCHANGED told, list' = NoList \/ UNCHANGED <<list, closed>>,
         \A m \in Mutations : mut'[m].req = mut[m].req /\ (Reserving(mut'[m]) => Reserving(mut[m]))
  PROVE  ShownInv'
  BY DEF ShownInv, ReservedClosed, Reconciled

\* Steps that begin a mutation on a card as new as what its list was told.
LEMMA BeginSteps ==
  ASSUME TypeOK, ShownInv, NEW m \in Mutations, mut[m].req \in Requests,
         told[mut[m].req] <= list.cards[mut[m].req],
         closed' = closed \cup {mut[m].req}, UNCHANGED <<list, told>>,
         mut'[m].req = mut[m].req, \A n \in Mutations \ {m} : mut'[n] = mut[n]
  PROVE  ShownInv'
<1>1. ReservedClosed'
  BY DEF ShownInv, ReservedClosed
<1>2. list # NoList => list.visible \subseteq Requests
  BY DEF TypeOK, List
<1>3. Reconciled'
  BY <1>2 DEF ShownInv, Reconciled
<1> QED
  BY <1>1, <1>3 DEF ShownInv

\* Steps in which a mutation gives its reservation back: it opens the controls of its card,
\* or tells the list and leaves them closed.
LEMMA ReleaseSteps ==
  ASSUME TypeOK, Owned, ShownInv, NEW m \in Mutations, Reserving(mut[m]), UNCHANGED list,
         \/ closed' = closed \ {mut[m].req} /\ UNCHANGED told
         \/ closed' = closed /\ \A r \in Requests : r # mut[m].req => told'[r] = told[r],
         mut'[m].req = mut[m].req, ~Reserving(mut'[m]), \A n \in Mutations \ {m} : mut'[n] = mut[n]
  PROVE  ShownInv'
<1>1. \A n \in Mutations : Reserving(mut'[n]) => Reserving(mut[n]) /\ mut'[n].req # mut[m].req
  BY DEF Owned
<1>2. \A n \in Mutations : mut'[n].req = mut[n].req
  OBVIOUS
<1>3. ReservedClosed'
  BY <1>1, <1>2 DEF ShownInv, ReservedClosed
<1>4. list # NoList => list.visible \subseteq Requests
  BY DEF TypeOK, List
<1>5. ASSUME list # NoList, NEW r \in list.visible
      PROVE  \/ told'[r] <= list.cards[r]
             \/ r \in closed' /\ \A n \in Mutations : Reserving(mut'[n]) => mut'[n].req # r
  <2>1. CASE r # mut[m].req
    BY <1>1, <1>2, <1>4, <1>5, <2>1 DEF ShownInv, Reconciled
  <2>2. CASE r = mut[m].req /\ closed' = closed
    BY <1>1, <1>5, <2>2 DEF ShownInv, ReservedClosed
  <2>3. CASE r = mut[m].req /\ UNCHANGED told
    BY <1>5, <2>3 DEF ShownInv, Reconciled
  <2> QED
    BY <2>1, <2>2, <2>3
<1>6. Reconciled'
  BY <1>5 DEF Reconciled
<1> QED
  BY <1>3, <1>6 DEF ShownInv

\* Which of these a step of a mutation is.
LEMMA MutationShown ==
  ASSUME TypeOK, Owned, Dialogs, PreparedOn, ShownInv, NEW m \in Mutations,
         PrepareStep(m) \/ WireStep(m)
  PROVE  ShownInv'
<1> USE DEF viewVars
<1>0. /\ mut[m].req \in Requests /\ mut'[m].req = mut[m].req
      /\ \A n \in Mutations \ {m} : mut'[n] = mut[n]
      /\ mut \in [Mutations -> Mutation]
  BY MutationRecord, MutType DEF TypeOK, Mutation
<1>1. CASE Prepare(m) \/ Act(m)
  <2>1. closed' = closed \cup {mut[m].req} /\ UNCHANGED <<list, told>>
    BY <1>1 DEF Prepare, Act, Begin
  <2> QED
    BY <1>0, <1>1, <2>1, BeginsFrom, UsableIsNew, BeginSteps DEF ShownInv
<1>2. CASE Propose(m)
  <2>1. closed' = closed \cup {mut[m].req} /\ UNCHANGED <<list, told>>
    BY <1>2 DEF Propose, Begin
  <2>2. Prepared(mut[m])
    BY <1>2 DEF Propose, Dialogs, Prepared
  <2>3. mut[m].own /\ mut[m].started = generation /\ list # NoList
    BY <1>2 DEF Propose, IsCurrentInteraction, TypeOK
  <2> QED
    BY <1>0, <2>1, <2>2, <2>3, BeginSteps DEF PreparedOn
<1>3. CASE \/ ServeContext(m) \/ ServeCatalogAgain(m) \/ PrepareAgain(m)
           \/ Accept(m) \/ Refuse(m) \/ Dismiss(m)
  <2>1. UNCHANGED <<list, closed, told, entry>>
    BY <1>3 DEF ServeContext, ServeCatalogAgain, PrepareAgain, Accept, Refuse, Dismiss
  <2>2. Reserving(mut'[m]) => Reserving(mut[m])
    <3>1. CASE ServeContext(m) \/ ServeCatalogAgain(m) \/ PrepareAgain(m)
      BY <3>1 DEF ServeContext, ServeCatalogAgain, PrepareAgain, Reserving
    <3>2. CASE Accept(m) \/ Refuse(m)
      BY <3>2 DEF Accept, Refuse, Reserving, Wire
    <3>3. CASE Dismiss(m)
      BY <3>3, <1>0, OverReserves DEF Dismiss
    <3> QED
      BY <1>3, <3>1, <3>2, <3>3
  <2> QED
    BY <1>0, <2>1, <2>2, QuietSteps
<1>4. CASE OpenDialog(m) \/ MissDialog(m) \/ GiveUpPreparation(m) \/ FailPreparation(m)
  <2>1. Reserving(mut[m]) /\ UNCHANGED <<list, told>> /\ closed' \in {closed, closed \ {mut[m].req}}
    BY <1>4 DEF OpenDialog, MissDialog, GiveUpPreparation, FailPreparation, Reserving, RefreshIf,
                Refresh
  <2>2. ~Reserving(mut'[m])
    <3>1. CASE OpenDialog(m)
      BY <1>0, <3>1 DEF OpenDialog, Reserving, Wire, Mutation
    <3>2. CASE Ends(m)
      BY <3>2, EndsOver, OverReserves
    <3> QED
      BY <1>4, <3>1, <3>2 DEF Ends
  <2> QED
    BY <1>0, <2>1, <2>2, ReleaseSteps
<1>5. CASE Fail(m) \/ ProposalFails(m)
  <2>1. Reserving(mut[m]) /\ UNCHANGED <<list, told>> /\ closed' \in {closed, closed \ {mut[m].req}}
    BY <1>5 DEF Fail, ProposalFails, Reserving
  <2>2. ~Reserving(mut'[m])
    <3>1. CASE ProposalFails(m)
      BY <1>0, <3>1 DEF ProposalFails, Reserving, Wire, Mutation
    <3>2. CASE Fail(m)
      BY <3>2, EndsOver, OverReserves DEF Ends
    <3> QED
      BY <1>5, <3>1, <3>2
  <2> QED
    BY <1>0, <2>1, <2>2, ReleaseSteps
<1>6. CASE Succeed(m) \/ ProposalSucceeds(m)
  <2>1. Reserving(mut[m]) /\ UNCHANGED <<list, closed>> /\ Tell(m)
    BY <1>6 DEF Succeed, ProposalSucceeds, Reserving, Wire, RefreshIf, Refresh
  <2>2. \A r \in Requests : r # mut[m].req => told'[r] = told[r]
    BY <2>1 DEF Tell, TypeOK, Versions
  <2>3. ~Reserving(mut'[m])
    BY <1>6, EndsOver, OverReserves DEF Ends
  <2> QED
    BY <1>0, <2>1, <2>2, <2>3, ReleaseSteps
<1> QED
  BY <1>1, <1>2, <1>3, <1>4, <1>5, <1>6 DEF PrepareStep, WireStep

\* Every step keeps it: what is drawn was answered after everything the list was told.
LEMMA ShownStep ==
  /\ TypeOK /\ Owned /\ ViewInv /\ Dialogs /\ NewerTold /\ PreparedOn /\ ShownInv
  /\ [Next]_vars
  => ShownInv'
<1> SUFFICES ASSUME TypeOK, Owned, ViewInv, Dialogs, NewerTold, PreparedOn, ShownInv, [Next]_vars
             PROVE  ShownInv'
  OBVIOUS
<1> USE DEF viewVars
<1>1. ASSUME NEW m \in Mutations, PrepareStep(m) \/ WireStep(m) PROVE ShownInv'
  BY <1>1, MutationShown
<1>2. ASSUME Leave \/ \E x \in reads : ReadStep(x)
      PROVE  \A m \in Mutations :
               mut'[m].req = mut[m].req /\ (Reserving(mut'[m]) => Reserving(mut[m]))
  BY <1>2, ViewMutations DEF SameButFollowed, Reserving
<1>3. CASE Leave
  BY <1>2, <1>3, QuietSteps DEF Leave
<1>4. ASSUME NEW x \in reads, NEW visible \in SUBSET Requests, IsCurrent(x), Draw(x, visible)
      PROVE  ShownInv'
  <2>1. /\ list' # NoList /\ list'.cards = x.cards /\ list'.visible = visible
        /\ x.cards # NoAnswer /\ x.generation = generation
    BY <1>4, DrawnRead, TypeStep DEF IsCurrent, Draw, TypeOK
  <2>2. closed' = Reserved /\ UNCHANGED <<entry, told>>
    BY <1>4 DEF Draw
  <2>3. Reconciled'
    BY <2>1, <2>2 DEF Reconciled, NewerTold
  <2>4. \A m \in Mutations : Reserving(mut'[m]) => mut'[m].req \in closed'
    <3>1. \A m \in Mutations : Reserving(mut[m]) => mut[m].req \in Reserved
      BY NoMutationAssumption DEF Owned, Reserved, TypeOK, Mutation
    <3> QED
      BY <1>2, <1>4, <2>2, <3>1 DEF ReadStep
  <2> QED
    BY <2>3, <2>4 DEF ShownInv, ReservedClosed
<1>5. ASSUME NEW x \in reads, ReadStep(x), ~\E visible \in SUBSET Requests : IsCurrent(x) /\ Draw(x, visible)
      PROVE  ShownInv'
  <2>1. UNCHANGED told /\ (list' = NoList \/ UNCHANGED <<list, closed>>)
    BY <1>5 DEF ReadStep, ServeCatalog, ServeList, StartLookups, LookupChange, LookupContext,
                Becomes, Draw, DropRead, FailRead
  <2> QED
    BY <1>2, <1>5, <2>1, QuietSteps
<1>6. CASE Lock \/ EndSession
  BY <1>6, OverMutation, OverReserves, QuietSteps DEF Lock, EndSession, Close
<1>7. CASE Open \/ ClickRefresh \/ Relocate \/ UNCHANGED vars \/ \E r \in Requests : Elsewhere(r)
  BY <1>7, QuietSteps DEF Open, ClickRefresh, Refresh, Relocate, Elsewhere, vars
<1> QED
  BY <1>1, <1>3, <1>4, <1>5, <1>6, <1>7 DEF Next

\* A card with usable controls is at least as new as every mutation whose success the
\* shown list was told of, whatever views were opened and left, whichever refreshes were
\* superseded, failed and gave the cards back, and however preparations came back.
THEOREM UsableCardsAreReconciled == Spec => []UsableIsReconciled
<1> DEFINE Inv == TellsPast /\ Dialogs /\ NewerTold /\ PreparedOn /\ ShownInv
<1>1. Init => Inv
  <2>1. \A r, k : Unborn(r, k).phase = "unborn"
    BY DEF Unborn
  <2>2. ASSUME Init PROVE \A m \in Mutations : mut[m].phase = "unborn"
    BY <2>1, <2>2 DEF Init
  <2>3. ASSUME Init PROVE Past(told)
    BY <2>3 DEF Init, Past
  <2>4. ASSUME Init PROVE reads = {} /\ list = NoList
    BY <2>4 DEF Init
  <2>5. ASSUME Init PROVE TellsPast /\ NewerTold /\ ShownInv
    BY <2>2, <2>3, <2>4, <2>5 DEF TellsPast, NewerTold, ShownInv, ReservedClosed, Reconciled
  <2>6. ASSUME Init PROVE Dialogs /\ PreparedOn
    BY <2>2, <2>6 DEF Dialogs, PreparedOn, Prepared, Wire
  <2> QED
    BY <2>5, <2>6
<1>2. TypeOK /\ Owned /\ ViewInv /\ Inv /\ [Next]_vars => Inv'
  BY TellsPastStep, DialogsStep, NewerToldStep, PreparedOnStep, ShownStep DEF ShownInv
<1>3. TypeOK /\ Inv => UsableIsReconciled
  BY UsableIsNew DEF ShownInv, UsableIsReconciled
<1> QED
  BY <1>1, <1>2, <1>3, OwnedInvariant, ViewInvariant, PTL DEF Spec

=============================================================================
