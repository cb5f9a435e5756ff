--------------------- MODULE TenantAdministration_proofs ---------------------
(***************************************************************************)
(* The safety properties of TenantAdministration, for all files, types and      *)
(* sections and without the bounds playing a part.                               *)
(***************************************************************************)
EXTENDS TenantAdministration, TLAPS

USE FilesAssumption, CandidateAssumption

-----------------------------------------------------------------------------
(* The panel: inductive invariant *)

Answered == {v \in validations : v.answer \in {"changed", "unchanged"}}

\* Only the latest validation can be of the present generation, and when it is answered
\* none is.
Latest ==
  /\ \A v \in validations : v.generation <= generation
  /\ \A v, w \in validations : v.generation = w.generation => v = w
  /\ validated # NoCandidate => \A v \in validations : v.generation < generation

\* What is validated is what is selected; receipts are for what was sent with them.
Matching ==
  /\ enabled => validated # NoCandidate
  /\ validated # NoCandidate => selection = <<validated.type, validated.file>>
  /\ validated # NoCandidate => Bound(validated)
  /\ pending # NoCandidate => Bound(pending)
  /\ \A v \in validations : v.answer # "awaited" => v.file \in Files
  /\ \A v \in Answered : Bound(v)

\* A receipt that was not sent yet is in one place.
Fresh ==
  /\ \A r \in sent.once : r \in DOMAIN receipts
  /\ sent.again = {}
  /\ enabled => validated.receipt \notin sent.once
  /\ \A v \in Answered :
       /\ v.receipt \notin sent.once
       /\ validated # NoCandidate => v.receipt # validated.receipt
       /\ \A w \in Answered : v.receipt = w.receipt => v = w

PanelInv == TypeOK /\ Latest /\ Matching /\ Fresh

\* An empty panel satisfies the invariant, whatever the backend issued.
LEMMA EmptyPanel ==
  ASSUME Empty, live \in BOOLEAN, type \in Types, receipts \in Seq(Types \X Files)
  PROVE  PanelInv
<1>1. TypeOK
  BY DEF Empty, TypeOK
<1>2. Latest /\ Matching /\ Fresh
  BY DEF Empty, Latest, Matching, Fresh, Answered
<1> QED
  BY <1>1, <1>2 DEF PanelInv

\* Opening the panel.
LEMMA MountInv ==
  ASSUME PanelInv, Mount
  PROVE  PanelInv'
<1>1. Empty' /\ live' \in BOOLEAN /\ type' \in Types /\ receipts' \in Seq(Types \X Files)
  BY DEF PanelInv, TypeOK, Mount, Empty, selection
<1> QED
  BY <1>1 DEF PanelInv, TypeOK, Mount, Latest, Matching, Fresh, Answered, Bound, selection

\* Replacing the panel.
LEMMA DetachInv ==
  ASSUME PanelInv, Detach
  PROVE  PanelInv'
<1>1. Empty' /\ live' \in BOOLEAN /\ type' \in Types /\ receipts' \in Seq(Types \X Files)
  BY DEF PanelInv, TypeOK, Detach, Empty
<1>2. TypeOK'
  BY <1>1 DEF Empty, TypeOK
<1>3. (Latest /\ Matching /\ Fresh)'
  BY <1>1 DEF Empty, Latest, Matching, Fresh, Answered
<1> QED
  BY <1>2, <1>3 DEF PanelInv

\* Choosing a type or a file.
LEMMA ChooseInv ==
  ASSUME PanelInv, NEW t \in Types, NEW f \in Files, Choose(t, f)
  PROVE  PanelInv'
<1> USE DEF Choose
<1>1. TypeOK'
  <2>1. live' /\ live' \in BOOLEAN /\ enabled' \in BOOLEAN
    BY DEF PanelInv, TypeOK
  <2>2. generation' \in Nat
    BY DEF PanelInv, TypeOK
  <2> QED
    BY <2>1, <2>2 DEF PanelInv, TypeOK
<1>2. Latest'
  BY DEF PanelInv, TypeOK, Validation, Latest
<1>3. Matching'
  BY DEF PanelInv, Matching, Answered, Bound
<1>4. Fresh'
  BY DEF PanelInv, Fresh, Answered
<1> QED
  BY <1>1, <1>2, <1>3, <1>4 DEF PanelInv

\* Beginning a validation.
LEMMA ValidateInv ==
  ASSUME PanelInv, Validate
  PROVE  PanelInv'
<1> DEFINE new == [generation |-> generation + 1, type |-> type, file |-> file,
                   answer |-> "awaited", receipt |-> 0]
<1>1. new \in Validation /\ validations' = validations \cup {new}
  BY DEF PanelInv, TypeOK, Validate, Validation
<1>2. TypeOK'
  <2>1. live' /\ live' \in BOOLEAN /\ enabled' \in BOOLEAN
    BY DEF PanelInv, TypeOK, Validate
  <2>2. generation' \in Nat /\ validations' \subseteq Validation
    BY <1>1 DEF PanelInv, TypeOK, Validate
  <2> QED
    BY <2>1, <2>2 DEF PanelInv, TypeOK, Validate, selection
<1>3. Latest'
  BY <1>1 DEF PanelInv, TypeOK, Validate, Validation, Latest
<1>4. Answered' = Answered
  BY <1>1 DEF Answered
<1>5. Matching'
  BY <1>1, <1>4 DEF PanelInv, Matching, Validate, Bound
<1>6. Fresh'
  BY <1>4 DEF PanelInv, Fresh, Validate
<1> QED
  BY <1>2, <1>3, <1>5, <1>6 DEF PanelInv

\* Receiving the answer to a validation.
LEMMA ReceiveValidationInv ==
  ASSUME PanelInv, NEW v \in validations, ReceiveValidation(v)
  PROVE  PanelInv'
<1> DEFINE counts == generation = v.generation /\ selection = <<v.type, v.file>>
           candidate == [type |-> v.type, file |-> v.file, receipt |-> v.receipt]
<1>1. /\ v \in Validation /\ v.answer # "awaited" /\ v.file \in Files
      /\ validations' = validations \ {v}
      /\ UNCHANGED <<live, type, file, generation, pending, receipts, sent>>
  BY DEF PanelInv, TypeOK, Matching, ReceiveValidation, selection
<1>2. candidate \in Candidate /\ candidate # NoCandidate
  BY <1>1 DEF Validation, Candidate
<1>3. CASE counts /\ v.answer = "invalid"
  <2>1. validated' = NoCandidate /\ enabled' = FALSE
    BY <1>3 DEF ReceiveValidation
  <2>2. TypeOK'
    BY <1>1, <2>1 DEF PanelInv, TypeOK, Empty
  <2>3. Latest' /\ Matching' /\ Fresh'
    BY <1>1, <2>1 DEF PanelInv, Latest, Matching, Fresh, Answered, Bound
  <2> QED
    BY <2>2, <2>3 DEF PanelInv
<1>4. CASE counts /\ v.answer # "invalid"
  <2>1. validated' = candidate /\ enabled' \in BOOLEAN
    BY <1>4 DEF ReceiveValidation
  <2>2. v \in Answered
    BY <1>1, <1>4 DEF Answered, Validation
  <2>3. TypeOK'
    BY <1>1, <1>2, <2>1 DEF PanelInv, TypeOK, Empty
  <2>4. Latest'
    BY <1>1, <1>4, <2>1 DEF PanelInv, TypeOK, Validation, Latest
  <2>5. Bound(v) /\ v.receipt \notin sent.once
        /\ \A w \in Answered : v.receipt = w.receipt => v = w
    BY <2>2 DEF PanelInv, Matching, Fresh
  <2>6. Matching'
    BY <1>1, <1>2, <1>4, <2>1, <2>5 DEF PanelInv, Matching, Answered, Bound, selection
  <2>7. Fresh'
    BY <1>1, <1>2, <2>1, <2>5 DEF PanelInv, Fresh, Answered
  <2> QED
    BY <2>3, <2>4, <2>6, <2>7 DEF PanelInv
<1>5. CASE ~counts
  <2>1. UNCHANGED <<validated, enabled>>
    BY <1>5 DEF ReceiveValidation
  <2>2. TypeOK'
    BY <1>1, <2>1 DEF PanelInv, TypeOK, Empty
  <2>3. Latest'
    BY <1>1, <2>1 DEF PanelInv, Latest
  <2>4. Matching'
    BY <1>1, <2>1 DEF PanelInv, Matching, Answered, Bound, selection
  <2>5. Fresh'
    BY <1>1, <2>1 DEF PanelInv, Fresh, Answered
  <2> QED
    BY <2>2, <2>3, <2>4, <2>5 DEF PanelInv
<1> QED
  BY <1>3, <1>4, <1>5

\* A validation that fails.
LEMMA FailValidationInv ==
  ASSUME PanelInv, NEW v \in validations, FailValidation(v)
  PROVE  PanelInv'
<1> USE DEF FailValidation, selection
<1>1. TypeOK'
  BY DEF PanelInv, TypeOK, Empty
<1>2. Latest'
  BY DEF PanelInv, Latest
<1>3. Matching'
  BY DEF PanelInv, Matching, Answered, Bound
<1>4. Fresh'
  BY DEF PanelInv, Fresh, Answered
<1> QED
  BY <1>1, <1>2, <1>3, <1>4 DEF PanelInv

\* Applying what was validated: its receipt was not sent before.
LEMMA ApplyInv ==
  ASSUME PanelInv, Apply
  PROVE  PanelInv'
<1> DEFINE p == [type |-> validated.type, file |-> validated.file,
                 receipt |-> validated.receipt, answer |-> "awaited"]
<1>1. /\ validated \in Candidate /\ enabled /\ live
      /\ pending' = p /\ enabled' = FALSE
      /\ sent' = [once |-> sent.once \cup {validated.receipt},
                  again |-> sent.again \cup (sent.once \cap {validated.receipt})]
      /\ UNCHANGED <<live, type, file, generation, validated, validations, receipts>>
  BY DEF PanelInv, TypeOK, Apply, selection
<1>2. p \in Applying /\ p # NoCandidate
  BY <1>1 DEF Candidate, Applying
<1>3. TypeOK'
  <2>1. sent' \in [once : SUBSET Nat, again : SUBSET Nat]
    BY <1>1 DEF PanelInv, TypeOK, Candidate
  <2>2. live' /\ live' \in BOOLEAN
    BY <1>1
  <2> QED
    BY <1>1, <1>2, <2>1, <2>2 DEF PanelInv, TypeOK
<1>4. Latest'
  BY <1>1 DEF PanelInv, Latest
<1>5. validated # NoCandidate /\ Bound(validated)
  BY <1>1 DEF PanelInv, Matching
<1>6. Matching'
  BY <1>1, <1>5 DEF PanelInv, Matching, Answered, Bound, selection
<1>7. sent'.once = sent.once \cup {validated.receipt} /\ sent'.again = {}
  BY <1>1 DEF PanelInv, Fresh
<1>8. validated.receipt \in DOMAIN receipts
  BY <1>5 DEF Bound
<1>9. Fresh'
  BY <1>1, <1>5, <1>7, <1>8 DEF PanelInv, Fresh, Answered
<1> QED
  BY <1>3, <1>4, <1>6, <1>9 DEF PanelInv

\* An application that fails.
LEMMA FailApplyInv ==
  ASSUME PanelInv, FailApply
  PROVE  PanelInv'
<1> USE DEF FailApply, selection
<1>1. TypeOK'
  BY DEF PanelInv, TypeOK, Empty
<1>2. Latest' /\ Matching' /\ Fresh'
  BY DEF PanelInv, Latest, Matching, Fresh, Answered, Bound
<1> QED
  BY <1>1, <1>2 DEF PanelInv

\* The backend answers an application.
LEMMA ServeApplyInv ==
  ASSUME PanelInv, ServeApply
  PROVE  PanelInv'
<1>1. /\ pending \in Applying /\ pending # NoCandidate
      /\ pending' = [pending EXCEPT !.answer = "done"]
      /\ UNCHANGED <<live, type, file, generation, validated, enabled, validations, receipts, sent>>
  BY DEF PanelInv, TypeOK, ServeApply, selection
<1>2. /\ pending' \in Applying
      /\ pending'.type = pending.type /\ pending'.file = pending.file
      /\ pending'.receipt = pending.receipt
  BY <1>1 DEF Applying
<1>3. TypeOK'
  <2>1. live /\ live'
    BY <1>1 DEF PanelInv, TypeOK, Empty
  <2> QED
    BY <1>1, <1>2, <2>1 DEF PanelInv, TypeOK
<1>4. Latest' /\ Matching' /\ Fresh'
  BY <1>1, <1>2 DEF PanelInv, Latest, Matching, Fresh, Answered, Bound, selection
<1> QED
  BY <1>3, <1>4 DEF PanelInv

\* The backend answers a validation: a new receipt is like no other.
LEMMA ServeValidationInv ==
  ASSUME PanelInv, NEW v \in validations, ServeValidation(v)
  PROVE  PanelInv'
<1>1. /\ v \in Validation /\ v.answer = "awaited" /\ v.file \in Files
      /\ UNCHANGED <<live, type, file, generation, validated, enabled, pending, sent>>
  BY DEF PanelInv, TypeOK, ServeValidation, Validation, selection
<1>2. live /\ live'
  BY <1>1 DEF PanelInv, TypeOK, Empty
<1>3. CASE /\ validations' = (validations \ {v}) \cup {[v EXCEPT !.answer = "invalid"]}
           /\ UNCHANGED receipts
  <2> DEFINE w == [v EXCEPT !.answer = "invalid"]
  <2>1. w \in Validation /\ w.answer = "invalid" /\ w.generation = v.generation
        /\ w.file = v.file
    BY <1>1 DEF Validation
  <2>2. TypeOK'
    BY <1>1, <1>2, <1>3, <2>1 DEF PanelInv, TypeOK
  <2>3. Latest'
    BY <1>1, <1>3, <2>1 DEF PanelInv, Latest
  <2>4. Answered' = Answered
    BY <1>1, <1>3, <2>1 DEF Answered
  <2>5. Matching'
    BY <1>1, <1>3, <2>1, <2>4 DEF PanelInv, Matching, Bound, selection
  <2>6. Fresh'
    BY <1>1, <1>3, <2>4 DEF PanelInv, Fresh
  <2> QED
    BY <2>2, <2>3, <2>5, <2>6 DEF PanelInv
<1>4. ASSUME NEW a \in {"changed", "unchanged"},
             receipts' = Append(receipts, <<v.type, v.file>>),
             validations' = (validations \ {v}) \cup
               {[v EXCEPT !.answer = a, !.receipt = Len(receipts) + 1]}
      PROVE  PanelInv'
  <2> DEFINE n == Len(receipts) + 1
             w == [v EXCEPT !.answer = a, !.receipt = n]
  <2>1. receipts \in Seq(Types \X Files) /\ <<v.type, v.file>> \in Types \X Files
    BY <1>1 DEF PanelInv, TypeOK, Validation
  <2>2. /\ receipts' \in Seq(Types \X Files)
        /\ \A r \in DOMAIN receipts : r \in DOMAIN receipts' /\ receipts'[r] = receipts[r]
        /\ n \in Nat /\ n \notin DOMAIN receipts /\ n \in DOMAIN receipts'
        /\ receipts'[n] = <<v.type, v.file>>
    BY <1>4, <2>1
  <2>3. /\ w \in Validation /\ w.answer = a /\ w.generation = v.generation
        /\ w.type = v.type /\ w.file = v.file /\ w.receipt = n
        /\ validations' = (validations \ {v}) \cup {w}
    BY <1>1, <1>4, <2>2 DEF Validation
  <2>4. TypeOK'
    BY <1>1, <1>2, <1>4, <2>2, <2>3 DEF PanelInv, TypeOK
  <2>5. Latest'
    <3> HIDE DEF w
    <3> QED
      BY <1>1, <2>3 DEF PanelInv, Latest
  <2>6. Answered' = Answered \cup {w}
    BY <1>1, <1>4, <2>3 DEF Answered
  <2>7. \A x \in Answered : Bound(x) /\ x.receipt # n
    BY <2>2 DEF PanelInv, Matching, Bound
  <2>8. validated # NoCandidate => Bound(validated) /\ Bound(validated)' /\ validated.receipt # n
    BY <1>1, <2>2 DEF PanelInv, Matching, Bound
  <2>9. \A x \in Answered' : Bound(x)'
    BY <2>2, <2>3, <2>6, <2>7 DEF Bound
  <2>10. pending # NoCandidate => Bound(pending)'
    BY <1>1, <2>2 DEF PanelInv, Matching, Bound
  <2>11. \A x \in validations' : x.answer # "awaited" => x.file \in Files
    BY <1>1, <1>4, <2>3 DEF PanelInv, Matching
  <2>12. Matching'
    BY <1>1, <2>8, <2>9, <2>10, <2>11 DEF PanelInv, Matching, selection
  <2>13. n \notin sent.once
    BY <2>2 DEF PanelInv, Fresh
  <2>14. Fresh'
    BY <1>1, <2>2, <2>3, <2>6, <2>7, <2>8, <2>13 DEF PanelInv, Fresh
  <2> QED
    BY <2>4, <2>5, <2>12, <2>14 DEF PanelInv
<1> QED
  BY <1>3, <1>4 DEF ServeValidation

\* Every step of the panel keeps its invariant.
LEMMA PanelStepInv ==
  ASSUME PanelInv, Mount \/ Detach \/ Panel \/ ServeApply \/ UNCHANGED vars
  PROVE  PanelInv'
<1>1. CASE Panel
  <2>1. ASSUME NEW t \in Types, NEW f \in Files, Choose(t, f)
        PROVE  PanelInv'
    BY <2>1, ChooseInv
  <2>2. ASSUME NEW v \in validations,
               ServeValidation(v) \/ ReceiveValidation(v) \/ FailValidation(v)
        PROVE  PanelInv'
    BY <2>2, ServeValidationInv, ReceiveValidationInv, FailValidationInv
  <2> QED
    BY <1>1, <2>1, <2>2, ValidateInv, ApplyInv, FailApplyInv DEF Panel
<1>2. CASE UNCHANGED vars
  BY <1>2 DEF vars, selection, PanelInv, TypeOK, Empty, Latest, Matching, Fresh, Answered, Bound
<1> QED
  BY <1>1, <1>2, MountInv, DetachInv, ServeApplyInv

\* The invariant says what the property does.
LEMMA PanelInvImplies == PanelInv => AppliedAsValidated
  BY DEF PanelInv, TypeOK, Latest, Matching, Fresh, AppliedAsValidated

-----------------------------------------------------------------------------
(* The settings: inductive invariant *)

Waiting == {"saving", "reapplying"}

\* A rendering has one load and one save on its way at most, and no form while it loads.
OnePerSurface ==
  /\ \A l \in loads : l.surface <= surface
  /\ \A l, m \in loads : l.surface = m.surface => l = m
  /\ \A c \in calls : c.surface <= surface
  /\ \A c, d \in calls : c.surface = d.surface => c = d
  /\ \A l \in loads : Settings!Current(l.surface) => form.phase = "none" /\ section = l.section
  /\ form.phase # "none" => open /\ section \in Sections

\* The presentation is not ahead of its highest revision, and shows what was saved.
Shown ==
  /\ presentation.revision <= presentation.highest
  /\ presentation.trusted => saved <= presentation.revision
  /\ \A c \in calls : c.step \in {"refresh", "refreshed"} =>
       /\ c.section = "organization"
       /\ presentation.trusted => c.revision <= presentation.revision

SettingsInv == Settings!TypeOK /\ OnePerSurface /\ Shown

\* The types, as facts to cite.
LEMMA SettingsTypes ==
  ASSUME Settings!TypeOK
  PROVE  /\ section \in Settings!Pages
         /\ surface \in Nat
         /\ open \in BOOLEAN
         /\ loads \subseteq Settings!Load
         /\ form \in Settings!Form
         /\ calls \subseteq Settings!Save
         /\ form.phase \in Waiting <=> \E c \in calls : Settings!Current(c.surface)
         /\ presentation \in Settings!Presentation
         /\ saved \in Nat
         /\ revision \in [Sections -> Nat]
  BY DEF Settings!TypeOK, Waiting

\* Rendering a section, while some of the saves on their way end.
LEMMA RenderInv ==
  ASSUME SettingsInv, NEW s \in Settings!Pages, Settings!Render(s),
         calls' \subseteq calls, UNCHANGED revision,
         presentation' \in Settings!Presentation, saved' \in Nat, Shown'
  PROVE  SettingsInv'
<1> DEFINE new == [surface |-> surface + 1, section |-> s, read |-> 0]
<1>1. /\ section' = s /\ surface' = surface + 1 /\ open' = TRUE
      /\ form' = Settings!NoForm
      /\ loads' = IF s = "overview" THEN loads ELSE loads \cup {new}
  BY DEF Settings!Render
<1>2. form'.phase = "none" /\ form' \in Settings!Form
  BY <1>1 DEF Settings!NoForm, Settings!Form, Settings!Phases
<1>3. surface \in Nat /\ loads \subseteq Settings!Load /\ calls \subseteq Settings!Save
  BY SettingsTypes DEF SettingsInv
<1>4. s # "overview" => new \in Settings!Load
  BY <1>3 DEF Settings!Load, Settings!Pages
<1>5. \A c \in calls' : c \in calls /\ c.surface \in Nat /\ c.surface <= surface
  BY <1>3 DEF SettingsInv, OnePerSurface, Settings!Save
<1>6. ~ \E c \in calls' : Settings!Current(c.surface)'
  BY <1>1, <1>3, <1>5 DEF Settings!Current
<1>7. Settings!TypeOK'
  <2>1. ~(form'.phase \in {"saving", "reapplying"})
    BY <1>2
  <2>2. loads' \subseteq Settings!Load /\ surface' \in Nat /\ calls' \subseteq Settings!Save
    BY <1>1, <1>3, <1>4
  <2>3. revision' \in [Sections -> Nat]
    BY SettingsTypes DEF SettingsInv
  <2>4. (form.phase \in {"saving", "reapplying"} <=> \E c \in calls : Settings!Current(c.surface))'
    BY <1>6, <2>1
  <2> QED
    BY <1>1, <1>2, <2>2, <2>3, <2>4 DEF Settings!TypeOK
<1>8. OnePerSurface'
  <2>1. \A l \in loads : l.surface \in Nat /\ l.surface <= surface
    BY <1>3 DEF SettingsInv, OnePerSurface, Settings!Load
  <2>2. \A l \in loads' : l.surface <= surface'
    BY <1>1, <1>3, <2>1
  <2>3. \A l, m \in loads' : l.surface = m.surface => l = m
    BY <1>1, <1>3, <2>1 DEF SettingsInv, OnePerSurface
  <2>4. \A c \in calls' : c.surface <= surface'
    BY <1>1, <1>3, <1>5
  <2>5. \A c, d \in calls' : c.surface = d.surface => c = d
    BY <1>5 DEF SettingsInv, OnePerSurface
  <2>6. \A l \in loads' : Settings!Current(l.surface)' => form'.phase = "none" /\ section' = l.section
    BY <1>1, <1>2, <1>3, <2>1 DEF Settings!Current
  <2> QED
    BY <1>2, <2>2, <2>3, <2>4, <2>5, <2>6 DEF OnePerSurface
<1> QED
  BY <1>7, <1>8 DEF SettingsInv

\* Whatever takes the shell from the page.
LEMMA ClosedInv ==
  ASSUME SettingsInv, open' = FALSE, form' = Settings!NoForm,
         UNCHANGED <<section, surface, saved, revision>>,
         loads' \subseteq loads, calls' \subseteq calls,
         presentation' \in Settings!Presentation, Shown'
  PROVE  SettingsInv'
<1>1. form'.phase = "none" /\ form' \in Settings!Form
  BY DEF Settings!NoForm, Settings!Form, Settings!Phases
<1>2. ~ \E c \in calls' : Settings!Current(c.surface)'
  BY DEF Settings!Current
<1>3. (form.phase \in {"saving", "reapplying"} <=> \E c \in calls : Settings!Current(c.surface))'
  BY <1>1, <1>2
<1>4. Settings!TypeOK'
  BY <1>1, <1>3, SettingsTypes DEF SettingsInv, Settings!TypeOK
<1>5. OnePerSurface'
  BY <1>1 DEF SettingsInv, OnePerSurface, Settings!Current
<1> QED
  BY <1>4, <1>5 DEF SettingsInv

\* Leaving the settings.
LEMMA LeaveInv ==
  ASSUME SettingsInv, Settings!Leave
  PROVE  SettingsInv'
<1>1. Shown'
  BY DEF SettingsInv, Shown, Settings!Leave
<1> QED
  BY <1>1, ClosedInv, SettingsTypes DEF SettingsInv, Settings!Leave

\* Losing the authority.
LEMMA DeniedInv ==
  ASSUME SettingsInv, Settings!Denied, loads' \subseteq loads, calls' \subseteq calls
  PROVE  SettingsInv'
<1>1. presentation' \in Settings!Presentation /\ ~presentation'.trusted
      /\ presentation'.revision <= presentation'.highest
  BY SettingsTypes DEF SettingsInv, Settings!Denied, Settings!Presentation
<1>2. Shown'
  BY <1>1 DEF SettingsInv, Shown
<1> QED
  BY <1>1, <1>2, ClosedInv DEF Settings!Denied

\* The loads of a section.
LEMMA LoadInv ==
  ASSUME SettingsInv, NEW l \in loads,
         Settings!ServeLoad(l) \/ Settings!ReceiveLoad(l) \/ Settings!FailLoad(l)
  PROVE  SettingsInv'
<1>1. /\ UNCHANGED <<section, surface, open, calls, presentation, saved, revision>>
  BY DEF Settings!ServeLoad, Settings!ReceiveLoad, Settings!FailLoad
<1>2. Shown'
  BY <1>1 DEF SettingsInv, Shown
<1>3. l \in Settings!Load
  BY SettingsTypes DEF SettingsInv
<1>4. CASE Settings!ServeLoad(l)
  <2> DEFINE m == [l EXCEPT !.read = revision[l.section]]
  <2>1. loads' = (loads \ {l}) \cup {m} /\ form' = form
    BY <1>4 DEF Settings!ServeLoad
  <2>2. m \in Settings!Load /\ m.surface = l.surface /\ m.section = l.section
    BY <1>3, SettingsTypes DEF SettingsInv, Settings!Load
  <2> HIDE DEF m
  <2>3. Settings!TypeOK'
    BY <1>1, <2>1, <2>2 DEF SettingsInv, Settings!TypeOK, Settings!Current
  <2>4. OnePerSurface'
    BY <1>1, <2>1, <2>2 DEF SettingsInv, OnePerSurface, Settings!Current
  <2> QED
    BY <1>2, <2>3, <2>4 DEF SettingsInv
<1>5. ASSUME loads' = loads \ {l}, NEW phase \in {"ready", "error"}, NEW base \in Nat,
             form' = IF Settings!Current(l.surface) THEN [phase |-> phase, base |-> base]
                     ELSE form
      PROVE  SettingsInv'
  <2>1. CASE Settings!Current(l.surface)
    <3>1. /\ form.phase = "none" /\ section = l.section /\ section \in Sections /\ open
          /\ form' \in Settings!Form /\ form'.phase = phase
      BY <1>3, <1>5, <2>1 DEF SettingsInv, OnePerSurface, Settings!Current, Settings!Form,
                              Settings!Phases, Settings!Load
    <3>2. ~ \E c \in calls : Settings!Current(c.surface)
      BY <3>1, SettingsTypes DEF SettingsInv, Waiting
    <3>3. (form.phase \in {"saving", "reapplying"} <=> \E c \in calls : Settings!Current(c.surface))'
      BY <1>1, <3>1, <3>2 DEF Settings!Current
    <3>4. Settings!TypeOK'
      BY <1>1, <1>5, <3>1, <3>3 DEF SettingsInv, Settings!TypeOK
    <3>5. \A m \in loads' : ~Settings!Current(m.surface)'
      BY <1>1, <1>5, <2>1 DEF SettingsInv, OnePerSurface, Settings!Current
    <3>6. OnePerSurface'
      BY <1>1, <1>5, <3>1, <3>5 DEF SettingsInv, OnePerSurface
    <3> QED
      BY <1>2, <3>4, <3>6 DEF SettingsInv
  <2>2. CASE ~Settings!Current(l.surface)
    <3>1. form' = form
      BY <1>5, <2>2
    <3>2. Settings!TypeOK' /\ OnePerSurface'
      BY <1>1, <1>5, <3>1 DEF SettingsInv, Settings!TypeOK, OnePerSurface, Settings!Current
    <3> QED
      BY <1>2, <3>2 DEF SettingsInv
  <2> QED
    BY <2>1, <2>2
<1>6. CASE Settings!ReceiveLoad(l)
  BY <1>3, <1>5, <1>6 DEF Settings!ReceiveLoad, Settings!Load
<1>7. CASE Settings!FailLoad(l)
  BY <1>5, <1>7 DEF Settings!FailLoad
<1> QED
  BY <1>4, <1>6, <1>7

\* Beginning to save, with the form or after a conflict.
LEMMA BeginInv ==
  ASSUME SettingsInv, NEW step \in {"put", "reload"}, NEW reapply \in BOOLEAN, NEW base \in Nat,
         NEW phase \in Waiting, open, form.phase \notin Waiting \cup {"none"},
         form' = [form EXCEPT !.phase = phase],
         Settings!Begin(step, reapply, base),
         UNCHANGED <<section, surface, open, loads, presentation, saved, revision>>
  PROVE  SettingsInv'
<1>2. section \in Sections
  BY DEF SettingsInv, OnePerSurface
<1>3. PICK new \in Settings!Save :
        calls' = calls \cup {new} /\ new.surface = surface /\ new.step = step
  <2> DEFINE n == [surface |-> surface, section |-> section, step |-> step, reapply |-> reapply,
                   revision |-> base, read |-> 0, sequence |-> 0]
  <2>1. n \in Settings!Save /\ n.surface = surface /\ n.step = step
    BY <1>2, SettingsTypes DEF SettingsInv, Settings!Save, Settings!Steps
  <2> QED
    BY <2>1 DEF Settings!Begin
<1>4. form' \in Settings!Form /\ form'.phase = phase
  BY SettingsTypes DEF SettingsInv, Settings!Form, Settings!Phases, Waiting
<1>5. \A c \in calls : ~Settings!Current(c.surface) /\ c.surface # surface
  BY SettingsTypes DEF SettingsInv, Settings!Current
<1>6. Settings!Current(new.surface)'
  BY <1>3 DEF Settings!Current
<1>7. (form.phase \in {"saving", "reapplying"} <=> \E c \in calls : Settings!Current(c.surface))'
  BY <1>3, <1>4, <1>6 DEF Waiting
<1>8. Settings!TypeOK'
  BY <1>3, <1>4, <1>7 DEF SettingsInv, Settings!TypeOK
<1>9. OnePerSurface'
  <2>1. \A l \in loads : ~Settings!Current(l.surface)'
    BY DEF SettingsInv, OnePerSurface, Settings!Current
  <2>2. \A c \in calls' : c.surface <= surface'
    BY <1>3, SettingsTypes DEF SettingsInv, OnePerSurface
  <2>3. \A c, d \in calls' : c.surface = d.surface => c = d
    BY <1>3, <1>5 DEF SettingsInv, OnePerSurface
  <2> QED
    BY <1>2, <2>1, <2>2, <2>3 DEF SettingsInv, OnePerSurface
<1>10. Shown'
  BY <1>3 DEF SettingsInv, Shown
<1> QED
  BY <1>8, <1>9, <1>10 DEF SettingsInv

\* Submitting a form, and saving again after a conflict.
LEMMA SubmitInv ==
  ASSUME SettingsInv, Settings!Submit \/ Settings!Reapply
  PROVE  SettingsInv'
<1>1. form.base \in Nat
  BY SettingsTypes DEF SettingsInv, Settings!Form
<1>2. CASE Settings!Submit
  <2>1. form.phase \notin Waiting \cup {"none"}
    BY <1>2 DEF Settings!Submit, Waiting
  <2> QED
    BY <1>1, <1>2, <2>1, BeginInv DEF Settings!Submit, Waiting
<1>3. CASE Settings!Reapply
  <2>1. form.phase \notin Waiting \cup {"none"}
    BY <1>3 DEF Settings!Reapply, Waiting
  <2> QED
    BY <1>3, <2>1, BeginInv DEF Settings!Reapply, Waiting
<1> QED
  BY <1>2, <1>3

\* A save that goes on to its next step.
LEMMA BecomesInv ==
  ASSUME SettingsInv, NEW c \in calls, NEW d \in Settings!Save,
         d.surface = c.surface, Settings!Becomes(c, d),
         UNCHANGED <<section, surface, open, loads, form>>,
         presentation' \in Settings!Presentation, UNCHANGED saved,
         revision' \in [Sections -> Nat], Shown'
  PROVE  SettingsInv'
<1>1. calls' = (calls \ {c}) \cup {d}
  BY DEF Settings!Becomes
<1>2. (\E x \in calls : Settings!Current(x.surface)) <=> (\E x \in calls' : Settings!Current(x.surface)')
  BY <1>1 DEF Settings!Current
<1>3. (form.phase \in {"saving", "reapplying"} <=> \E x \in calls : Settings!Current(x.surface))'
  BY <1>2, SettingsTypes DEF SettingsInv, Waiting
<1>4. Settings!TypeOK'
  BY <1>1, <1>3 DEF SettingsInv, Settings!TypeOK
<1>5. OnePerSurface'
  BY <1>1 DEF SettingsInv, OnePerSurface, Settings!Current
<1> QED
  BY <1>4, <1>5 DEF SettingsInv

\* A save that ends without a new rendering.
LEMMA EndsInv ==
  ASSUME SettingsInv, NEW c \in calls, calls' = calls \ {c},
         NEW phase \in {"conflict", "failed"},
         form' = IF Settings!Current(c.surface) THEN [form EXCEPT !.phase = phase] ELSE form,
         UNCHANGED <<section, surface, open, loads, presentation, saved, revision>>
  PROVE  SettingsInv'
<1>1. Shown'
  BY DEF SettingsInv, Shown
<1>2. CASE Settings!Current(c.surface)
  <2>1. form' \in Settings!Form /\ form'.phase = phase
    BY <1>2, SettingsTypes DEF SettingsInv, Settings!Form, Settings!Phases
  <2>2. \A d \in calls' : ~Settings!Current(d.surface)'
    BY <1>2 DEF SettingsInv, OnePerSurface, Settings!Current
  <2>3. form.phase \in Waiting
    BY <1>2, SettingsTypes DEF SettingsInv
  <2>4. (form.phase \in {"saving", "reapplying"} <=> \E x \in calls : Settings!Current(x.surface))'
    BY <2>1, <2>2
  <2>5. Settings!TypeOK'
    BY <2>1, <2>4 DEF SettingsInv, Settings!TypeOK
  <2>6. open /\ section \in Sections
    BY <2>3 DEF SettingsInv, OnePerSurface, Waiting
  <2>7. \A l \in loads : ~Settings!Current(l.surface)
    BY <2>3 DEF SettingsInv, OnePerSurface, Waiting
  <2>8. OnePerSurface'
    BY <2>6, <2>7 DEF SettingsInv, OnePerSurface, Settings!Current
  <2> QED
    BY <1>1, <2>5, <2>8 DEF SettingsInv
<1>3. CASE ~Settings!Current(c.surface)
  <2>1. form' = form
    BY <1>3
  <2>2. (\E x \in calls : Settings!Current(x.surface)) <=> (\E x \in calls' : Settings!Current(x.surface)')
    BY <1>3 DEF Settings!Current
  <2>3. (form.phase \in {"saving", "reapplying"} <=> \E x \in calls : Settings!Current(x.surface))'
    BY <2>1, <2>2, SettingsTypes DEF SettingsInv, Waiting
  <2>4. Settings!TypeOK'
    BY <2>1, <2>3 DEF SettingsInv, Settings!TypeOK
  <2>5. OnePerSurface'
    BY <2>1 DEF SettingsInv, OnePerSurface, Settings!Current
  <2> QED
    BY <1>1, <2>4, <2>5 DEF SettingsInv
<1> QED
  BY <1>2, <1>3

\* Reporting a save that is over.
LEMMA ReportInv ==
  ASSUME SettingsInv, NEW c \in calls, Settings!Report(c), UNCHANGED revision,
         presentation' \in Settings!Presentation,
         presentation'.trusted => presentation.trusted,
         presentation'.trusted => presentation.revision <= presentation'.revision,
         presentation'.revision <= presentation'.highest,
         c.section = "organization" => c.step \in {"refresh", "refreshed"}
  PROVE  SettingsInv' /\ (presentation'.trusted => saved' <= presentation'.revision)
<1>1. c \in Settings!Save /\ calls' = calls \ {c}
  BY SettingsTypes DEF SettingsInv, Settings!Report
<1>2. presentation.revision \in Nat /\ presentation'.revision \in Nat
  BY SettingsTypes DEF SettingsInv, Settings!Presentation
<1>3. saved' \in Nat /\ saved' \in {saved, c.revision}
      /\ (saved' # saved => c.section = "organization")
  BY <1>1, SettingsTypes DEF SettingsInv, Settings!Report, Settings!Save
<1>4. presentation'.trusted => saved' <= presentation'.revision
  <2>1. presentation.trusted => saved <= presentation.revision
    BY DEF SettingsInv, Shown
  <2>2. c.section = "organization" /\ presentation.trusted => c.revision <= presentation.revision
    BY DEF SettingsInv, Shown
  <2>3. c.revision \in Nat /\ saved \in Nat
    BY <1>1, SettingsTypes DEF SettingsInv, Settings!Save
  <2> QED
    BY <1>2, <1>3, <2>1, <2>2, <2>3
<1>5. Shown'
  <2>1. \A d \in calls' : d.step \in {"refresh", "refreshed"} =>
          /\ d.section = "organization"
          /\ presentation'.trusted => d.revision <= presentation'.revision
    BY <1>1, <1>2, SettingsTypes DEF SettingsInv, Shown, Settings!Save
  <2> QED
    BY <1>4, <2>1 DEF Shown
<1>6. CASE Settings!Current(c.surface)
  <2>1. form.phase \in Waiting
    BY <1>6, SettingsTypes DEF SettingsInv
  <2>2. section \in Settings!Pages /\ Settings!Render(section)
    BY <1>6, SettingsTypes DEF SettingsInv, Settings!Report
  <2>3. SettingsInv'
    BY <1>1, <1>3, <1>5, <2>2, RenderInv
  <2> QED
    BY <1>4, <2>3
<1>7. CASE ~Settings!Current(c.surface)
  <2>1. UNCHANGED <<section, surface, open, loads, form, saved>>
    BY <1>7 DEF Settings!Report, Settings!surfaceVars
  <2>2. (\E x \in calls : Settings!Current(x.surface)) <=> (\E x \in calls' : Settings!Current(x.surface)')
    BY <1>1, <1>7, <2>1 DEF Settings!Current
  <2>3. (form.phase \in {"saving", "reapplying"} <=> \E x \in calls : Settings!Current(x.surface))'
    BY <2>1, <2>2, SettingsTypes DEF SettingsInv, Waiting
  <2>4. Settings!TypeOK'
    BY <1>1, <2>1, <2>3 DEF SettingsInv, Settings!TypeOK
  <2>5. OnePerSurface'
    BY <1>1, <2>1 DEF SettingsInv, OnePerSurface, Settings!Current
  <2> QED
    BY <1>4, <1>5, <2>4, <2>5 DEF SettingsInv
<1> QED
  BY <1>6, <1>7

\* What the presentation is told of, in the steps that change it.
KeepsUp ==
  presentation'.trusted =>
    /\ presentation.revision <= presentation'.revision
    /\ saved' <= presentation'.revision

\* A step that leaves the presentation and what was reported alone.
LEMMA KeepsUpUnchanged ==
  ASSUME SettingsInv, UNCHANGED <<presentation, saved>>
  PROVE  KeepsUp
  BY SettingsTypes DEF SettingsInv, Shown, KeepsUp, Settings!Presentation

\* The steps of a save up to its answer.
LEMMA SaveInv ==
  ASSUME SettingsInv, NEW c \in calls,
         \/ Settings!ServeReload(c) \/ Settings!ReceiveReload(c) \/ Settings!ServePut(c)
         \/ Settings!ReceiveConflict(c) \/ Settings!FailSave(c) \/ Settings!ServeRefresh(c)
  PROVE  SettingsInv' /\ KeepsUp
<1>1. c \in Settings!Save /\ revision \in [Sections -> Nat] /\ presentation \in Settings!Presentation
  BY SettingsTypes DEF SettingsInv
<1>2. UNCHANGED <<section, surface, open, loads, presentation, saved>>
  BY DEF Settings!ServeReload, Settings!ReceiveReload, Settings!ServePut,
         Settings!ReceiveConflict, Settings!FailSave, Settings!ServeRefresh, Settings!NotSaved,
         Settings!surfaceVars
<1>3. KeepsUp
  BY <1>2, KeepsUpUnchanged
<1>4. ASSUME NEW d \in Settings!Save, d.surface = c.surface, Settings!Becomes(c, d),
             UNCHANGED form, revision' \in [Sections -> Nat],
             d.step \in {"refresh", "refreshed"} =>
               /\ d.section = "organization"
               /\ presentation.trusted => d.revision <= presentation.revision
      PROVE  SettingsInv'
  <2>1. Shown'
    BY <1>2, <1>4 DEF SettingsInv, Shown, Settings!Becomes
  <2> QED
    BY <1>1, <1>2, <1>4, <2>1, BecomesInv
<1>5. CASE Settings!ServeReload(c)
  <2> DEFINE d == [c EXCEPT !.step = "reloaded", !.revision = revision[c.section]]
  <2>1. d \in Settings!Save /\ d.surface = c.surface /\ d.step = "reloaded"
    BY <1>1 DEF Settings!Save, Settings!Steps
  <2> QED
    BY <1>1, <1>3, <1>4, <1>5, <2>1 DEF Settings!ServeReload, Settings!surfaceVars
<1>6. CASE Settings!ReceiveReload(c)
  <2>1. CASE Settings!Current(c.surface)
    <3> DEFINE d == [c EXCEPT !.step = "put"]
    <3>1. d \in Settings!Save /\ d.surface = c.surface /\ d.step = "put"
      BY <1>1 DEF Settings!Save, Settings!Steps
    <3> QED
      BY <1>1, <1>3, <1>4, <1>6, <2>1, <3>1 DEF Settings!ReceiveReload, Settings!surfaceVars
  <2>2. CASE ~Settings!Current(c.surface)
    <3>1. form' = form /\ calls' = calls \ {c} /\ UNCHANGED revision
      BY <1>6, <2>2 DEF Settings!ReceiveReload, Settings!surfaceVars
    <3>2. form' = IF Settings!Current(c.surface) THEN [form EXCEPT !.phase = "failed"] ELSE form
      BY <2>2, <3>1
    <3> QED
      BY <1>2, <1>3, <3>1, <3>2, EndsInv
  <2> QED
    BY <2>1, <2>2
<1>7. CASE Settings!ServePut(c)
  <2>1. CASE c.revision = revision[c.section]
    <3> DEFINE d == [c EXCEPT !.step = "accepted", !.revision = @ + 1]
    <3>1. d \in Settings!Save /\ d.surface = c.surface /\ d.step = "accepted"
      <4> DEFINE e == [c EXCEPT !.step = "accepted"]
      <4>1. e \in Settings!Save /\ e.surface = c.surface /\ e.step = "accepted"
        BY <1>1 DEF Settings!Save, Settings!Steps
      <4>2. c.revision + 1 \in Nat
        BY <1>1 DEF Settings!Save
      <4>3. d = [e EXCEPT !.revision = c.revision + 1]
        BY <1>1 DEF Settings!Save
      <4> HIDE DEF e, d
      <4> QED
        BY <4>1, <4>2, <4>3 DEF Settings!Save
    <3>2. revision' \in [Sections -> Nat]
      BY <1>1, <1>7, <2>1 DEF Settings!ServePut, Settings!Save
    <3> QED
      BY <1>3, <1>4, <1>7, <2>1, <3>1, <3>2 DEF Settings!ServePut, Settings!surfaceVars
  <2>2. CASE c.revision # revision[c.section]
    <3> DEFINE d == [c EXCEPT !.step = "conflict"]
    <3>1. d \in Settings!Save /\ d.surface = c.surface /\ d.step = "conflict"
      BY <1>1 DEF Settings!Save, Settings!Steps
    <3> QED
      BY <1>1, <1>3, <1>4, <1>7, <2>2, <3>1 DEF Settings!ServePut, Settings!surfaceVars
  <2> QED
    BY <2>1, <2>2
<1>8. CASE Settings!ReceiveConflict(c) \/ Settings!FailSave(c)
  <2>1. UNCHANGED revision
    BY <1>8 DEF Settings!ReceiveConflict, Settings!FailSave
  <2>2. PICK phase \in {"conflict", "failed"} : Settings!NotSaved(c, phase)
    BY <1>8 DEF Settings!ReceiveConflict, Settings!FailSave
  <2> DEFINE shown == IF c.reapply THEN "conflict" ELSE phase
  <2>3. shown \in {"conflict", "failed"} /\ calls' = calls \ {c}
        /\ form' = IF Settings!Current(c.surface) THEN [form EXCEPT !.phase = shown] ELSE form
    BY <2>2 DEF Settings!NotSaved
  <2> HIDE DEF shown
  <2> QED
    BY <1>2, <1>3, <2>1, <2>3, EndsInv
<1>9. CASE Settings!ServeRefresh(c)
  <2> DEFINE d == [c EXCEPT !.step = "refreshed", !.read = revision["organization"]]
  <2>1. c.section = "organization" /\ (presentation.trusted => c.revision <= presentation.revision)
    BY <1>9 DEF SettingsInv, Shown, Settings!ServeRefresh
  <2>2. /\ d \in Settings!Save /\ d.surface = c.surface /\ d.step = "refreshed"
        /\ d.section = "organization" /\ d.revision = c.revision
    BY <1>1, <2>1 DEF Settings!Save, Settings!Steps
  <2> QED
    BY <1>1, <1>3, <1>4, <1>9, <2>1, <2>2 DEF Settings!ServeRefresh, Settings!surfaceVars
<1> QED
  BY <1>5, <1>6, <1>7, <1>8, <1>9

\* The answer to a save: it is reported, or the presentation is refreshed first.
LEMMA AcceptedInv ==
  ASSUME SettingsInv, NEW c \in calls, Settings!ReceiveAccepted(c)
  PROVE  SettingsInv' /\ KeepsUp
<1>1. /\ c \in Settings!Save /\ c.step = "accepted" /\ presentation \in Settings!Presentation
      /\ UNCHANGED revision /\ revision \in [Sections -> Nat]
  BY SettingsTypes DEF SettingsInv, Settings!ReceiveAccepted
<1>2. presentation.revision \in Nat /\ presentation.highest \in Nat /\ c.revision \in Nat
      /\ presentation.revision <= presentation.highest
  BY <1>1 DEF Settings!Presentation, Settings!Save, SettingsInv, Shown
<1>3. CASE c.section # "organization"
  <2>1. Settings!Report(c) /\ UNCHANGED presentation
    BY <1>3 DEF Settings!ReceiveAccepted
  <2> QED
    BY <1>1, <1>2, <1>3, <2>1, ReportInv DEF KeepsUp
<1>4. CASE /\ c.section = "organization"
           /\ ~presentation.trusted \/ c.revision < presentation.highest
  <2>1. Settings!NotSaved(c, "failed") /\ UNCHANGED presentation
    BY <1>4 DEF Settings!ReceiveAccepted
  <2> DEFINE phase == IF c.reapply THEN "conflict" ELSE "failed"
  <2>2. /\ phase \in {"conflict", "failed"} /\ calls' = calls \ {c}
        /\ form' = IF Settings!Current(c.surface) THEN [form EXCEPT !.phase = phase] ELSE form
        /\ UNCHANGED <<section, surface, open, loads, saved>>
    BY <2>1 DEF Settings!NotSaved
  <2> HIDE DEF phase
  <2> QED
    BY <1>1, <2>1, <2>2, EndsInv, KeepsUpUnchanged
<1>5. CASE /\ c.section = "organization"
           /\ presentation.trusted /\ presentation.highest <= c.revision
  <2> DEFINE d == [c EXCEPT !.step = "refresh", !.sequence = presentation.sequence + 2]
  <2>1. /\ presentation' = [presentation EXCEPT !.revision = c.revision,
                              !.highest = c.revision, !.sequence = @ + 2]
        /\ Settings!Becomes(c, d)
        /\ UNCHANGED <<section, surface, open, loads, form, saved>>
    BY <1>2, <1>5 DEF Settings!ReceiveAccepted, Settings!surfaceVars
  <2>2. presentation.sequence + 2 \in Nat
    BY <1>1 DEF Settings!Presentation
  <2>3. /\ d \in Settings!Save /\ d.surface = c.surface /\ d.section = "organization"
        /\ d.revision = c.revision
    BY <1>1, <1>5, <2>2 DEF Settings!Save, Settings!Steps
  <2> HIDE DEF d
  <2>4. /\ presentation' \in Settings!Presentation /\ presentation'.trusted
        /\ presentation'.revision = c.revision /\ presentation'.highest = c.revision
    BY <1>1, <1>2, <1>5, <2>1, <2>2 DEF Settings!Presentation
  <2>5. presentation.revision <= c.revision
    BY <1>2, <1>5
  <2>6. saved <= c.revision
    BY <1>2, <1>5, <2>5, SettingsTypes DEF SettingsInv, Shown
  <2>7. Shown'
    <3>1. \A x \in calls : x.step \in {"refresh", "refreshed"} =>
            x.section = "organization" /\ x.revision <= c.revision
      BY <1>2, <1>5, <2>5, SettingsTypes DEF SettingsInv, Shown, Settings!Save
    <3> QED
      BY <1>2, <2>1, <2>3, <2>4, <2>6, <3>1 DEF Shown, Settings!Becomes
  <2>8. SettingsInv'
    BY <1>1, <2>1, <2>3, <2>4, <2>7, BecomesInv
  <2> QED
    BY <2>1, <2>4, <2>5, <2>6, <2>8 DEF KeepsUp
<1> QED
  BY <1>2, <1>3, <1>4, <1>5

\* The refresh after a save is answered, or fails.
LEMMA RefreshedInv ==
  ASSUME SettingsInv, NEW c \in calls, Settings!ReceiveRefresh(c) \/ Settings!FailRefresh(c)
  PROVE  SettingsInv' /\ KeepsUp
<1>1. /\ c \in Settings!Save /\ c.step \in {"refresh", "refreshed"}
      /\ presentation \in Settings!Presentation
      /\ UNCHANGED revision /\ Settings!Report(c)
  BY SettingsTypes DEF SettingsInv, Settings!ReceiveRefresh, Settings!FailRefresh
<1>2. presentation.revision \in Nat /\ presentation.highest \in Nat /\ c.read \in Nat
      /\ presentation.revision <= presentation.highest
  BY <1>1 DEF Settings!Presentation, Settings!Save, SettingsInv, Shown
<1>3. PICK next \in Nat : presentation.revision <= next /\ Settings!Take(c, next)
                         /\ (next = presentation.revision \/ presentation.highest <= next)
  <2>1. CASE Settings!ReceiveRefresh(c)
    <3> DEFINE next == IF c.read < presentation.highest THEN presentation.revision ELSE c.read
    <3>1. next \in Nat /\ presentation.revision <= next
          /\ (next = presentation.revision \/ presentation.highest <= next)
      BY <1>2
    <3>2. Settings!Take(c, next)
      BY <2>1 DEF Settings!ReceiveRefresh
    <3> QED
      BY <3>1, <3>2
  <2>2. CASE Settings!FailRefresh(c)
    BY <1>2, <2>2 DEF Settings!FailRefresh
  <2> QED
    BY <2>1, <2>2
<1>4. /\ presentation' \in Settings!Presentation
      /\ presentation'.trusted = presentation.trusted
      /\ presentation.revision <= presentation'.revision
      /\ presentation'.revision <= presentation'.highest
  <2>1. CASE c.sequence # presentation.sequence
    BY <1>1, <1>2, <1>3, <2>1 DEF Settings!Take
  <2>2. CASE c.sequence = presentation.sequence
    <3> DEFINE top == IF next > presentation.highest THEN next ELSE presentation.highest
    <3>1. top \in Nat /\ next <= top
      BY <1>2
    <3>2. presentation' = [presentation EXCEPT !.revision = next, !.highest = top]
      BY <1>1, <1>3, <2>2 DEF Settings!Take, Settings!Presentation
    <3> HIDE DEF top
    <3> QED
      BY <1>1, <1>3, <3>1, <3>2 DEF Settings!Presentation
  <2> QED
    BY <2>1, <2>2
<1> QED
  BY <1>1, <1>4, ReportInv DEF KeepsUp

\* A section is saved by somebody else.
LEMMA ElsewhereInv ==
  ASSUME SettingsInv, revision' \in [Sections -> Nat],
         UNCHANGED <<section, surface, open, loads, form, calls, presentation, saved>>
  PROVE  SettingsInv'
<1>1. Settings!TypeOK'
  BY DEF SettingsInv, Settings!TypeOK, Settings!Current
<1> QED
  BY <1>1 DEF SettingsInv, OnePerSurface, Shown, Settings!Current

\* Every step of the settings keeps the invariant and the presentation up.
LEMMA SettingsStepInv ==
  ASSUME SettingsInv, Settings!Next
  PROVE  SettingsInv' /\ KeepsUp
<1>1. ASSUME NEW s \in Settings!Pages, Settings!Navigate(s)
      PROVE  SettingsInv' /\ KeepsUp
  <2>1. /\ Settings!Render(s) /\ UNCHANGED <<calls, presentation, saved, revision>>
        /\ presentation \in Settings!Presentation /\ saved \in Nat
    BY <1>1, SettingsTypes DEF Settings!Navigate, SettingsInv
  <2>2. Shown'
    BY <2>1 DEF SettingsInv, Shown
  <2> QED
    BY <2>1, <2>2, RenderInv, KeepsUpUnchanged
<1>2. CASE Settings!Leave
  BY <1>2, LeaveInv, KeepsUpUnchanged DEF Settings!Leave
<1>3. CASE Settings!Submit \/ Settings!Reapply
  BY <1>3, SubmitInv, KeepsUpUnchanged DEF Settings!Submit, Settings!Reapply
<1>4. CASE Settings!Deny
  <2>1. Settings!Denied /\ loads' \subseteq loads /\ calls' \subseteq calls
    BY <1>4 DEF Settings!Deny
  <2>2. ~presentation'.trusted
    BY <2>1 DEF Settings!Denied
  <2> QED
    BY <2>1, <2>2, DeniedInv DEF KeepsUp
<1>5. ASSUME NEW l \in loads, Settings!ServeLoad(l) \/ Settings!ReceiveLoad(l) \/ Settings!FailLoad(l)
      PROVE  SettingsInv' /\ KeepsUp
  BY <1>5, LoadInv, KeepsUpUnchanged DEF Settings!ServeLoad, Settings!ReceiveLoad, Settings!FailLoad
<1>6. ASSUME NEW s \in Sections, Settings!Elsewhere(s)
      PROVE  SettingsInv' /\ KeepsUp
  <2>1. revision' \in [Sections -> Nat]
    <3>1. revision \in [Sections -> Nat] /\ revision[s] \in Nat
      BY SettingsTypes DEF SettingsInv
    <3> QED
      BY <1>6, <3>1 DEF Settings!Elsewhere
  <2>2. UNCHANGED <<section, surface, open, loads, form, calls, presentation, saved>>
    BY <1>6 DEF Settings!Elsewhere, Settings!surfaceVars
  <2> QED
    BY <2>1, <2>2, ElsewhereInv, KeepsUpUnchanged
<1> QED
  BY <1>1, <1>2, <1>3, <1>4, <1>5, <1>6, SaveInv, AcceptedInv, RefreshedInv DEF Settings!Next

\* A save that is new among those to be sent is of the rendering that is open.
Written == \A c \in calls' : c.step = "put" /\ c \notin calls => Settings!Current(c.surface)

\* A save that is not there yet is sent by the rendering that is open.
LEMMA WrittenStep ==
  ASSUME SettingsInv, Settings!Next
  PROVE  Written
<1>1. calls \subseteq Settings!Save
  BY SettingsTypes DEF SettingsInv
<1>2. CASE calls' \subseteq calls
  BY <1>2 DEF Written
<1>3. ASSUME NEW c \in calls, NEW d, Settings!Becomes(c, d), d.step # "put"
      PROVE  Written
  BY <1>3 DEF Written, Settings!Becomes
<1>4. CASE Settings!Submit
  <2>1. Settings!Current(surface)
    BY <1>4 DEF Settings!Submit, Settings!Current
  <2> QED
    BY <1>4, <2>1 DEF Settings!Submit, Settings!Begin, Written
<1>5. CASE Settings!Reapply
  BY <1>5 DEF Settings!Reapply, Settings!Begin, Written
<1>6. ASSUME NEW c \in calls, Settings!ReceiveReload(c)
      PROVE  Written
  <2>1. CASE Settings!Current(c.surface)
    <3>1. [c EXCEPT !.step = "put"].surface = c.surface
      BY <1>1 DEF Settings!Save
    <3> QED
      BY <1>6, <2>1, <3>1 DEF Settings!ReceiveReload, Settings!Becomes, Written
  <2>2. CASE ~Settings!Current(c.surface)
    BY <1>2, <1>6, <2>2 DEF Settings!ReceiveReload
  <2> QED
    BY <2>1, <2>2
<1>7. ASSUME NEW c \in calls,
             Settings!ServeReload(c) \/ Settings!ServePut(c) \/ Settings!ServeRefresh(c)
      PROVE  Written
  <2>1. /\ [c EXCEPT !.step = "reloaded", !.revision = revision[c.section]].step = "reloaded"
        /\ [c EXCEPT !.step = "accepted", !.revision = @ + 1].step = "accepted"
        /\ [c EXCEPT !.step = "conflict"].step = "conflict"
        /\ [c EXCEPT !.step = "refreshed", !.read = revision["organization"]].step = "refreshed"
    BY <1>1 DEF Settings!Save
  <2>2. CASE Settings!ServeReload(c)
    BY <1>3, <2>1, <2>2 DEF Settings!ServeReload
  <2>3. CASE Settings!ServePut(c)
    BY <1>3, <2>1, <2>3 DEF Settings!ServePut
  <2>4. CASE Settings!ServeRefresh(c)
    BY <1>3, <2>1, <2>4 DEF Settings!ServeRefresh
  <2> QED
    BY <1>7, <2>2, <2>3, <2>4
<1>8. ASSUME NEW c \in calls, Settings!ReceiveAccepted(c)
      PROVE  Written
  <2>1. calls' = calls \ {c}
        \/ Settings!Becomes(c, [c EXCEPT !.step = "refresh", !.sequence = presentation.sequence + 2])
    BY <1>8 DEF Settings!ReceiveAccepted, Settings!Report, Settings!NotSaved
  <2>2. [c EXCEPT !.step = "refresh", !.sequence = presentation.sequence + 2].step = "refresh"
    BY <1>1 DEF Settings!Save
  <2> QED
    BY <1>2, <1>3, <2>1, <2>2
<1>9. ASSUME NEW c \in calls,
             \/ Settings!ReceiveConflict(c) \/ Settings!FailSave(c)
             \/ Settings!ReceiveRefresh(c) \/ Settings!FailRefresh(c)
      PROVE  Written
  <2>1. calls' = calls \ {c}
    BY <1>9 DEF Settings!ReceiveConflict, Settings!FailSave, Settings!NotSaved,
                Settings!ReceiveRefresh, Settings!FailRefresh, Settings!Report
  <2> QED
    BY <1>2, <2>1
<1>10. CASE \/ \E s \in Settings!Pages : Settings!Navigate(s)
            \/ Settings!Leave \/ Settings!Deny
            \/ \E l \in loads : Settings!ServeLoad(l) \/ Settings!ReceiveLoad(l) \/ Settings!FailLoad(l)
            \/ \E s \in Sections : Settings!Elsewhere(s)
  <2>1. calls' \subseteq calls
    BY <1>10 DEF Settings!Navigate, Settings!Leave, Settings!Deny, Settings!ServeLoad,
                 Settings!ReceiveLoad, Settings!FailLoad, Settings!Elsewhere
  <2> QED
    BY <1>2, <2>1
<1> QED
  BY <1>4, <1>5, <1>6, <1>7, <1>8, <1>9, <1>10 DEF Settings!Next

-----------------------------------------------------------------------------
(* The composition *)

AdminInv == PanelInv /\ SettingsInv /\ (live <=> HasPanel)

\* The initial states satisfy the invariant.
LEMMA InitAdminInv == AdminInit => AdminInv
<1> SUFFICES ASSUME AdminInit PROVE AdminInv
  OBVIOUS
<1>1. PanelInv
  <2>1. receipts \in Seq(Types \X Files)
    BY DEF AdminInit, Init
  <2> QED
    BY <2>1, EmptyPanel DEF AdminInit, Init
<1>2. SettingsInv
  <2>1. Settings!TypeOK
    BY DEF AdminInit, Settings!Init, Settings!TypeOK, Settings!Pages, Settings!NoForm,
           Settings!Form, Settings!Phases, Settings!Presentation
  <2>2. OnePerSurface /\ Shown
    BY DEF AdminInit, Settings!Init, OnePerSurface, Shown, Settings!NoForm
  <2> QED
    BY <2>1, <2>2 DEF SettingsInv
<1>3. ~live /\ ~HasPanel
  BY DEF AdminInit, Init, Settings!Init, HasPanel, Settings!NoForm
<1> QED
  BY <1>1, <1>2, <1>3 DEF AdminInv

\* What the steps of the composition do to the invariant and to the settings.
LEMMA AdminStep ==
  ASSUME AdminInv, AdminNext
  PROVE  AdminInv' /\ KeepsUp /\ Written
<1>1. CASE SettingsStep
  <2>1. SettingsInv' /\ KeepsUp /\ Written
    BY <1>1, SettingsStepInv, WrittenStep DEF AdminInv, SettingsStep
  <2>2. PanelInv'
    BY <1>1, PanelStepInv DEF AdminInv, SettingsStep, PanelView
  <2>3. live \in BOOLEAN
    BY DEF AdminInv, PanelInv, TypeOK
  <2>4. live' <=> HasPanel'
    <3>1. HasPanel' \in BOOLEAN
      BY DEF HasPanel
    <3>2. CASE HasPanel' = live
      <4>1. live' = live
        BY <1>1, <3>2 DEF SettingsStep, PanelView, vars
      <4> QED
        BY <3>2, <4>1
    <3>3. CASE HasPanel' # live /\ live
      <4>1. live' = FALSE
        BY <1>1, <3>3 DEF SettingsStep, PanelView, Detach
      <4> QED
        BY <2>3, <3>1, <3>3, <4>1
    <3>4. CASE HasPanel' # live /\ ~live
      <4>1. live' = TRUE
        BY <1>1, <3>4 DEF SettingsStep, PanelView, Mount
      <4> QED
        BY <2>3, <3>1, <3>4, <4>1
    <3> QED
      BY <3>2, <3>3, <3>4
  <2> QED
    BY <2>1, <2>2, <2>4 DEF AdminInv
<1>2. CASE Panel /\ UNCHANGED settingsVars
  <2>1. PanelInv'
    BY <1>2, PanelStepInv DEF AdminInv
  <2>2. /\ revision' \in [Sections -> Nat]
        /\ UNCHANGED <<section, surface, open, loads, form, calls, presentation, saved>>
    BY <1>2, SettingsTypes DEF settingsVars, AdminInv, SettingsInv
  <2>3. SettingsInv' /\ KeepsUp
    BY <2>2, ElsewhereInv, KeepsUpUnchanged DEF AdminInv
  <2>4. Written
    BY <2>2 DEF Written
  <2>5. live' = live
    BY <1>2 DEF Panel, Choose, Validate, Apply, FailApply, ServeValidation, ReceiveValidation,
                FailValidation
  <2>6. live' <=> HasPanel'
    BY <2>2, <2>5 DEF AdminInv, HasPanel
  <2> QED
    BY <2>1, <2>3, <2>4, <2>6 DEF AdminInv
<1>3. CASE ApplyAccepted
  <2>1. PanelInv' /\ live' = live
    BY <1>3, PanelStepInv DEF AdminInv, ApplyAccepted, ServeApply
  <2>2. section \in Sections
    <3>1. live
      BY <1>3 DEF ApplyAccepted, ServeApply, AdminInv, PanelInv, TypeOK, Empty
    <3> QED
      BY <3>1 DEF AdminInv, HasPanel, SettingsInv, OnePerSurface
  <2>3. /\ revision' \in [Sections -> Nat]
        /\ UNCHANGED <<section, surface, open, loads, form, calls, presentation, saved>>
    <3>1. revision \in [Sections -> Nat] /\ revision[section] + 1 \in Nat
      BY <2>2, SettingsTypes DEF AdminInv, SettingsInv
    <3>2. revision' \in [Sections -> Nat]
      BY <1>3, <2>2, <3>1 DEF ApplyAccepted
    <3> QED
      BY <1>3, <3>2 DEF ApplyAccepted
  <2>4. SettingsInv' /\ KeepsUp
    BY <2>3, ElsewhereInv, KeepsUpUnchanged DEF AdminInv
  <2>5. Written
    BY <2>3 DEF Written
  <2>6. live' <=> HasPanel'
    BY <2>1, <2>3 DEF AdminInv, HasPanel
  <2> QED
    BY <2>1, <2>4, <2>5, <2>6 DEF AdminInv
<1>4. CASE Applied
  <2>1. Detach /\ Settings!Navigate(section)
    BY <1>4 DEF Applied, ReceiveApply
  <2>2. section \in Settings!Pages
    BY SettingsTypes DEF AdminInv, SettingsInv
  <2>3. PanelInv'
    BY <2>1, PanelStepInv DEF AdminInv
  <2>4. SettingsInv' /\ KeepsUp /\ Written
    BY <2>1, <2>2, SettingsStepInv, WrittenStep DEF AdminInv, Settings!Next
  <2>5. ~live' /\ ~HasPanel'
    BY <2>1 DEF Detach, Settings!Navigate, Settings!Render, HasPanel, Settings!NoForm
  <2> QED
    BY <2>3, <2>4, <2>5 DEF AdminInv
<1>5. CASE PanelDenied
  <2>1. Detach /\ Settings!Denied /\ UNCHANGED <<loads, calls>>
    BY <1>5 DEF PanelDenied
  <2>2. PanelInv' /\ SettingsInv'
    BY <2>1, PanelStepInv, DeniedInv DEF AdminInv
  <2>3. KeepsUp /\ Written
    BY <2>1 DEF Settings!Denied, KeepsUp, Written
  <2>4. ~live' /\ ~HasPanel'
    BY <2>1 DEF Detach, Settings!Denied, HasPanel
  <2> QED
    BY <2>2, <2>3, <2>4 DEF AdminInv
<1> QED
  BY <1>1, <1>2, <1>3, <1>4, <1>5 DEF AdminNext, PanelStep

\* A step that changes nothing.
LEMMA AdminStutter ==
  ASSUME AdminInv, UNCHANGED adminVars
  PROVE  AdminInv'
<1>1. PanelInv'
  BY PanelStepInv DEF AdminInv, adminVars
<1>2. UNCHANGED settingsVars /\ UNCHANGED live
  BY DEF adminVars, vars
<1>3. SettingsInv'
  BY <1>2, ElsewhereInv, SettingsTypes DEF AdminInv, SettingsInv, settingsVars
<1>4. live' <=> HasPanel'
  BY <1>2 DEF AdminInv, HasPanel, settingsVars
<1> QED
  BY <1>1, <1>3, <1>4 DEF AdminInv

\* The invariant holds in every reachable state.
LEMMA AdminInvariant == AdminSpec => []AdminInv
<1>1. AdminInv /\ [AdminNext]_adminVars => AdminInv'
  BY AdminStep, AdminStutter
<1> QED
  BY <1>1, InitAdminInv, PTL DEF AdminSpec

\* The types, and that a panel is there exactly where the section that is rendered has
\* one, for all sections and files.
THEOREM AdminTypesKept == AdminSpec => []AdminTypeOK
<1>1. AdminInv => AdminTypeOK
  BY DEF AdminInv, PanelInv, SettingsInv, AdminTypeOK
<1> QED
  BY <1>1, AdminInvariant, PTL

\* Whatever is applied is what was validated, with its own receipt, once.
THEOREM AppliedAsItWasValidated == AdminSpec => []AppliedAsValidated
<1>1. AdminInv => AppliedAsValidated
  BY PanelInvImplies DEF AdminInv
<1> QED
  BY <1>1, AdminInvariant, PTL

\* The presentation never goes back while there is authority, and shows what was saved.
THEOREM PresentationNeverBack == AdminSpec => PresentationKeepsUp
<1>1. AdminInv /\ [AdminNext]_adminVars => [KeepsUp]_(Settings!vars)
  <2>1. UNCHANGED adminVars => UNCHANGED Settings!vars
    BY DEF adminVars, settingsVars, Settings!vars, Settings!surfaceVars
  <2> QED
    BY <2>1, AdminStep
<1> QED
  BY <1>1, AdminInvariant, PTL DEF AdminSpec, PresentationKeepsUp, Settings!PresentationKeepsUp,
                                   KeepsUp

\* A section that was left writes nothing.
THEOREM NothingWrittenWhereLeft == AdminSpec => WrittenWhereOpen
<1>1. AdminInv /\ [AdminNext]_adminVars => [Written]_(Settings!vars)
  <2>1. UNCHANGED adminVars => UNCHANGED Settings!vars
    BY DEF adminVars, settingsVars, Settings!vars, Settings!surfaceVars
  <2> QED
    BY <2>1, AdminStep
<1> QED
  BY <1>1, AdminInvariant, PTL DEF AdminSpec, WrittenWhereOpen, Settings!WrittenWhereOpen,
                                   Written
=============================================================================
