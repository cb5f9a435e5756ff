----------------------------- MODULE BulkTransfer -----------------------------
(***************************************************************************)
(* The panel that transfers settings in bulk: a file is validated by the        *)
(* backend, which issues a receipt for it, and is applied with that receipt.     *)
(*                                                                               *)
(* shared/tenant-bulk-transfer-panel.js.  A document is what a file says of a     *)
(* type, so that the pair stands for it.  Calls may be answered in any order,     *)
(* or be lost.  What a call does that was sent from a panel since replaced is no  *)
(* longer the panel's: to the next one it is a change made elsewhere.             *)
(***************************************************************************)
EXTENDS Integers, Sequences

CONSTANTS
  Types,          \* the types the owner of the panel injects
  Files,          \* the files of the user
  NoFile,         \* no file is selected
  NoCandidate,    \* nothing is validated, or applied
  MaxGeneration,  \* bound: validations and changes of the selection
  MaxReceipts     \* bound: receipts the backend issues

ASSUME FilesAssumption == NoFile \notin Files

VARIABLES
  live,         \* the panel is on the page
  type,         \* type.value
  file,         \* file.files[0]
  generation,   \* generation
  validated,    \* validated: what the latest validation was answered
  enabled,      \* the button to apply is
  pending,      \* what is being applied
  validations,  \* validations on their way, superseded ones included
  receipts,     \* backend: what each receipt was issued for
  sent          \* history: receipts sent to apply, and those sent again

selection == <<type, file>>
vars == <<live, selection, generation, validated, enabled, pending, validations, receipts, sent>>

-----------------------------------------------------------------------------

Candidate  == [type : Types, file : Files, receipt : Nat]
Applying   == [type : Types, file : Files, receipt : Nat, answer : {"awaited", "done"}]
Validation == [generation : Nat, type : Types, file : Files \cup {NoFile},
               answer : {"awaited", "changed", "unchanged", "invalid"}, receipt : Nat]

ASSUME CandidateAssumption == NoCandidate \notin Candidate \cup Applying

Empty ==
  /\ file = NoFile
  /\ generation = 0
  /\ validated = NoCandidate
  /\ enabled = FALSE
  /\ pending = NoCandidate
  /\ validations = {}
  /\ sent = [once |-> {}, again |-> {}]

Init ==
  /\ live = FALSE
  /\ type \in Types
  /\ Empty
  /\ receipts = <<>>

\* createBulkTransferPanel()
Mount ==
  /\ ~live
  /\ live' = TRUE
  /\ UNCHANGED <<selection, generation, validated, enabled, pending, validations, receipts, sent>>

\* The section renders anew, is left, or the page is locked: whatever is on its way
\* finds lifecycleCurrent() false
Detach ==
  /\ live
  /\ live' = FALSE
  /\ file' = NoFile
  /\ generation' = 0
  /\ validated' = NoCandidate
  /\ enabled' = FALSE
  /\ pending' = NoCandidate
  /\ validations' = {}
  /\ sent' = [once |-> {}, again |-> {}]
  /\ UNCHANGED <<type, receipts>>

-----------------------------------------------------------------------------
(* The panel *)

\* invalidate(), when the type or the file is changed
Choose(t, f) ==
  /\ live /\ generation < MaxGeneration
  /\ <<t, f>> # selection
  /\ t = type \/ f = file
  /\ type' = t
  /\ file' = f
  /\ generation' = generation + 1
  /\ validated' = NoCandidate
  /\ enabled' = FALSE
  /\ UNCHANGED <<live, pending, validations, receipts, sent>>

Validate ==
  /\ live /\ pending = NoCandidate /\ generation < MaxGeneration
  /\ generation' = generation + 1
  /\ validated' = NoCandidate
  /\ enabled' = FALSE
  /\ validations' = validations \cup
       {[generation |-> generation + 1, type |-> type, file |-> file,
         answer |-> "awaited", receipt |-> 0]}
  /\ UNCHANGED <<live, selection, pending, receipts, sent>>

\* Mutant: the answer is taken for the file that is selected by now
ReceiveValidationLate(v) ==
  /\ v.answer # "awaited"
  /\ validations' = validations \ {v}
  /\ validated' = IF v.answer = "invalid" \/ file = NoFile THEN NoCandidate
                  ELSE [type |-> type, file |-> file, receipt |-> v.receipt]
  /\ enabled' = (v.answer = "changed")
  /\ UNCHANGED <<live, selection, generation, pending, receipts, sent>>

\* The answer counts if nothing was changed or validated since
ReceiveValidation(v) ==
  /\ v.answer # "awaited"
  /\ validations' = validations \ {v}
  /\ IF generation = v.generation /\ selection = <<v.type, v.file>>
     THEN /\ validated' = IF v.answer = "invalid" THEN NoCandidate
                          ELSE [type |-> v.type, file |-> v.file, receipt |-> v.receipt]
          /\ enabled' = (v.answer = "changed")
     ELSE UNCHANGED <<validated, enabled>>
  /\ UNCHANGED <<live, selection, generation, pending, receipts, sent>>

\* There is no such file, it does not parse, or the call fails
FailValidation(v) ==
  /\ validations' = validations \ {v}
  /\ UNCHANGED <<live, selection, generation, validated, enabled, pending, receipts, sent>>

Apply ==
  /\ live /\ enabled /\ pending = NoCandidate
  /\ validated # NoCandidate /\ selection = <<validated.type, validated.file>>
  /\ pending' = [type |-> validated.type, file |-> validated.file,
                 receipt |-> validated.receipt, answer |-> "awaited"]
  /\ enabled' = FALSE
  /\ sent' = [once |-> sent.once \cup {validated.receipt},
              again |-> sent.again \cup (sent.once \cap {validated.receipt})]
  /\ UNCHANGED <<live, selection, generation, validated, validations, receipts>>

\* It is refused or lost, applied or not: only another validation enables the button
FailApply ==
  /\ pending # NoCandidate
  /\ pending' = NoCandidate
  /\ enabled' = FALSE
  /\ UNCHANGED <<live, selection, generation, validated, validations, receipts, sent>>

\* It was applied: the section renders anew
ReceiveApply ==
  /\ pending # NoCandidate /\ pending.answer = "done"
  /\ Detach

-----------------------------------------------------------------------------
(* The backend *)

\* Only a document without errors gets a receipt
ServeValidation(v) ==
  /\ v.answer = "awaited" /\ v.file # NoFile /\ Len(receipts) < MaxReceipts
  /\ \/ \E answer \in {"changed", "unchanged"} :
          /\ receipts' = Append(receipts, <<v.type, v.file>>)
          /\ validations' = (validations \ {v}) \cup
               {[v EXCEPT !.answer = answer, !.receipt = Len(receipts) + 1]}
     \/ /\ validations' = (validations \ {v}) \cup {[v EXCEPT !.answer = "invalid"]}
        /\ UNCHANGED receipts
  /\ UNCHANGED <<live, selection, generation, validated, enabled, pending, sent>>

\* The receipt has to be for the document
ServeApply ==
  /\ pending # NoCandidate /\ pending.answer = "awaited"
  /\ receipts[pending.receipt] = <<pending.type, pending.file>>
  /\ pending' = [pending EXCEPT !.answer = "done"]
  /\ UNCHANGED <<live, selection, generation, validated, enabled, validations, receipts, sent>>

-----------------------------------------------------------------------------

Panel ==
  \/ \E t \in Types, f \in Files : Choose(t, f)
  \/ Validate \/ Apply \/ FailApply
  \/ \E v \in validations :
       ServeValidation(v) \/ ReceiveValidation(v) \/ FailValidation(v)

Next == Mount \/ Detach \/ Panel \/ ServeApply \/ ReceiveApply

Spec == Init /\ [][Next]_vars

-----------------------------------------------------------------------------
(* Properties *)

\* Every variable keeps its type, and a panel that is not on the page is empty.
TypeOK ==
  /\ live \in BOOLEAN
  /\ type \in Types
  /\ file \in Files \cup {NoFile}
  /\ generation \in Nat
  /\ validated \in Candidate \cup {NoCandidate}
  /\ enabled \in BOOLEAN
  /\ pending \in Applying \cup {NoCandidate}
  /\ validations \subseteq Validation
  /\ receipts \in Seq(Types \X Files)
  /\ sent \in [once : SUBSET Nat, again : SUBSET Nat]
  /\ ~live => Empty

Bound(c) == c.receipt \in DOMAIN receipts /\ receipts[c.receipt] = <<c.type, c.file>>

\* What can be applied is what is selected, and it is applied with the receipt that was
\* issued for it, of the latest validation, which is never sent again: "Apply is bound to
\* the exact type, selected file, parsed document and server receipt returned by the
\* latest successful validation" (PRODUCTION-SECURITY.md).
AppliedAsValidated ==
  /\ enabled => /\ validated # NoCandidate
                /\ selection = <<validated.type, validated.file>>
                /\ \A v \in validations : v.generation < generation
  /\ validated # NoCandidate => Bound(validated)
  /\ pending # NoCandidate => Bound(pending)
  /\ sent.again = {}
=============================================================================
