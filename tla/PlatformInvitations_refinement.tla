--------------------- MODULE PlatformInvitations_refinement ---------------------
(***************************************************************************)
(* The invitation panel implements IssueOnce, for every number of calls and   *)
(* commands: no draft of the form is issued under two commands.                *)
(*                                                                             *)
(* Issue and Retry send; the step of a client or of the backend that executes  *)
(* a batch executes it, the one that loses its last request closes it, and all *)
(* others stutter.                                                              *)
(***************************************************************************)
EXTENDS PlatformInvitations_proofs

\* The request of a command is on its way
Moves(k) == \E c \in Calls : command[c] = k /\ Moving(c)

\* A command was executed
Ran(k) == \E c \in Calls : command[c] = k /\ call[c].executed > 0

\* The mapping in these terms.
LEMMA Mapped ==
  ASSUME NEW k \in Commands
  PROVE  /\ Travels(k) <=> Moves(k)
         /\ Executes(k) <=> Ran(k)
         /\ Live(k) <=> Moves(k) \/ Ran(k)
  BY DEF Travels, Executes, Moves, Ran, Live, Carriers, Moving

Open == {k \in Commands : Moves(k) /\ ~Ran(k)}
Done == {k \in Commands : Ran(k)}

\* The two sets of the mapping, before and after a step.
LEMMA MappedSets ==
  /\ {k \in Commands : Travels(k) /\ ~Executes(k)} = Open
  /\ {k \in Commands : Executes(k)} = Done
  /\ {k \in Commands : Travels(k) /\ ~Executes(k)}' = Open'
  /\ {k \in Commands : Executes(k)}' = Done'
  BY DEF Travels, Executes, Moves, Ran, Carriers, Moving, Open, Done

\* A step stutters.
LEMMA Stutters ==
  ASSUME UNCHANGED <<intent, Open, Done>> PROVE UNCHANGED Issuance!vars
  BY MappedSets DEF Issuance!vars

\* A command is sent, for the first time or again.
LEMMA Sends ==
  ASSUME NEW k \in Commands, NEW i \in Drafts,
         intent[k] \in {0, i},
         \A j \in Commands \ {k} : intent[j] = i => ~Moves(j) /\ ~Ran(j),
         intent' = [intent EXCEPT ![k] = i],
         Open' \in {Open, Open \cup ({k} \ Done)}, UNCHANGED Done
  PROVE  Issuance!Next
<1>1. \A j \in Commands \ {k} : intent[j] = i => j \notin Open \cup Done
  BY DEF Open, Done
<1>2. Issuance!Send(k, i)
  BY <1>1, MappedSets DEF Issuance!Send
<1> QED
  BY <1>2 DEF Issuance!Next

-----------------------------------------------------------------------------
(* The steps *)

\* Calls with a command are left alone.
LEMMA KeptStutters == ASSUME CommandsKept PROVE UNCHANGED <<intent, Open, Done>>
<1>1. ASSUME NEW k \in Commands PROVE (Moves(k)' <=> Moves(k)) /\ (Ran(k)' <=> Ran(k))
  <2>1. k # 0
    BY DEF Commands
  <2>2. \A c \in Calls : command[c] = k
          => (Moving(c)' <=> Moving(c)) /\ call'[c].executed = call[c].executed
    BY <2>1 DEF CommandsKept, Moving
  <2> QED
    BY <2>2 DEF CommandsKept, Moves, Ran
<1> QED
  BY <1>1 DEF Open, Done, CommandsKept

\* Only three steps do not.
LEMMA StepKinds ==
  ASSUME CInv, PInv, Next
  PROVE  \/ CommandsKept
         \/ \E c \in Calls, k \in Commands : Issue(c, k)
         \/ \E c \in Calls : Retry(c)
         \/ Client
<1>1. ASSUME NEW c \in Calls, Load(c) \/ Mutate(c) PROVE CommandsKept
  <2>1. /\ UNCHANGED intent
        /\ \E s \in {"load", "mutate"}, write \in BOOLEAN : Await(c, s, write, 0)
    BY <1>1 DEF Load, Mutate
  <2> QED
    BY <2>1, KeptByAwait DEF Steps
<1>2. ASSUME NEW c \in Calls, OtherCall(c) PROVE CommandsKept
  BY <1>2, KeptByRequest DEF OtherCall, ctlVars
<1>3. CASE IssueInvalid \/ Dispose
  BY <1>3, KeptQuiet DEF IssueInvalid, Dispose
<1>4. CASE SubmitFails \/ CreatedSettles \/ MutateFails \/ ReadDone \/ ReadFails
  BY <1>4, KeptQuiet DEF SubmitFails, CreatedSettles, MutateFails, ReadDone, ReadFails
<1>5. CASE MutateDone
  BY <1>5, RereadKeeps DEF MutateDone
<1>6. CASE SubmitDone
  <2>1. UNCHANGED intent /\ (UNCHANGED <<clientVars, command>> \/ Reread)
    BY <1>6 DEF SubmitDone
  <2> QED
    BY <2>1, KeptQuiet, RereadKeeps
<1> QED
  BY <1>1, <1>2, <1>3, <1>4, <1>5, <1>6 DEF Next, React

\* What a call that carries k does to the two sets.
LEMMA SendEffect ==
  ASSUME CInv, PInv, NEW c \in Calls, NEW k \in Commands, Await(c, "submit", TRUE, k)
  PROVE  Open' \in {Open, Open \cup ({k} \ Done)} /\ UNCHANGED Done
<1>1. /\ command[c] = 0 /\ ~Moving(c) /\ call[c].executed = 0
      /\ command'[c] = k /\ call'[c].executed = 0
      /\ \A b \in Calls : b # c => /\ call'[b] = call[b]
                                   /\ command'[b] = command[b]
                                   /\ Moving(b)' <=> Moving(b)
  BY SendsCommand DEF Moving
<1>2. \A j \in Commands : Ran(j)' <=> Ran(j)
  <2> TAKE j \in Commands
  <2>1. \A b \in Calls : command'[b] = j /\ call'[b].executed > 0
                         <=> command[b] = j /\ call[b].executed > 0
    <3> TAKE b \in Calls
    <3>1. CASE b = c
      BY <1>1, <3>1
    <3>2. CASE b # c
      BY <1>1, <3>2
    <3> QED
      BY <3>1, <3>2
  <2> QED
    BY <2>1 DEF Ran
<1>3. \A j \in Commands : j # k => (Moves(j)' <=> Moves(j))
  <2> SUFFICES ASSUME NEW j \in Commands, j # k PROVE Moves(j)' <=> Moves(j)
    OBVIOUS
  <2>1. \A b \in Calls : command'[b] = j /\ Moving(b)' <=> command[b] = j /\ Moving(b)
    <3> TAKE b \in Calls
    <3>1. CASE b = c
      BY <1>1, <3>1
    <3>2. CASE b # c
      BY <1>1, <3>2
    <3> QED
      BY <3>1, <3>2
  <2> QED
    BY <2>1 DEF Moves
<1>4. Moves(k) => Moves(k)'
  <2> SUFFICES ASSUME Moves(k) PROVE Moves(k)'
    OBVIOUS
  <2>1. PICK b \in Calls : command[b] = k /\ Moving(b)
    BY DEF Moves
  <2>2. b # c
    BY <1>1, <2>1
  <2> QED
    BY <1>1, <2>1, <2>2 DEF Moves
<1> QED
  BY <1>2, <1>3, <1>4 DEF Open, Done

\* A new batch is sent for the draft in the form, which has no live command.
LEMMA IssueSends ==
  ASSUME CInv, PInv, NEW c \in Calls, NEW k \in Commands, Issue(c, k)
  PROVE  Issuance!Next
<1>1. /\ ~disposed /\ pending = 0 /\ status \in {"ready", "error"} /\ intent[k] = 0
      /\ Await(c, "submit", TRUE, k) /\ intent' = [intent EXCEPT ![k] = draft]
  BY DEF Issue, Free, Issuable
<1>2. draft \in Drafts
  BY DEF PInv, TypeOK
<1>3. \A j \in Commands : intent[j] = draft => ~Live(j)
  BY <1>1 DEF PInv, DraftIsFree, Commands
<1>4. \A j \in Commands \ {k} : intent[j] = draft => ~Moves(j) /\ ~Ran(j)
  BY <1>3, Mapped
<1> QED
  BY <1>1, <1>2, <1>4, SendEffect, Sends

\* The command kept is sent again for its draft, which has no other live command.
LEMMA RetrySends ==
  ASSUME CInv, PInv, NEW c \in Calls, Retry(c) PROVE Issuance!Next
<1> DEFINE k == pending
<1>1. ~disposed /\ k # 0 /\ Await(c, "submit", TRUE, k) /\ intent' = intent
  BY DEF Retry, Free
<1>2. k \in Commands /\ draft \in Drafts /\ intent \in [Commands -> Drafts \cup {0}]
  BY <1>1 DEF PInv, TypeOK
<1>3. intent[k] = draft /\ intent' = [intent EXCEPT ![k] = draft]
  BY <1>1, <1>2 DEF PInv, PendingOK
<1>4. \A j \in Commands \ {k} : intent[j] = draft => ~Live(j)
  BY <1>1 DEF PInv, DraftIsFree
<1>5. \A j \in Commands \ {k} : intent[j] = draft => ~Moves(j) /\ ~Ran(j)
  BY <1>4, Mapped
<1>6. Open' \in {Open, Open \cup ({k} \ Done)} /\ UNCHANGED Done
  BY <1>1, <1>2, SendEffect
<1> HIDE DEF k
<1> QED
  BY <1>2, <1>3, <1>5, <1>6, Sends

\* A step of the client or of the backend changes one call, and undoes no execution.
LEMMA OneCallChanges ==
  ASSUME CInv, ClientStep
  PROVE  \E c \in Calls \cup {0} :
           /\ \A d \in Calls \ {c} : call'[d] = call[d] /\ (Moving(d)' <=> Moving(d))
           /\ c # 0 /\ call[c].executed > 0 => call'[c].executed > 0
<1>1. CASE Expire
  <2>1. UNCHANGED <<call, late>>
    BY <1>1 DEF Expire
  <2> QED
    BY <2>1 DEF Moving
<1>2. ASSUME NEW c \in Calls, Progress(c) \/ Abort(c) \/ Serve(c) \/ ServeLate(c)
      PROVE  /\ \A d \in Calls \ {c} : call'[d] = call[d] /\ (Moving(d)' <=> Moving(d))
             /\ call[c].executed > 0 => call'[c].executed > 0
  <2>1. \A d \in Calls \ {c} : call'[d] = call[d]
    BY <1>2 DEF Progress, Begin, Receive, FetchRejects, Confirm, ConfirmFails, Refreshed,
                RefreshFails, Abort, Serve, ServeLate, Executed, Settle, CInv, ClientTypeOK
  <2>2. late' \ {c} = late \ {c}
    BY <1>2 DEF Progress, Begin, Receive, FetchRejects, Confirm, ConfirmFails, Refreshed,
                RefreshFails, Abort, Serve, ServeLate
  <2>3. call[c].executed > 0 => call'[c].executed > 0
    <3>1. call \in [Calls -> Call] /\ call[c].executed \in Nat
      BY DEF CInv, ClientTypeOK, Call
    <3>2. CASE Begin(c) \/ Receive(c) \/ Abort(c) \/ Confirm(c)
      BY <3>1, <3>2 DEF Begin, Receive, Abort, Confirm, Settle, Call
    <3>3. CASE FetchRejects(c) \/ ConfirmFails(c) \/ Refreshed(c) \/ RefreshFails(c)
      <4>1. \E r : Settle(c, r)
        BY <3>3 DEF FetchRejects, ConfirmFails, Refreshed, RefreshFails
      <4> QED
        BY <3>1, <4>1 DEF Settle, Call
    <3>4. CASE Serve(c) \/ ServeLate(c)
      BY <3>1, <3>4 DEF Serve, ServeLate, Executed, Call
    <3> QED
      BY <1>2, <3>2, <3>3, <3>4 DEF Progress
  <2> QED
    BY <2>1, <2>2, <2>3 DEF Moving
<1>3. 0 \notin Calls
  BY DEF Calls
<1> QED
  BY <1>1, <1>2, <1>3 DEF ClientStep

\* What became of one command is an execution, a close or a stutter.
LEMMA OneCommandChanges ==
  ASSUME NEW k \in Commands, UNCHANGED intent,
         \A j \in Commands \ {k} : (Moves(j)' <=> Moves(j)) /\ (Ran(j)' <=> Ran(j)),
         Moves(k)' => Moves(k), Ran(k) => Ran(k)', Ran(k)' => Moves(k) \/ Ran(k)
  PROVE  Issuance!Next \/ UNCHANGED Issuance!vars
<1>1. CASE Ran(k)' /\ ~Ran(k)
  <2>1. k \in Open /\ Open' = Open \ {k} /\ Done' = Done \cup {k}
    BY <1>1 DEF Open, Done
  <2>2. Issuance!Execute(k)
    BY <2>1, MappedSets DEF Issuance!Execute
  <2> QED
    BY <2>2 DEF Issuance!Next
<1>2. CASE ~Ran(k)' /\ Moves(k) /\ ~Moves(k)'
  <2>1. k \in Open /\ Open' = Open \ {k} /\ Done' = Done
    BY <1>2 DEF Open, Done
  <2>2. Issuance!Close(k)
    BY <2>1, MappedSets DEF Issuance!Close
  <2> QED
    BY <2>2 DEF Issuance!Next
<1>3. CASE (Ran(k)' <=> Ran(k)) /\ (Ran(k) \/ (Moves(k)' <=> Moves(k)))
  <2>1. Open' = Open /\ Done' = Done
    BY <1>3 DEF Open, Done
  <2> QED
    BY <2>1, Stutters
<1> QED
  BY <1>1, <1>2, <1>3

\* A step of the client or of the backend.
LEMMA ClientMaps ==
  ASSUME CInv, PInv, Client PROVE Issuance!Next \/ UNCHANGED Issuance!vars
<1>1. ClientStep /\ UNCHANGED <<command, intent>>
  BY DEF Client
<1>2. PICK c \in Calls \cup {0} :
        /\ \A d \in Calls \ {c} : call'[d] = call[d] /\ (Moving(d)' <=> Moving(d))
        /\ c # 0 /\ call[c].executed > 0 => call'[c].executed > 0
  BY <1>1, OneCallChanges
<1>3. \A d \in Calls : Advances(d)
  BY <1>1, ClientAdvances
<1>4. ASSUME NEW j \in Commands, c # 0 => command[c] # j
      PROVE  (Moves(j)' <=> Moves(j)) /\ (Ran(j)' <=> Ran(j))
  <2>1. \A d \in Calls : command[d] = j => call'[d] = call[d] /\ (Moving(d)' <=> Moving(d))
    <3> SUFFICES ASSUME NEW d \in Calls, command[d] = j PROVE d # c
      BY <1>2
    <3> QED
      BY <1>4 DEF Calls
  <2> QED
    BY <1>1, <2>1 DEF Moves, Ran
<1>5. CASE c # 0 /\ command[c] \in Commands
  <2> DEFINE k == command[c]
  <2>1. \A j \in Commands \ {k} : (Moves(j)' <=> Moves(j)) /\ (Ran(j)' <=> Ran(j))
    BY <1>4
  <2>2. /\ Moves(k)' => Moves(k)
        /\ Ran(k)' => Moves(k) \/ Ran(k)
    BY <1>1, <1>3 DEF Moves, Ran, Advances
  <2>3. Ran(k) => Ran(k)'
    BY <1>1, <1>2, <1>5 DEF Ran
  <2> HIDE DEF k
  <2> QED
    BY <1>1, <1>5, <2>1, <2>2, <2>3, OneCommandChanges DEF k
<1>6. CASE c = 0 \/ command[c] \notin Commands
  <2>1. Open' = Open /\ Done' = Done
    BY <1>4, <1>6 DEF Open, Done
  <2> QED
    BY <1>1, <2>1, Stutters
<1> QED
  BY <1>5, <1>6

-----------------------------------------------------------------------------
(* The refinement *)

\* The panel implements IssueOnce: a command is sent for the draft it was first made
\* from, and only while no other for that draft was executed or may yet be.
THEOREM PanelIssuesOnce == Spec => IssuesOnce
<1>1. Init => Issuance!Init
  <2> SUFFICES ASSUME Init PROVE Issuance!Init
    OBVIOUS
  <2>1. \A k \in Commands : ~Moves(k) /\ ~Ran(k)
    BY DEF Init, Moves, Ran, Commands
  <2> QED
    BY <2>1, MappedSets DEF Issuance!Init, Init, Open, Done
<1>2. CInv /\ PInv /\ [Next]_vars => [Issuance!Next]_(Issuance!vars)
  <2> SUFFICES ASSUME CInv, PInv, [Next]_vars
               PROVE  Issuance!Next \/ UNCHANGED Issuance!vars
    OBVIOUS
  <2>1. CASE UNCHANGED vars
    BY <2>1, KeptQuiet, KeptStutters, Stutters DEF vars, ctlVars
  <2>2. CASE CommandsKept
    BY <2>2, KeptStutters, Stutters
  <2>3. CASE \E c \in Calls, k \in Commands : Issue(c, k)
    BY <2>3, IssueSends
  <2>4. CASE \E c \in Calls : Retry(c)
    BY <2>4, RetrySends
  <2>5. CASE Client
    BY <2>5, ClientMaps
  <2> QED
    BY <2>1, <2>2, <2>3, <2>4, <2>5, StepKinds
<1> QED
  BY <1>1, <1>2, PInvInvariant, PTL DEF Spec, IssuesOnce, Issuance!Spec

\* No draft is executed under two commands.
THEOREM DraftsExecutedOnce == Spec => []Issuance!OncePerIntent
  BY PanelIssuesOnce, Issuance!ExecutedOnce, PTL DEF IssuesOnce
=============================================================================
