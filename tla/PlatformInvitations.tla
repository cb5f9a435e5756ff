-------------------------- MODULE PlatformInvitations --------------------------
(***************************************************************************)
(* The invitation panel of the platform console: the controller                *)
(* (platform-admin/customer-invitation-controller.js) and the form it disables *)
(* and clears (customer-invitations-view.js), over the operation client.       *)
(*                                                                             *)
(* A batch of invitations is issued under a command id of its own.  Its outcome *)
(* may stay unknown; the command is then kept and can only be sent again, so    *)
(* that the same batch never goes out under two ids.                            *)
(*                                                                              *)
(* The contents of the form are abstracted to the number of the draft in it:    *)
(* the form is emptied, and the next draft begun, when an issued batch was      *)
(* followed by a successful read.                                               *)
(***************************************************************************)
EXTENDS OperationClient

CONSTANT MaxCommands  \* bound: command ids used for batches

ASSUME MaxCommandsAssumption == MaxCommands \in Nat

VARIABLES
  creation,   \* tenantId === null: the form that creates the customer with its invitations
  status, error,
  pending,    \* the command kept, or 0
  step,       \* what perform() awaits, or "none" when the controller is not busy
  prior,      \* priorOutcomeUnknown of the submit under way
  mine,       \* the call it awaits
  disposed,
  draft,      \* the draft in the form
  submitted,  \* the form waits for the outcome of its draft
  command,    \* history: call -> the batch command it carries, or 0
  intent      \* history: batch command -> the draft it was made from, or 0

ctlVars == <<creation, status, error, pending, step, prior, mine, disposed, draft,
             submitted, command, intent>>
vars    == <<clientVars, ctlVars>>

-----------------------------------------------------------------------------

Commands == 1..MaxCommands
Drafts   == 1..(MaxCommands + 1)
Statuses == {"idle", "loading", "ready", "error", "retry", "refresh_required", "complete"}
Errors   == {"none", "input", "refused", "denied", "cancelled", "notExecuted", "unknown",
             "read", "refresh"}
Steps    == {"none", "load", "submit", "created", "mutate", "reread"}

\* errorCode(): the refusals keep their kind, what a call cannot say is unknown
ErrorCode(result) ==
  IF result \in {"refused", "denied", "cancelled", "notExecuted"} THEN result ELSE "unknown"

ReadError(result) ==
  IF ErrorCode(result) \in {"unknown", "notExecuted"} THEN "read" ELSE ErrorCode(result)

Init ==
  /\ ClientInit
  /\ creation \in BOOLEAN
  /\ status = (IF creation THEN "ready" ELSE "idle")
  /\ error = "none"
  /\ pending = 0
  /\ step = "none"
  /\ prior = FALSE
  /\ mine = 0
  /\ disposed = FALSE
  /\ draft = 1
  /\ submitted = FALSE
  /\ command = [c \in Calls |-> 0]
  /\ intent = [k \in Commands |-> 0]

\* Mutant: the form is emptied whenever a list was read
PublishEmptying(s, e) ==
  IF disposed THEN UNCHANGED <<status, error, draft, submitted>>
  ELSE /\ status' = s
       /\ error' = e
       /\ draft' = IF s = "ready" THEN draft + 1 ELSE draft
       /\ submitted' = (submitted /\ s \notin {"ready", "error"})

\* update(): a disposed controller publishes nothing; the form is emptied once its
\* batch is out and the list was read, and left as it is when the batch failed
Publish(s, e) ==
  IF disposed THEN UNCHANGED <<status, error, draft, submitted>>
  ELSE /\ status' = s
       /\ error' = e
       /\ draft' = IF submitted /\ s = "ready" THEN draft + 1 ELSE draft
       /\ submitted' = (submitted /\ s \notin {"ready", "error"})

\* perform() may begin, the last call being kept for the read that follows a write
Free(c) == ~disposed /\ step = "none" /\ c < MaxCalls

\* The call c of step s, carrying command k
Await(c, s, write, k) ==
  /\ Request(c, write)
  /\ step' = s
  /\ mine' = c
  /\ command' = [command EXCEPT ![c] = k]

Loading == status' = "loading" /\ error' = "none"

\* perform() returns
Return == step' = "none" /\ mine' = 0 /\ prior' = FALSE

-----------------------------------------------------------------------------
(* The operator *)

\* load(), of the panel of an existing customer
Load(c) ==
  /\ Free(c) /\ ~creation
  /\ Await(c, "load", FALSE, 0)
  /\ Loading
  /\ UNCHANGED <<creation, pending, prior, disposed, draft, submitted, intent>>

\* The form is enabled, and issue() takes it
Issuable == pending = 0 /\ status \in {"ready", "error"} /\ error # "denied"

\* issue() with an id of its own
Issue(c, k) ==
  /\ Free(c) /\ Issuable
  /\ intent[k] = 0 /\ \A j \in 1..(k - 1) : intent[j] # 0
  /\ Await(c, "submit", TRUE, k)
  /\ pending' = k
  /\ prior' = FALSE
  /\ intent' = [intent EXCEPT ![k] = draft]
  /\ submitted' = TRUE
  /\ Loading
  /\ UNCHANGED <<creation, disposed, draft>>

\* A draft the adapter rejects before any call is made
IssueInvalid ==
  /\ ~disposed /\ step = "none" /\ Issuable
  /\ status' = "error"
  /\ error' = "input"
  /\ submitted' = FALSE
  /\ UNCHANGED <<clientVars, creation, pending, step, prior, mine, disposed, draft,
                 command, intent>>

\* retry() sends the command kept
Retry(c) ==
  /\ Free(c) /\ pending # 0 /\ status = "retry"
  /\ Await(c, "submit", TRUE, pending)
  /\ prior' = TRUE
  /\ Loading
  /\ UNCHANGED <<creation, pending, disposed, draft, submitted, intent>>

\* mutate(): reissue or revoke of an invitation shown, never kept
Mutate(c) ==
  /\ Free(c) /\ ~creation /\ status = "ready" /\ pending = 0
  /\ Await(c, "mutate", TRUE, 0)
  /\ Loading
  /\ UNCHANGED <<creation, pending, prior, disposed, draft, submitted, intent>>

\* stop(): the panel is left
Dispose ==
  /\ ~disposed
  /\ disposed' = TRUE
  /\ pending' = 0
  /\ status' = "idle"
  /\ error' = "none"
  /\ UNCHANGED <<clientVars, creation, step, prior, mine, draft, submitted, command, intent>>

-----------------------------------------------------------------------------
(* Answers *)

Settled(s) == step = s /\ call[mine].phase = "done"
Succeeded  == call[mine].result = "ok"

\* The list is read within the same perform(), unless the panel was left
Reread ==
  IF disposed
  THEN Return /\ UNCHANGED <<clientVars, command>>
  ELSE /\ prior' = FALSE
       /\ \E c \in Calls : Await(c, "reread", FALSE, 0)

SubmitDone ==
  /\ Settled("submit") /\ Succeeded
  /\ pending' = 0
  /\ IF creation /\ ~disposed
     THEN /\ step' = "created"
          /\ Publish("complete", "none")
          /\ mine' = 0
          /\ prior' = FALSE
          /\ UNCHANGED <<clientVars, command>>
     ELSE /\ Reread
          /\ UNCHANGED <<status, error, draft, submitted>>
  /\ UNCHANGED <<creation, disposed, intent>>

\* Mutant: the answer to a retry speaks for the attempts before it
SubmitFailsAfresh ==
  /\ Settled("submit") /\ ~Succeeded
  /\ LET code == ErrorCode(call[mine].result) IN
     /\ pending' = IF code # "unknown" THEN 0 ELSE pending
     /\ Publish(IF pending' # 0 THEN "retry" ELSE "error", code)
  /\ Return
  /\ UNCHANGED <<clientVars, creation, disposed, command, intent>>

\* Mutant: every failure ends the command
SubmitFailsForgetting ==
  /\ Settled("submit") /\ ~Succeeded
  /\ LET code == IF prior THEN "unknown" ELSE ErrorCode(call[mine].result) IN
     Publish("error", code)
  /\ pending' = 0
  /\ Return
  /\ UNCHANGED <<clientVars, creation, disposed, command, intent>>

\* A later refused or cancelled attempt cannot disprove an earlier commit
SubmitFails ==
  /\ Settled("submit") /\ ~Succeeded
  /\ LET code == IF prior THEN "unknown" ELSE ErrorCode(call[mine].result) IN
     /\ pending' = IF code # "unknown" THEN 0 ELSE pending
     /\ Publish(IF pending' # 0 THEN "retry" ELSE "error", code)
  /\ Return
  /\ UNCHANGED <<clientVars, creation, disposed, command, intent>>

\* onCreated(), which reads the directory of customers, resolves or rejects
CreatedSettles ==
  /\ step = "created"
  /\ \E e \in {"none", "refresh"} : IF e = "none" THEN UNCHANGED <<status, error, draft, submitted>>
                                    ELSE Publish("complete", e)
  /\ Return
  /\ UNCHANGED <<clientVars, creation, pending, disposed, command, intent>>

MutateDone ==
  /\ Settled("mutate") /\ Succeeded
  /\ Reread
  /\ UNCHANGED <<creation, status, error, pending, disposed, draft, submitted, intent>>

MutateFails ==
  /\ Settled("mutate") /\ ~Succeeded
  /\ Publish("refresh_required", ErrorCode(call[mine].result))
  /\ Return
  /\ UNCHANGED <<clientVars, creation, pending, disposed, command, intent>>

ReadDone ==
  /\ Settled("load") \/ Settled("reread")
  /\ Succeeded
  /\ Publish(IF pending # 0 THEN "retry" ELSE "ready", "none")
  /\ Return
  /\ UNCHANGED <<clientVars, creation, pending, disposed, command, intent>>

\* A failed read closes the form until one succeeds
ReadFails ==
  /\ Settled("load") \/ Settled("reread")
  /\ ~Succeeded
  /\ IF pending # 0 THEN Publish("retry", "unknown")
     ELSE Publish("refresh_required", ReadError(call[mine].result))
  /\ Return
  /\ UNCHANGED <<clientVars, creation, pending, disposed, command, intent>>

-----------------------------------------------------------------------------
(* The rest of the page *)

\* Other parts of the console use the same client
OtherCall(c) ==
  /\ c < MaxCalls
  /\ \E write \in BOOLEAN : Request(c, write)
  /\ UNCHANGED ctlVars

\* When the session boundary expires, the panel is cleared with the client
Client ==
  /\ ClientStep
  /\ IF ended' /\ ~ended
     THEN /\ disposed' = TRUE
          /\ pending' = 0
          /\ status' = "idle"
          /\ error' = "none"
     ELSE UNCHANGED <<disposed, pending, status, error>>
  /\ UNCHANGED <<creation, step, prior, mine, draft, submitted, command, intent>>

-----------------------------------------------------------------------------

\* Promise reactions and the callback after a creation
React ==
  \/ SubmitDone \/ SubmitFails \/ CreatedSettles \/ MutateDone \/ MutateFails
  \/ ReadDone \/ ReadFails

Next ==
  \/ \E c \in Calls : \/ Load(c) \/ Retry(c) \/ Mutate(c) \/ OtherCall(c)
                      \/ \E k \in Commands : Issue(c, k)
  \/ IssueInvalid \/ Dispose \/ React \/ Client

Spec == Init /\ [][Next]_vars

\* A call's progress, with what an expired session does to the panel
ClientProgress(c) == Progress(c) /\ Client

FairSpec ==
  /\ Spec
  /\ WF_vars(React)
  /\ \A c \in Calls : WF_vars(ClientProgress(c))

-----------------------------------------------------------------------------
(* Properties *)

\* Every variable keeps its type.
TypeOK ==
  /\ ClientTypeOK
  /\ creation \in BOOLEAN
  /\ status \in Statuses
  /\ error \in Errors
  /\ pending \in Commands \cup {0}
  /\ step \in Steps
  /\ prior \in BOOLEAN
  /\ mine \in Calls \cup {0}
  /\ disposed \in BOOLEAN
  /\ draft \in Drafts
  /\ submitted \in BOOLEAN
  /\ command \in [Calls -> Commands \cup {0}]
  /\ intent \in [Commands -> Drafts \cup {0}]

Carriers(k) == {c \in Calls : command[c] = k}

\* A batch of unknown outcome is kept, whatever later attempts and reads are
\* answered, until an attempt succeeds or the panel is left ("retains only the exact
\* in-memory creation or batch command after an unknown outcome").
UnknownIsKept ==
  \A k \in Commands :
    /\ ~disposed
    /\ \E c \in Carriers(k) : call[c].result = "unknown"
    /\ \A c \in Carriers(k) : call[c].result # "ok"
    => pending = k

\* Executed, or still on its way to be
Executes(k) == \E c \in Carriers(k) : call[c].executed > 0
Travels(k)  == \E c \in Carriers(k) : call[c].phase \in {"queued", "first", "confirm", "second"}
                                      \/ c \in late

\* The panel issues every draft under one command only.
Issuance == INSTANCE IssueOnce WITH
  Intents <- Drafts, NoIntent <- 0,
  open <- {k \in Commands : Travels(k) /\ ~Executes(k)},
  done <- {k \in Commands : Executes(k)}

IssuesOnce == Issuance!Spec

\* The panel does not stay busy: every call it waits for settles, in its turn.
BusyReleased == step # "none" ~> step = "none"
=============================================================================
