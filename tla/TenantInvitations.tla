--------------------------- MODULE TenantInvitations ---------------------------
(***************************************************************************)
(* The invitation panel of a tenant's own administration: the controller       *)
(* (tenant-admin/sections/users/invitations-controller.js) and the form it     *)
(* disables and clears (invitations-view.js), over the ordinary API client with *)
(* a time limit (platform/customer-invitations/client.js).                      *)
(*                                                                              *)
(* It does what the panel of the platform console does (PlatformInvitations),   *)
(* without proofs of presence and with a transport of its own; what it makes of *)
(* failed retries and failed reads differs.                                     *)
(*                                                                              *)
(* Calls are numbered in the order in which they are made; the panel makes one  *)
(* at a time.                                                                   *)
(***************************************************************************)
EXTENDS Integers

CONSTANTS
  MaxCalls,    \* bound: calls of the panel
  MaxCommands  \* bound: command ids used for batches

VARIABLES
  status, error,
  pending,    \* pendingBatch, or 0
  step,       \* what perform() awaits, or "none" when the controller is not busy
  calls,      \* calls made so far; the last one is the one awaited
  answer,     \* to the call awaited
  late,       \* the batch commands of calls given up that may still arrive
  disposed,
  draft,      \* the draft in the form
  submitted,  \* the form waits for the outcome of its draft
  intent,     \* history: batch command -> the draft it was made from, or 0
  executed,   \* history: batch commands the backend executed
  uncertain   \* history: batch commands of which an attempt had an uncertain response
              \* and none a receipt

vars == <<status, error, pending, step, calls, answer, late, disposed, draft, submitted,
          intent, executed, uncertain>>

-----------------------------------------------------------------------------

Commands == 1..MaxCommands
Drafts   == 1..(MaxCommands + 1)
Steps    == {"none", "load", "submit", "mutate", "reread"}
Refusals == {"input", "conflict", "limited", "authority"}

Init ==
  /\ status = "idle"
  /\ error = "none"
  /\ pending = 0
  /\ step = "none"
  /\ calls = 0
  /\ answer = "none"
  /\ late = {}
  /\ disposed = FALSE
  /\ draft = 1
  /\ submitted = FALSE
  /\ intent = [k \in Commands |-> 0]
  /\ executed = {}
  /\ uncertain = {}

\* update(): a disposed controller publishes nothing; the form is emptied once its
\* batch is out and a list was read, and left as it is on an error
Publish(s, e) ==
  IF disposed THEN UNCHANGED <<status, error, draft, submitted>>
  ELSE /\ status' = s
       /\ error' = e
       /\ draft' = IF submitted /\ s = "ready" THEN draft + 1 ELSE draft
       /\ submitted' = (submitted /\ s \notin {"ready", "error"})

\* perform() sends the call of step s
Await(s) ==
  /\ calls < MaxCalls
  /\ calls' = calls + 1
  /\ step' = s
  /\ answer' = "none"

Perform(s) ==
  /\ ~disposed /\ step = "none"
  /\ Await(s)
  /\ status' = "loading"
  /\ error' = "none"

-----------------------------------------------------------------------------
(* The administrator *)

Load ==
  /\ Perform("load")
  /\ UNCHANGED <<pending, late, disposed, draft, submitted, intent, executed,
                 uncertain>>

\* The form is enabled, and issue() takes it
Issue(k) ==
  /\ pending = 0 /\ error # "authority" /\ status \in {"ready", "error"}
  /\ intent[k] = 0 /\ \A j \in 1..(k - 1) : intent[j] # 0
  /\ Perform("submit")
  /\ pending' = k
  /\ intent' = [intent EXCEPT ![k] = draft]
  /\ submitted' = TRUE
  /\ UNCHANGED <<late, disposed, draft, executed, uncertain>>

\* retryBatch() sends the command kept
RetryBatch ==
  /\ pending # 0 /\ status = "retry_batch"
  /\ Perform("submit")
  /\ UNCHANGED <<pending, late, disposed, draft, submitted, intent, executed, uncertain>>

\* mutate(): reissue or revoke of an invitation shown, never kept
Mutate ==
  /\ status = "ready" /\ pending = 0
  /\ Perform("mutate")
  /\ UNCHANGED <<pending, late, disposed, draft, submitted, intent, executed, uncertain>>

\* clear(): the section is left
Clear ==
  /\ ~disposed
  /\ disposed' = TRUE
  /\ pending' = 0
  /\ status' = "idle"
  /\ error' = "none"
  /\ UNCHANGED <<step, calls, answer, late, draft, submitted, intent, executed, uncertain>>

-----------------------------------------------------------------------------
(* The backend *)

\* It runs the call, turns it down, or fails before or after having run it; a
\* command it has run before it may turn down only before looking at it.  The
\* command of a submit is pendingBatch; one whose section was left may still run,
\* which the property here is not about
Serve ==
  /\ step # "none" /\ answer = "none"
  /\ \/ /\ answer' \in {"ok", "unknown"}
        /\ executed' = IF step = "submit" THEN executed \cup ({pending} \ {0}) ELSE executed
     \/ /\ answer' \in {"unknown"} \cup IF pending \in executed THEN {"limited", "authority"}
                                        ELSE Refusals
        /\ UNCHANGED executed
  /\ UNCHANGED <<status, error, pending, step, calls, late, disposed, draft, submitted, intent,
                 uncertain>>

\* The network fails or the time limit aborts the call, which may still arrive
Lose ==
  /\ step # "none" /\ answer = "none"
  /\ answer' = "unknown"
  /\ late' \in {late, IF step = "submit" THEN late \cup ({pending} \ {0}) ELSE late}
  /\ UNCHANGED <<status, error, pending, step, calls, disposed, draft, submitted, intent,
                 executed, uncertain>>

ServeLate(k) ==
  /\ k \in late
  /\ late' = late \ {k}
  /\ executed' \in {executed, executed \cup {k}}
  /\ UNCHANGED <<status, error, pending, step, calls, answer, disposed, draft, submitted,
                 intent, uncertain>>

-----------------------------------------------------------------------------
(* Answers *)

Answered(s) == step = s /\ answer # "none"

\* The batch is out: the command is dropped and the list read, unless the section
\* was left
SubmitDone ==
  /\ Answered("submit") /\ answer = "ok"
  /\ pending' = 0
  /\ uncertain' = uncertain \ {pending}
  /\ IF disposed THEN step' = "none" /\ answer' = "none" /\ UNCHANGED calls ELSE Await("reread")
  /\ UNCHANGED <<status, error, late, disposed, draft, submitted, intent, executed>>

\* Any refusal drops the command, that of a retry as well
SubmitFails ==
  /\ Answered("submit") /\ answer # "ok"
  /\ pending' = IF answer = "unknown" THEN pending ELSE 0
  /\ uncertain' = IF answer = "unknown" THEN uncertain \cup ({pending} \ {0}) ELSE uncertain
  /\ Publish(IF pending' # 0 THEN "retry_batch" ELSE "error", answer)
  /\ step' = "none"
  /\ answer' = "none"
  /\ UNCHANGED <<calls, late, disposed, intent, executed>>

MutateDone ==
  /\ Answered("mutate") /\ answer = "ok"
  /\ IF disposed THEN step' = "none" /\ answer' = "none" /\ UNCHANGED calls ELSE Await("reread")
  /\ UNCHANGED <<status, error, pending, late, disposed, draft, submitted, intent, executed,
                 uncertain>>

MutateFails ==
  /\ Answered("mutate") /\ answer # "ok"
  /\ Publish("refresh_required", answer)
  /\ step' = "none"
  /\ answer' = "none"
  /\ UNCHANGED <<pending, calls, late, disposed, intent, executed, uncertain>>

\* read(), of load() or after a write
ReadSettles ==
  /\ \/ Answered("load")
     \/ Answered("reread")
  /\ IF answer = "ok" THEN Publish(IF pending # 0 THEN "retry_batch" ELSE "ready", "none")
     ELSE IF step = "reread" THEN Publish("refresh_required", "unknown")
     ELSE Publish(IF pending # 0 THEN "retry_batch" ELSE "error", answer)
  /\ step' = "none"
  /\ answer' = "none"
  /\ UNCHANGED <<pending, calls, late, disposed, intent, executed, uncertain>>

-----------------------------------------------------------------------------

Next ==
  \/ Load \/ RetryBatch \/ Mutate \/ Clear \/ Serve \/ Lose
  \/ SubmitDone \/ SubmitFails \/ MutateDone \/ MutateFails \/ ReadSettles
  \/ \E k \in Commands : Issue(k) \/ ServeLate(k)

Spec == Init /\ [][Next]_vars

-----------------------------------------------------------------------------
(* Properties *)

\* A draft whose command had an uncertain response, and was executed, is not issued
\* under a second one ("It cannot create a second command while pending").
NoSecondCommand ==
  \A j, k \in executed : j \in uncertain /\ intent[j] = intent[k] => j = k
=============================================================================
