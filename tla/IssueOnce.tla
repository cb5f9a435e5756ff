------------------------------- MODULE IssueOnce -------------------------------
(***************************************************************************)
(* What the invitation controllers promise, whatever happens to their calls:  *)
(* what the administrator meant to issue once is not issued twice.  A command  *)
(* carries the intent it was made for; while one may still be executed, or has *)
(* been, no other is sent for the same intent.                                 *)
(***************************************************************************)
EXTENDS Integers, TLAPS

CONSTANTS Commands, Intents, NoIntent

VARIABLES
  intent,  \* command -> what it is to issue
  open,    \* commands that may yet be executed
  done     \* commands that were

vars == <<intent, open, done>>

Init ==
  /\ intent = [k \in Commands |-> NoIntent]
  /\ open = {}
  /\ done = {}

\* A command is sent, for the first time or again; it may fail to leave
Send(k, i) ==
  /\ intent[k] \in {NoIntent, i}
  /\ \A j \in Commands \ {k} : intent[j] = i => j \notin open \cup done
  /\ intent' = [intent EXCEPT ![k] = i]
  /\ open' \in {open, open \cup ({k} \ done)}
  /\ UNCHANGED done

Execute(k) ==
  /\ k \in open
  /\ open' = open \ {k}
  /\ done' = done \cup {k}
  /\ UNCHANGED intent

\* Nothing of it is on its way any more
Close(k) ==
  /\ k \in open
  /\ open' = open \ {k}
  /\ UNCHANGED <<intent, done>>

Next == \E k \in Commands : (\E i \in Intents : Send(k, i)) \/ Execute(k) \/ Close(k)

Spec == Init /\ [][Next]_vars

\* No intent is executed under two commands.
OncePerIntent == \A j, k \in done : intent[j] = intent[k] => j = k

\* Of the commands sent for one intent only one may be executed.
Distinct == \A j, k \in open \cup done : intent[j] = intent[k] => j = k

Typed ==
  /\ intent \in [Commands -> Intents \cup {NoIntent}]
  /\ open \subseteq Commands
  /\ done \subseteq Commands

\* No intent is executed under two commands: it follows from what may be sent, however
\* often commands are repeated, lost and executed late.
THEOREM ExecutedOnce == Spec => []OncePerIntent
<1>1. Init => Typed /\ Distinct
  BY DEF Init, Typed, Distinct
<1>2. Typed /\ Distinct /\ [Next]_vars => Typed' /\ Distinct'
  <2> SUFFICES ASSUME Typed, Distinct, [Next]_vars PROVE Typed' /\ Distinct'
    OBVIOUS
  <2>1. ASSUME NEW k \in Commands, NEW i \in Intents, Send(k, i) PROVE Typed' /\ Distinct'
    <3>1. /\ intent' = [intent EXCEPT ![k] = i] /\ done' = done
          /\ open' \in {open, open \cup ({k} \ done)}
          /\ \A j \in Commands \ {k} : intent[j] = i => j \notin open \cup done
      BY <2>1 DEF Send
    <3>2. Typed'
      BY <3>1 DEF Typed
    <3>3. Distinct'
      BY <3>1 DEF Typed, Distinct
    <3> QED
      BY <3>2, <3>3
  <2>2. ASSUME NEW k \in Commands, Execute(k) \/ Close(k) PROVE Typed' /\ Distinct'
    BY <2>2 DEF Execute, Close, Typed, Distinct
  <2>3. CASE UNCHANGED vars
    BY <2>3 DEF vars, Typed, Distinct
  <2> QED
    BY <2>1, <2>2, <2>3 DEF Next
<1>3. Distinct => OncePerIntent
  BY DEF Distinct, OncePerIntent
<1> QED
  BY <1>1, <1>2, <1>3, PTL DEF Spec
=============================================================================
