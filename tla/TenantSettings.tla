---------------------------- MODULE TenantSettings ----------------------------
(***************************************************************************)
(* The settings of a tenant: a shell that renders one section at a time, the    *)
(* form of a section with its conflicts, and the presentation of the tenant,     *)
(* which a save of the organization brings up to date at once.                    *)
(*                                                                                *)
(* tenant-admin/settings-shell.js, tenant-admin/sections/organization/index.js     *)
(* (that of the cost allocation does the same without a presentation),              *)
(* renderSectionConflict() of tenant-admin/section-presentation.js and              *)
(* platform/tenant-presentation-runtime.js.  A section goes on with the calls of     *)
(* a rendering that was left, and looks at isCurrent() when they are answered.       *)
(***************************************************************************)
EXTENDS Integers, FiniteSets

CONSTANTS
  Sections,     \* sections with a form; "organization" is one
  MaxSurface,   \* bound: renderings
  MaxRevision,  \* bound: revisions of a section
  MaxCalls      \* bound: saves on their way

VARIABLES
  section,       \* the section that is rendered
  surface,       \* generation of the shell
  open,          \* the shell is on the page, which is not locked
  loads,         \* loads on their way
  form,          \* of the rendering that is current
  calls,         \* saves on their way
  presentation,  \* of the tenant
  saved,         \* history: revision of the organization last reported as saved
  revision       \* backend: revision of each section

surfaceVars == <<section, surface, open, loads, form>>
vars == <<surfaceVars, calls, presentation, saved, revision>>

-----------------------------------------------------------------------------

Pages  == Sections \cup {"overview"}
Phases == {"none", "error", "ready", "saving", "failed", "conflict", "reapplying"}

Form == [phase : Phases, base : Nat]
Load == [surface : Nat, section : Sections, read : Nat]

\* A save: of the form, or another after a conflict, which first reads the revision;
\* of the organization, the presentation is refreshed after it
Steps == {"reload", "reloaded", "put", "accepted", "conflict", "refresh", "refreshed"}
Save  == [surface : Nat, section : Sections, step : Steps, reapply : BOOLEAN,
          revision : Nat, read : Nat, sequence : Nat]

\* current.revision (0 for the fallback), highestRevision, refreshSequence and whether
\* the authority is there
Presentation == [revision : Nat, highest : Nat, sequence : Nat, trusted : BOOLEAN]

NoForm == [phase |-> "none", base |-> 0]

Current(s) == open /\ surface = s

Init ==
  /\ section = "overview"
  /\ surface = 1
  /\ open = TRUE
  /\ loads = {}
  /\ form = NoForm
  /\ calls = {}
  /\ revision = [s \in Sections |-> 1]
  /\ \E r \in {0, 1} :
       presentation = [revision |-> r, highest |-> r, sequence |-> 1, trusted |-> TRUE]
  /\ saved = 0

-----------------------------------------------------------------------------
(* The shell *)

\* render()
Render(s) ==
  /\ section' = s
  /\ surface' = surface + 1
  /\ open' = TRUE
  /\ form' = NoForm
  /\ loads' = IF s = "overview" THEN loads
              ELSE loads \cup {[surface |-> surface + 1, section |-> s, read |-> 0]}

\* navigate(), retrying, reloading after a conflict, or the view is opened again, or
\* rendered anew with another language
Navigate(s) ==
  /\ presentation.trusted /\ surface < MaxSurface
  /\ Render(s)
  /\ UNCHANGED <<calls, presentation, saved, revision>>

\* Another view replaces the shell, or the page is locked
Leave ==
  /\ open
  /\ open' = FALSE
  /\ form' = NoForm
  /\ UNCHANGED <<section, surface, loads, calls, presentation, saved, revision>>

-----------------------------------------------------------------------------
(* Loading a section *)

ServeLoad(l) ==
  /\ l.read = 0
  /\ loads' = (loads \ {l}) \cup {[l EXCEPT !.read = revision[l.section]]}
  /\ UNCHANGED <<section, surface, open, form, calls, presentation, saved, revision>>

\* The form appears if the rendering is still the one
ReceiveLoad(l) ==
  /\ l.read # 0
  /\ loads' = loads \ {l}
  /\ form' = IF Current(l.surface) THEN [phase |-> "ready", base |-> l.read] ELSE form
  /\ UNCHANGED <<section, surface, open, calls, presentation, saved, revision>>

FailLoad(l) ==
  /\ loads' = loads \ {l}
  /\ form' = IF Current(l.surface) THEN [phase |-> "error", base |-> 0] ELSE form
  /\ UNCHANGED <<section, surface, open, calls, presentation, saved, revision>>

-----------------------------------------------------------------------------
(* Saving *)

Begin(step, reapply, base) ==
  /\ Cardinality(calls) < MaxCalls
  /\ calls' = calls \cup
       {[surface |-> surface, section |-> section, step |-> step, reapply |-> reapply,
         revision |-> base, read |-> 0, sequence |-> 0]}

Submit ==
  /\ open /\ form.phase \in {"ready", "failed"}
  /\ form' = [form EXCEPT !.phase = "saving"]
  /\ Begin("put", FALSE, form.base)
  /\ UNCHANGED <<section, surface, open, loads, presentation, saved, revision>>

\* onReapply()
Reapply ==
  /\ open /\ form.phase = "conflict"
  /\ form' = [form EXCEPT !.phase = "reapplying"]
  /\ Begin("reload", TRUE, 0)
  /\ UNCHANGED <<section, surface, open, loads, presentation, saved, revision>>

Becomes(c, d) == calls' = (calls \ {c}) \cup {d}

ServeReload(c) ==
  /\ c.step = "reload"
  /\ Becomes(c, [c EXCEPT !.step = "reloaded", !.revision = revision[c.section]])
  /\ UNCHANGED <<surfaceVars, presentation, saved, revision>>

\* Mutant: a rendering that was left goes on to save
ReceiveReloadLeft(c) ==
  /\ c.step = "reloaded"
  /\ Becomes(c, [c EXCEPT !.step = "put"])
  /\ UNCHANGED <<surfaceVars, presentation, saved, revision>>

\* The draft is saved upon the revision that was read
ReceiveReload(c) ==
  /\ c.step = "reloaded"
  /\ IF Current(c.surface) THEN Becomes(c, [c EXCEPT !.step = "put"]) ELSE calls' = calls \ {c}
  /\ UNCHANGED <<surfaceVars, presentation, saved, revision>>

\* The backend accepts a save of the current revision, and of no other
ServePut(c) ==
  /\ c.step = "put"
  /\ IF c.revision = revision[c.section]
     THEN /\ revision[c.section] < MaxRevision
          /\ revision' = [revision EXCEPT ![c.section] = @ + 1]
          /\ Becomes(c, [c EXCEPT !.step = "accepted", !.revision = @ + 1])
     ELSE /\ Becomes(c, [c EXCEPT !.step = "conflict"])
          /\ UNCHANGED revision
  /\ UNCHANGED <<surfaceVars, presentation, saved>>

\* The save is reported, and the section renders anew
Report(c) ==
  /\ calls' = calls \ {c}
  /\ IF Current(c.surface)
     THEN /\ surface < MaxSurface
          /\ Render(section)
          /\ saved' = IF c.section = "organization" THEN c.revision ELSE saved
     ELSE UNCHANGED <<surfaceVars, saved>>

\* Mutant: an error leaves the form as it is
NotSavedHeld(c, phase) ==
  /\ calls' = calls \ {c}
  /\ form' = IF Current(c.surface) /\ c.reapply THEN [form EXCEPT !.phase = "conflict"] ELSE form
  /\ UNCHANGED <<section, surface, open, loads, saved>>

\* An error is shown in the form; after a reapplication the conflict is again
NotSaved(c, phase) ==
  /\ calls' = calls \ {c}
  /\ form' = IF Current(c.surface)
             THEN [form EXCEPT !.phase = IF c.reapply THEN "conflict" ELSE phase] ELSE form
  /\ UNCHANGED <<section, surface, open, loads, saved>>

ReceiveConflict(c) ==
  /\ c.step = "conflict"
  /\ NotSaved(c, "conflict")
  /\ UNCHANGED <<presentation, revision>>

\* It is refused or lost, saved or not
FailSave(c) ==
  /\ c.step \in {"reload", "reloaded", "put", "accepted", "conflict"}
  /\ NotSaved(c, "failed")
  /\ UNCHANGED <<presentation, revision>>

\* saveOrganization(): the result is the presentation at once, which is then refreshed.
\* One that is older than the presentation by now, or comes without authority, is an error
ReceiveAccepted(c) ==
  /\ c.step = "accepted"
  /\ IF c.section # "organization" THEN Report(c) /\ UNCHANGED presentation
     ELSE IF ~presentation.trusted \/ c.revision < presentation.highest
     THEN NotSaved(c, "failed") /\ UNCHANGED presentation
     ELSE /\ presentation' = [presentation EXCEPT !.revision = c.revision,
                                !.highest = c.revision, !.sequence = @ + 2]
          /\ Becomes(c, [c EXCEPT !.step = "refresh", !.sequence = presentation.sequence + 2])
          /\ UNCHANGED <<surfaceVars, saved>>
  /\ UNCHANGED revision

-----------------------------------------------------------------------------
(* refresh() of the presentation *)

ServeRefresh(c) ==
  /\ c.step = "refresh"
  /\ Becomes(c, [c EXCEPT !.step = "refreshed", !.read = revision["organization"]])
  /\ UNCHANGED <<surfaceVars, presentation, saved, revision>>

\* What was read counts if it is not older, and nothing was asked or saved since
Take(c, next) ==
  presentation' = IF c.sequence # presentation.sequence THEN presentation
                  ELSE [presentation EXCEPT !.revision = next,
                          !.highest = IF next > @ THEN next ELSE @]

ReceiveRefresh(c) ==
  /\ c.step = "refreshed"
  /\ Take(c, IF c.read < presentation.highest THEN presentation.revision ELSE c.read)
  /\ Report(c)
  /\ UNCHANGED revision

\* Mutant: a refresh that fails falls back, also after a save
FailRefreshBack(c) ==
  /\ c.step \in {"refresh", "refreshed"}
  /\ Take(c, 0)
  /\ Report(c)
  /\ UNCHANGED revision

\* It fails, or takes longer than its time limit: the presentation is kept
FailRefresh(c) ==
  /\ c.step \in {"refresh", "refreshed"}
  /\ Take(c, presentation.revision)
  /\ Report(c)
  /\ UNCHANGED revision

\* The authority is gone, and with it what is on the page; the presentation falls back
Denied ==
  /\ presentation.trusted
  /\ presentation' = [revision |-> 0, highest |-> 0, sequence |-> presentation.sequence + 1,
                      trusted |-> FALSE]
  /\ open' = FALSE
  /\ form' = NoForm
  /\ UNCHANGED <<section, surface, saved, revision>>

\* A call is refused for want of authority
Deny ==
  /\ Denied
  /\ \/ \E c \in calls : calls' = calls \ {c} /\ UNCHANGED loads
     \/ \E l \in loads : loads' = loads \ {l} /\ UNCHANGED calls

-----------------------------------------------------------------------------

\* Somebody else saves
Elsewhere(s) ==
  /\ revision[s] < MaxRevision
  /\ revision' = [revision EXCEPT ![s] = @ + 1]
  /\ UNCHANGED <<surfaceVars, calls, presentation, saved>>

Next ==
  \/ \E s \in Pages : Navigate(s)
  \/ Leave \/ Submit \/ Reapply \/ Deny
  \/ \E l \in loads : ServeLoad(l) \/ ReceiveLoad(l) \/ FailLoad(l)
  \/ \E c \in calls :
       \/ ServeReload(c) \/ ReceiveReload(c) \/ ServePut(c)
       \/ ReceiveAccepted(c) \/ ReceiveConflict(c) \/ FailSave(c)
       \/ ServeRefresh(c) \/ ReceiveRefresh(c) \/ FailRefresh(c)
  \/ \E s \in Sections : Elsewhere(s)

Spec == Init /\ [][Next]_vars

-----------------------------------------------------------------------------
(* Properties *)

\* Every variable keeps its type, and the form waits exactly while a save of its
\* rendering is on its way.
TypeOK ==
  /\ section \in Pages
  /\ surface \in Nat
  /\ open \in BOOLEAN
  /\ loads \subseteq Load
  /\ form \in Form
  /\ calls \subseteq Save
  /\ form.phase \in {"saving", "reapplying"} <=> \E c \in calls : Current(c.surface)
  /\ presentation \in Presentation
  /\ saved \in Nat
  /\ revision \in [Sections -> Nat]

\* While there is authority the presentation never goes back to an older revision or to
\* the fallback, whichever of its reads is late or fails, and shows what was reported as
\* saved.
PresentationKeepsUp ==
  [][ presentation'.trusted =>
        /\ presentation.revision <= presentation'.revision
        /\ saved' <= presentation'.revision ]_vars

\* What is sent to be saved is sent by the rendering that is open, also when it first
\* has to read the revision: nothing is written for a section that was left.
WrittenWhereOpen ==
  [][ \A c \in calls' : c.step = "put" /\ c \notin calls => Current(c.surface) ]_vars
=============================================================================
