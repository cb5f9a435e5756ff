------------------------- MODULE TenantAdministration -------------------------
(***************************************************************************)
(* The settings of a tenant with the panel for bulk transfer that some           *)
(* sections have: what the panel applies is a revision of the section, and        *)
(* renders it anew; what replaces the section replaces its panel.                  *)
(*                                                                                *)
(* tenant-admin/sections/cost-allocation/index.js, which mounts the panel, and      *)
(* tenant-admin/section-registry.js, through which the authority is lost.           *)
(***************************************************************************)
EXTENDS BulkTransfer

CONSTANTS
  Sections, MaxSurface, MaxRevision, MaxCalls,  \* of TenantSettings
  PanelSections                                 \* sections with a panel

VARIABLES
  section, surface, open, loads, form, calls, presentation, saved, revision  \* of TenantSettings

Settings == INSTANCE TenantSettings

settingsVars == <<section, surface, open, loads, form, calls, presentation, saved, revision>>
adminVars    == <<settingsVars, vars>>

-----------------------------------------------------------------------------

AdminInit == Init /\ Settings!Init

\* The panel is below the form, which a conflict replaces
HasPanel == open /\ section \in PanelSections /\ form.phase \in {"ready", "saving", "failed"}

PanelView ==
  IF HasPanel' = live THEN UNCHANGED vars
  ELSE IF live THEN Detach ELSE Mount

SettingsStep == Settings!Next /\ PanelView

\* What is applied is another revision of the section
ApplyAccepted ==
  /\ ServeApply
  /\ revision[section] < MaxRevision
  /\ revision' = [revision EXCEPT ![section] = @ + 1]
  /\ UNCHANGED <<section, surface, open, loads, form, calls, presentation, saved>>

\* rerender()
Applied == ReceiveApply /\ Settings!Navigate(section)

PanelDenied ==
  /\ validations # {} \/ pending # NoCandidate
  /\ Settings!Denied /\ UNCHANGED <<loads, calls>>
  /\ Detach

PanelStep ==
  \/ Panel /\ UNCHANGED settingsVars
  \/ ApplyAccepted \/ Applied \/ PanelDenied

AdminNext == SettingsStep \/ PanelStep

AdminSpec == AdminInit /\ [][AdminNext]_adminVars

-----------------------------------------------------------------------------
(* Properties *)

\* The parts keep their types, and the panel is there where the section has one.
AdminTypeOK == TypeOK /\ Settings!TypeOK /\ (live <=> HasPanel)

\* Of TenantSettings: the presentation does not go back, and shows what was saved.
PresentationKeepsUp == Settings!PresentationKeepsUp

\* Of TenantSettings: a section that was left writes nothing.
WrittenWhereOpen == Settings!WrittenWhereOpen
=============================================================================
