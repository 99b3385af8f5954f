--------------------------- MODULE EmailTemplates ---------------------------
(***************************************************************************)
(* Managed email templates (aggregator/notifications/                      *)
(* email-template-store.ts, templates.ts), written by the control plane's  *)
(* routes and by the email tools of the MCP endpoint.  A save is a read, a *)
(* merge, two checks and two writes, each a D1 statement; other saves and  *)
(* the import of a workspace, which replaces all three tables, run in      *)
(* between, and a save may stop at any of them.                            *)
(*                                                                         *)
(* A part of a template is its text, of which only the variables matter.   *)
(* The subject stands for the subject, and the body for the html and text  *)
(* bodies; the audience stands for audience and locale; the display name,  *)
(* preheader and samples are left out.                                     *)
(***************************************************************************)
CONSTANTS
  TemplateKeys,
  EventTypes, Marketing,       \* event types, those named marketing.*
  Audiences, Customer,         \* and the default one
  Texts, VariablesOf,          \* non-blank parts, the variables each uses
  Variables, UnsubscribeUrl,
  NativeVariables,             \* those a workspace may carry
  Requests,                    \* what authors ask to save
  Workspaces,                  \* what imports bring
  Seed,                        \* the one migration 0006 inserts
  Authors,
  Omitted                      \* a field the input leaves out

Input == [key : TemplateKeys,
          mappings : SUBSET Variables, saveEvent : EventTypes \cup {Omitted},
          template : BOOLEAN,  \* an MCP tool may save only one of the others
          event : EventTypes \cup {Omitted},
          audience : Audiences \cup {Omitted},
          subject : Texts \cup {Omitted}, body : Texts \cup {Omitted},
          requires : BOOLEAN, required : SUBSET Variables]  \* when it says so

Template == [stored : BOOLEAN, enabled : BOOLEAN, event : EventTypes,
             audience : Audiences, subject : Texts \cup {Omitted},
             body : Texts \cup {Omitted}, required : SUBSET Variables,
             torn : BOOLEAN]  \* its save had begun before an import (history)

NoTemplate == [stored |-> FALSE, enabled |-> FALSE,
               event |-> CHOOSE e \in EventTypes : TRUE, audience |-> Customer,
               subject |-> Omitted, body |-> Omitted, required |-> {},
               torn |-> FALSE]

EventState == {"none", "enabled", "disabled"}

VARIABLES
  template,  \* ap_email_templates
  event,     \* ap_email_events
  mapping,   \* ap_email_variable_mappings, the enabled ones
  imported,  \* imported_envelope_digest is set
  author     \* the save each author has under way

emailVars == <<template, event, mapping, imported, author>>

SavePc == {"idle", "mappings", "event", "read", "approve", "check event",
           "upsert", "enable"}

EmailTypeOK ==
  /\ template \in [TemplateKeys -> Template]
  /\ event \in [EventTypes -> EventState]
  /\ mapping \subseteq Variables
  /\ imported \in BOOLEAN
  /\ author \in [Authors -> [pc : SavePc, input : Input, next : Template]]

Uses(t) == VariablesOf[t.subject] \cup VariablesOf[t.body]

(* validate                                                                *)
Valid(t) ==
  /\ t.subject # Omitted /\ t.body # Omitted
  /\ t.event \in Marketing => UnsubscribeUrl \in t.required
  /\ Uses(t) = t.required

(* renderEmailTemplate, for previews and test messages, of a payload that  *)
(* has a value for the variables filled                                    *)
Renders(t, filled) == t.required \subseteq filled /\ Uses(t) \subseteq t.required

Approved == mapping \cup NativeVariables

ASSUME EmailConstants ==
  /\ Marketing \subseteq EventTypes /\ EventTypes # {} /\ Customer \in Audiences
  /\ VariablesOf \in [Texts -> SUBSET Variables] /\ Omitted \notin Texts
  /\ NativeVariables \subseteq Variables
  /\ Omitted \notin EventTypes \cup Audiences
  /\ Requests \subseteq Input /\ Requests # {}

(* validatePayloads of workspace-state: templates name an event of the     *)
(* same workspace, and only native variables.  Their texts are as some     *)
(* save left them.                                                         *)
ValidWorkspace(w) ==
  /\ w.template \in [TemplateKeys -> Template]
  /\ w.event \in [EventTypes -> EventState]
  /\ w.mapping \subseteq NativeVariables
  /\ \A k \in TemplateKeys :
       w.template[k].stored =>
         /\ w.event[w.template[k].event] # "none"
         /\ w.template[k].required \subseteq NativeVariables
         /\ Valid(w.template[k]) /\ ~w.template[k].torn

ASSUME WorkspacesAreValid ==
  Seed \in Workspaces /\ \A w \in Workspaces : ValidWorkspace(w)

NoSave == [pc |-> "idle", next |-> NoTemplate,
           input |-> CHOOSE i \in Requests : TRUE]

EmailInit ==
  /\ template = Seed.template /\ event = Seed.event /\ mapping = Seed.mapping
  /\ imported = FALSE
  /\ author = [a \in Authors |-> NoSave]

-----------------------------------------------------------------------------
At(a, pc) == author[a].pc = pc
Moves(a, pc) == author' = [author EXCEPT ![a].pc = pc]
Ends(a) == author' = [author EXCEPT ![a] = NoSave]
EndsUnless(a, ok, pc) == IF ok THEN Moves(a, pc) ELSE Ends(a)

Starts(a, input) ==
  /\ At(a, "idle")
  /\ author' = [author EXCEPT ![a] =
       [pc |-> "mappings", input |-> input, next |-> NoTemplate]]
  /\ UNCHANGED <<template, event, mapping, imported>>

(* The POST of one of the two routes, which always has a template          *)
StartSave(a, input) == input.template /\ Starts(a, input)

(* A tool call of an agent, after its token is checked: one mapping, one   *)
(* event or one template                                                   *)
StartToolCall(a, input) ==
  /\ \/ /\ input.saveEvent = Omitted /\ ~input.template
        /\ \E v \in Variables : input.mappings = {v}
     \/ input.mappings = {} /\ (input.template <=> input.saveEvent = Omitted)
  /\ Starts(a, input)

(* saveEmailVariableMapping, one after the other                           *)
SaveMapping(a) ==
  /\ At(a, "mappings")
  /\ \E v \in author[a].input.mappings :
       /\ mapping' = mapping \cup {v}
       /\ author' = [author EXCEPT ![a].input.mappings = @ \ {v}]
  /\ UNCHANGED <<template, event, imported>>

MappingsSaved(a) ==
  /\ At(a, "mappings") /\ author[a].input.mappings = {}
  /\ Moves(a, "event")
  /\ UNCHANGED <<template, event, mapping, imported>>

(* saveEmailEvent, when there is one                                       *)
SaveEvent(a) ==
  LET e == author[a].input.saveEvent
  IN /\ At(a, "event")
     /\ event' = IF e = Omitted THEN event ELSE [event EXCEPT ![e] = "enabled"]
     /\ EndsUnless(a, author[a].input.template, "read")
     /\ UNCHANGED <<template, mapping, imported>>

Given(field, other) == IF field # Omitted THEN field ELSE other

(* saveManagedEmailTemplate: a row that is not enabled counts as none.     *)
Merged(input) ==
  LET row == template[input.key]
      current == IF row.stored /\ row.enabled THEN row ELSE NoTemplate
  IN [stored |-> TRUE, enabled |-> TRUE, torn |-> FALSE,
      event |-> IF current.stored THEN current.event
                ELSE Given(input.event, NoTemplate.event),
      audience |-> Given(input.audience, current.audience),
      subject |-> Given(input.subject, current.subject),
      body |-> Given(input.body, current.body),
      required |-> IF input.requires THEN input.required ELSE current.required]

ReadAndMerge(a) ==
  /\ At(a, "read")
  /\ LET next == Merged(author[a].input)
     IN IF Valid(next)
        THEN author' = [author EXCEPT ![a].next = next, ![a].pc = "approve"]
        ELSE Ends(a)
  /\ UNCHANGED <<template, event, mapping, imported>>

CheckApproved(a) ==
  /\ At(a, "approve")
  /\ EndsUnless(a, author[a].next.required \subseteq mapping, "check event")
  /\ UNCHANGED <<template, event, mapping, imported>>

CheckEvent(a) ==
  /\ At(a, "check event")
  /\ EndsUnless(a, event[author[a].next.event] # "none", "upsert")
  /\ UNCHANGED <<template, event, mapping, imported>>

(* Mutant: only the columns the input gives are set.                       *)
GivenColumns(a) == Merged(author[a].input)
AllColumns(a) == author[a].next

(* INSERT ... ON CONFLICT(key) DO UPDATE, of what was merged and checked.  *)
(* The other UNIQUE index, of event, audience and locale, is an error of   *)
(* the statement.                                                          *)
UpsertTemplate(a) ==
  LET row == AllColumns(a)
      key == author[a].input.key
  IN /\ At(a, "upsert")
     /\ \A k \in TemplateKeys \ {key} :
          template[k].stored =>
            template[k].event # row.event \/ template[k].audience # row.audience
     /\ template' = [template EXCEPT ![key] = row]
     /\ Moves(a, "enable")
     /\ UNCHANGED <<event, mapping, imported>>

(* UPDATE of the event, if it is still there, and the answer               *)
EnableEvent(a) ==
  LET e == author[a].next.event
  IN /\ At(a, "enable")
     /\ event' = IF event[e] = "none" THEN event ELSE [event EXCEPT ![e] = "enabled"]
     /\ Ends(a)
     /\ UNCHANGED <<template, mapping, imported>>

(* A refused field or index, a failed statement, the worker's end: what    *)
(* was saved before stays.                                                 *)
SaveFails(a) ==
  /\ ~At(a, "idle")
  /\ Ends(a)
  /\ UNCHANGED <<template, event, mapping, imported>>

(* importWorkspaceAuthoredState: one transaction, once in a database; its  *)
(* guards see that no row has changed since the import read it.            *)
ImportWorkspace(w) ==
  /\ ~imported
  /\ imported' = TRUE
  /\ template' = w.template /\ event' = w.event /\ mapping' = w.mapping
  /\ author' = [a \in Authors |-> [author[a] EXCEPT !.next.torn = author[a].pc # "idle"]]

EmailNext ==
  \/ \E a \in Authors :
       \/ \E i \in Requests : StartSave(a, i) \/ StartToolCall(a, i)
       \/ SaveMapping(a) \/ MappingsSaved(a) \/ SaveEvent(a) \/ ReadAndMerge(a)
       \/ CheckApproved(a) \/ CheckEvent(a) \/ UpsertTemplate(a) \/ EnableEvent(a)
       \/ SaveFails(a)
  \/ \E w \in Workspaces : ImportWorkspace(w)

EmailSpec == EmailInit /\ [][EmailNext]_emailVars

-----------------------------------------------------------------------------
(* Properties                                                              *)

(* Saves that overlap and merge what they read may undo each other's       *)
(* fields, but never leave a template that is not whole: it renders once   *)
(* its required variables have values and asks for no other, these are     *)
(* approved, a marketing one can be unsubscribed from, and its event       *)
(* exists.  The one exception is a save that an import overtook between    *)
(* its read and its write.                                                 *)
TemplatesAreWhole ==
  \A k \in TemplateKeys :
    template[k].stored /\ ~template[k].torn =>
      /\ Valid(template[k]) /\ Renders(template[k], template[k].required)
      /\ template[k].required \subseteq Approved
      /\ event[template[k].event] # "none"
=============================================================================
