------------------------------ MODULE Settings ------------------------------
(***************************************************************************)
(* The household's settings: their row on the server (settings.go,         *)
(* store/weeks.go), the dialog that edits them with one debounced PATCH    *)
(* for edits made in quick succession (SettingsModal.tsx), and the         *)
(* language of the interface (i18n/index.ts, App.tsx).                     *)
(*                                                                         *)
(* A field is what the properties tell apart: the language, and one that   *)
(* nothing else depends on.  Every field has the same small set of values. *)
(***************************************************************************)
EXTENDS Naturals

CONSTANTS
    Fields,     \* the columns of household_settings
    Values,
    MaxCalls,   \* so many requests at a time
    MaxEdits    \* so many fields are edited, here and elsewhere

ASSUME SettingsAssumption ==
    /\ "language" \in Fields /\ Values # {} /\ "none" \notin Values
    /\ MaxCalls \in Nat /\ MaxEdits \in Nat

VARIABLES
    household,      \* the row of household_settings
    settings,       \* what the dialog shows, Blank when it is null
    pendingPatch,   \* the edits that wait for the debounce
    saveTimer,      \* whether its timer runs
    opened,         \* whether the dialog is open
    mounted,        \* whether Main is: the print view replaces it
    lang,           \* currentLang
    calls,          \* the requests of this page
    promised,       \* by field, the edit that the user can count on
    edits

settingsVars ==
    <<household, settings, pendingPatch, saveTimer, opened, mounted, lang, calls, promised, edits>>

\* A partial row: None where a field is not given.
None == "none"
Blank == [f \in Fields |-> None]
Given(r) == {f \in Fields : r[f] # None}
Merge(old, new) == [f \in Fields |-> IF new[f] # None THEN new[f] ELSE old[f]]

\* A request is sent, its UPDATE is written, and its row is read.
NoCall == [kind |-> "none", st |-> "none", body |-> Blank, row |-> Blank, orphan |-> FALSE]
Call(kind, body) == [NoCall EXCEPT !.kind = kind, !.st = "sent", !.body = body]
CallIds == 1..MaxCalls
NextCall(k) == calls[k] = NoCall /\ \A i \in 1..(k - 1) : calls[i] # NoCall
Carries(f) == \E k \in CallIds : f \in Given(calls[k].body)

SettingsInit ==
    /\ household \in [Fields -> Values]
    /\ settings = Blank /\ pendingPatch = Blank /\ saveTimer = FALSE
    /\ opened = FALSE /\ mounted = TRUE
    /\ lang \in Values
    /\ calls = [k \in CallIds |-> IF k = 1 THEN Call("lang", Blank) ELSE NoCall]
    /\ promised = Blank /\ edits = 0

(***************************************************************************)
(* The dialog.                                                             *)
(***************************************************************************)
\* Opening it loads the settings; those of the last time are shown meanwhile.
OpenSettings ==
    /\ mounted /\ ~opened /\ opened' = TRUE
    /\ \E k \in CallIds : NextCall(k) /\ calls' = [calls EXCEPT ![k] = Call("get", Blank)]
    /\ UNCHANGED <<household, settings, pendingPatch, saveTimer, mounted, lang, promised, edits>>

\* Requests are not ordered: nothing is promised of an edit that is made while
\* a PATCH of the same field is under way, nor of a language that is picked
\* while the page still asks for the stored one.
Promise(f, v) ==
    promised' = [promised EXCEPT ![f] =
        IF Carries(f) \/ (f = "language" /\ \E k \in CallIds : calls[k].kind = "lang")
        THEN None ELSE v]

\* Faulty variant: an edit takes the place of those that wait.
EditAlone(f, v) ==
    /\ opened /\ settings # Blank /\ v # settings[f] /\ edits < MaxEdits
    /\ settings' = [settings EXCEPT ![f] = v]
    /\ lang' = IF f = "language" THEN v ELSE lang
    /\ pendingPatch' = [Blank EXCEPT ![f] = v]
    /\ saveTimer' = TRUE /\ edits' = edits + 1 /\ Promise(f, v)
    /\ UNCHANGED <<household, opened, mounted, calls>>

\* Faulty variant: the language follows the server's answer only.
EditQuietly(f, v) ==
    /\ opened /\ settings # Blank /\ v # settings[f] /\ edits < MaxEdits
    /\ settings' = [settings EXCEPT ![f] = v]
    /\ pendingPatch' = [pendingPatch EXCEPT ![f] = v]
    /\ saveTimer' = TRUE /\ edits' = edits + 1 /\ Promise(f, v)
    /\ UNCHANGED <<household, opened, mounted, lang, calls>>

\* update.
Edit(f, v) ==
    /\ opened /\ settings # Blank /\ v # settings[f] /\ edits < MaxEdits
    /\ settings' = [settings EXCEPT ![f] = v]
    /\ lang' = IF f = "language" THEN v ELSE lang
    /\ pendingPatch' = [pendingPatch EXCEPT ![f] = v]
    /\ saveTimer' = TRUE /\ edits' = edits + 1 /\ Promise(f, v)
    /\ UNCHANGED <<household, opened, mounted, calls>>

\* flush: what waits is sent, and no longer waits.
Flush ==
    /\ pendingPatch' = Blank /\ saveTimer' = FALSE
    /\ IF pendingPatch = Blank THEN UNCHANGED calls
       ELSE \E k \in CallIds :
              NextCall(k) /\ calls' = [calls EXCEPT ![k] = Call("patch", pendingPatch)]

SaveDue ==
    /\ saveTimer /\ Flush
    /\ UNCHANGED <<household, settings, opened, mounted, lang, promised, edits>>

CloseSettings ==
    /\ opened /\ opened' = FALSE /\ Flush
    /\ UNCHANGED <<household, settings, mounted, lang, promised, edits>>

\* The print view, with the browser's Back from the dialog: the timer is
\* cleared, and edits that wait for it are gone.
LeaveMain ==
    /\ mounted /\ mounted' = FALSE /\ opened' = FALSE
    /\ settings' = Blank /\ pendingPatch' = Blank /\ saveTimer' = FALSE
    /\ calls' = [k \in CallIds |-> IF calls[k] = NoCall THEN NoCall
                                   ELSE [calls[k] EXCEPT !.orphan = TRUE]]
    /\ promised' = [f \in Fields |-> IF pendingPatch[f] # None THEN None ELSE promised[f]]
    /\ UNCHANGED <<household, lang, edits>>

\* Main loads the language when it mounts; a PATCH of it may be under way.
ReturnMain ==
    /\ ~mounted /\ mounted' = TRUE
    /\ \E k \in CallIds : NextCall(k) /\ calls' = [calls EXCEPT ![k] = Call("lang", Blank)]
    /\ promised' = IF Carries("language") THEN [promised EXCEPT !["language"] = None] ELSE promised
    /\ UNCHANGED <<household, settings, pendingPatch, saveTimer, opened, lang, edits>>

(***************************************************************************)
(* The server.                                                             *)
(***************************************************************************)
\* UpdateHouseholdSettings: the columns that are given.
WriteSettings(k) ==
    /\ calls[k].kind = "patch" /\ calls[k].st = "sent"
    /\ household' = Merge(household, calls[k].body)
    /\ calls' = [calls EXCEPT ![k].st = "written"]
    /\ UNCHANGED <<settings, pendingPatch, saveTimer, opened, mounted, lang, promised, edits>>

\* GetHouseholdSettings, for a GET and, after it has written, for a PATCH.
ReadSettings(k) ==
    /\ calls[k].st = IF calls[k].kind = "patch" THEN "written" ELSE "sent"
    /\ calls[k] # NoCall
    /\ calls' = [calls EXCEPT ![k].st = "done", ![k].row = household]
    /\ UNCHANGED <<household, settings, pendingPatch, saveTimer, opened, mounted, lang, promised,
                   edits>>

\* update_household_settings of a chat, or another tab.
SetElsewhere(f, v) ==
    /\ edits < MaxEdits /\ edits' = edits + 1
    /\ household' = [household EXCEPT ![f] = v]
    /\ promised' = [promised EXCEPT ![f] = None]
    /\ UNCHANGED <<settings, pendingPatch, saveTimer, opened, mounted, lang, calls>>

(***************************************************************************)
(* Answers.                                                                *)
(***************************************************************************)
\* A component that is gone sets no state; the language is nobody's state.
SettingsAnswered(k) ==
    /\ calls[k].st = "done"
    /\ settings' = IF calls[k].kind = "lang" \/ calls[k].orphan THEN settings ELSE calls[k].row
    /\ lang' = IF calls[k].kind = "lang" \/ "language" \in Given(calls[k].body)
               THEN calls[k].row["language"] ELSE lang
    /\ calls' = [calls EXCEPT ![k] = NoCall]
    /\ UNCHANGED <<household, pendingPatch, saveTimer, opened, mounted, promised, edits>>

\* A notice.  What the PATCH carried is not kept for another one, and still
\* shown; it may have been written.
SettingsFailed(k) ==
    /\ calls[k] # NoCall /\ calls' = [calls EXCEPT ![k] = NoCall]
    /\ promised' = [f \in Fields |-> IF f \in Given(calls[k].body) THEN None ELSE promised[f]]
    /\ UNCHANGED <<household, settings, pendingPatch, saveTimer, opened, mounted, lang, edits>>

SettingsNext ==
    \/ OpenSettings \/ SaveDue \/ CloseSettings \/ LeaveMain \/ ReturnMain
    \/ \E f \in Fields, v \in Values : Edit(f, v) \/ SetElsewhere(f, v)
    \/ \E k \in CallIds : WriteSettings(k) \/ ReadSettings(k) \/ SettingsAnswered(k) \/ SettingsFailed(k)

SettingsSpec == SettingsInit /\ [][SettingsNext]_settingsVars

(***************************************************************************)
(* Properties.                                                             *)
(***************************************************************************)
Patch == [Fields -> Values \cup {None}]

\* Every variable has its type; a debounce runs exactly while edits wait.
SettingsTypeOK ==
    /\ household \in [Fields -> Values]
    /\ settings \in Patch /\ pendingPatch \in Patch /\ promised \in Patch
    /\ saveTimer = (pendingPatch # Blank)
    /\ opened \in BOOLEAN /\ mounted \in BOOLEAN /\ (opened => mounted)
    /\ lang \in Values /\ edits \in 0..MaxEdits
    /\ calls \in [CallIds -> [kind : {"none", "get", "lang", "patch"},
                              st : {"none", "sent", "written", "done"},
                              body : Patch, row : Patch, orphan : BOOLEAN]]

\* An edit is not lost: until it is stored it waits with the debounce running
\* or is on its way, whether other fields are edited before the PATCH, the
\* dialog is closed at once or opened again, or answers come late (flush,
\* scheduleSave: "so the user doesn't lose edits made right before dismissing").
EditsArrive ==
    \A f \in Given(promised) :
        \/ household[f] = promised[f]
        \/ pendingPatch[f] = promised[f] /\ saveTimer
        \/ \E k \in CallIds : calls[k].st = "sent" /\ calls[k].body[f] = promised[f]

\* The interface speaks the language that the user picked, at once and after
\* the answers to it and to everything else (setLang).
LangFollows == promised["language"] # None => lang = promised["language"]
=============================================================================
