---------------------------- MODULE DialogProofs ----------------------------
(***************************************************************************)
(* Proofs about the settings dialog.  Settings: its types, that an edit a  *)
(* user can count on is stored, waiting or on its way, and that the        *)
(* interface speaks the language that was picked, for any fields, values   *)
(* and requests.  Integrations: its types, with them that no key a user    *)
(* typed is ever listed, that the mask of the process that runs never      *)
(* becomes a key, and that the cards of one user who waits for each save   *)
(* show what is stored, for any kinds, keys, requests and restarts.  And   *)
(* that the interface, with the page beside the dialog, is its parts.      *)
(***************************************************************************)
EXTENDS MCWeb, PageProofs, TLAPS

(***************************************************************************)
(* Settings.                                                               *)
(***************************************************************************)
\* Only a PATCH has a body, an answer brings a whole row, and nothing waits
\* without the page it waits on.
Bodies ==
    /\ \A k \in CallIds : calls[k].st = "done" => calls[k].row \in [Fields -> Values]
    /\ \A k \in CallIds, f \in Fields :
         calls[k].body[f] # None => calls[k].kind = "patch"
    /\ ~mounted => pendingPatch = Blank

\* Whatever carries a field carries what was promised of it, and from the
\* time a PATCH has written it the row says so.
Kept(f) ==
    promised[f] # None =>
      /\ pendingPatch[f] \in {None, promised[f]}
      /\ \A k \in CallIds :
           /\ calls[k].body[f] \in {None, promised[f]}
           /\ calls[k].body[f] # None /\ calls[k].st # "sent" => household[f] = promised[f]
      /\ \/ household[f] = promised[f]
         \/ pendingPatch[f] = promised[f]
         \/ \E k \in CallIds : calls[k].st = "sent" /\ calls[k].body[f] = promised[f]

\* Whatever answer would set the language brings the one that was picked.
Spoken ==
    promised["language"] # None =>
      /\ lang = promised["language"]
      /\ \A k \in CallIds :
           /\ calls[k].kind = "lang" => household["language"] = promised["language"]
           /\ /\ calls[k].st = "done"
              /\ calls[k].kind = "lang" \/ calls[k].body["language"] # None
              => calls[k].row["language"] = promised["language"]

\* The inductive invariant.
SetInv == SettingsTypeOK /\ Bodies /\ (\A f \in Fields : Kept(f)) /\ Spoken

USE SettingsAssumption
USE DEF None, CallIds

LEMMA BlankIsEmpty == Blank \in Patch /\ \A f \in Fields : Blank[f] = None
BY DEF Blank, Patch

\* The invariant holds of a page that has just been opened.
LEMMA InitSetInv == SettingsInit => SetInv
<1> SUFFICES ASSUME SettingsInit PROVE SetInv
  OBVIOUS
<1>1. NoCall.body = Blank /\ Call("lang", Blank).body = Blank
  BY DEF NoCall, Call
<1>2. \A k \in CallIds : calls[k].body = Blank
  BY <1>1 DEF SettingsInit
<1>3. \A k \in CallIds : calls[k] \in [kind : {"none", "get", "lang", "patch"},
                              st : {"none", "sent", "written", "done"},
                              body : Patch, row : Patch, orphan : BOOLEAN]
  BY BlankIsEmpty DEF SettingsInit, NoCall, Call
<1>4. calls \in [CallIds -> [kind : {"none", "get", "lang", "patch"},
                              st : {"none", "sent", "written", "done"},
                              body : Patch, row : Patch, orphan : BOOLEAN]]
  BY <1>3 DEF SettingsInit
<1>5. SettingsTypeOK
  <2>1. /\ household \in [Fields -> Values] /\ lang \in Values
        /\ settings \in Patch /\ pendingPatch \in Patch /\ promised \in Patch
        /\ edits \in 0..MaxEdits
    BY BlankIsEmpty DEF SettingsInit
  <2>2. saveTimer = (pendingPatch # Blank)
    BY DEF SettingsInit
  <2>3. opened \in BOOLEAN /\ mounted \in BOOLEAN /\ (opened => mounted)
    BY DEF SettingsInit
  <2> QED  BY <1>4, <2>1, <2>2, <2>3 DEF SettingsTypeOK
<1>6. \A f \in Fields : promised[f] = None
  BY BlankIsEmpty DEF SettingsInit
<1>7. Bodies
  <2>1. \A k \in CallIds : calls[k].st # "done"
    BY DEF SettingsInit, NoCall, Call
  <2> QED  BY <1>2, <2>1, BlankIsEmpty DEF SettingsInit, Bodies
<1>8. (\A f \in Fields : Kept(f)) /\ Spoken
  BY <1>6 DEF Kept, Spoken
<1> QED  BY <1>5, <1>7, <1>8 DEF SetInv

Requests == [kind : {"none", "get", "lang", "patch"},
             st : {"none", "sent", "written", "done"},
             body : Patch, row : Patch, orphan : BOOLEAN]

\* A new request takes a free place.
LEMMA SendOne ==
    ASSUME SettingsTypeOK, NEW k \in CallIds, NextCall(k),
           NEW kind \in {"get", "lang", "patch"}, NEW b \in Patch,
           calls' = [calls EXCEPT ![k] = Call(kind, b)]
    PROVE  /\ calls' \in [CallIds -> Requests]
           /\ calls'[k].kind = kind /\ calls'[k].st = "sent" /\ calls'[k].body = b
           /\ \A i \in CallIds \ {k} : calls'[i] = calls[i]
           /\ calls[k].body = Blank /\ calls[k].st = "none" /\ calls[k].kind = "none"
<1>1. Call(kind, b) \in Requests /\ Call(kind, b).kind = kind
      /\ Call(kind, b).st = "sent" /\ Call(kind, b).body = b
  BY BlankIsEmpty DEF Call, NoCall, Requests
<1>2. calls \in [CallIds -> Requests]
  BY DEF SettingsTypeOK, Requests
<1>3. calls[k] = NoCall
  BY DEF NextCall
<1> QED  BY <1>1, <1>2, <1>3 DEF NoCall

\* What the dialog asks for changes nothing yet.
LEMMA OpenSettingsSetInv ==
    ASSUME SetInv, OpenSettings
    PROVE  SetInv'
<1> PICK k \in CallIds : NextCall(k) /\ calls' = [calls EXCEPT ![k] = Call("get", Blank)]
  BY DEF OpenSettings
<1>1. /\ calls' \in [CallIds -> Requests]
      /\ calls'[k].kind = "get" /\ calls'[k].st = "sent" /\ calls'[k].body = Blank
      /\ \A i \in CallIds \ {k} : calls'[i] = calls[i]
      /\ calls[k].body = Blank /\ calls[k].st = "none" /\ calls[k].kind = "none"
  BY SendOne, BlankIsEmpty DEF SetInv
<1>2. SettingsTypeOK'
  BY <1>1 DEF OpenSettings, SetInv, SettingsTypeOK, Requests
<1>3. Bodies'
  BY <1>1, BlankIsEmpty DEF OpenSettings, SetInv, Bodies
<1>4. ASSUME NEW f \in Fields PROVE Kept(f)'
  BY <1>1, BlankIsEmpty DEF OpenSettings, SetInv, Kept
<1>5. Spoken'
  BY <1>1, BlankIsEmpty DEF OpenSettings, SetInv, Spoken
<1> QED  BY <1>2, <1>3, <1>4, <1>5 DEF SetInv

\* What waits goes into a request, whole.
LEMMA FlushSetInv ==
    ASSUME SetInv, Flush, mounted,
           UNCHANGED <<household, settings, mounted, lang, promised, edits>>,
           opened' \in BOOLEAN
    PROVE  SetInv'
<1>1. CASE pendingPatch = Blank
  <2>1. UNCHANGED calls /\ pendingPatch' = Blank /\ saveTimer' = FALSE
    BY <1>1 DEF Flush
  <2>2. SettingsTypeOK'
    BY <1>1, <2>1, BlankIsEmpty DEF SetInv, SettingsTypeOK
  <2> QED  BY <1>1, <2>1, <2>2 DEF SetInv, Bodies, Kept, Spoken
<1>2. CASE pendingPatch # Blank
  <2> PICK k \in CallIds :
        NextCall(k) /\ calls' = [calls EXCEPT ![k] = Call("patch", pendingPatch)]
    BY <1>2 DEF Flush
  <2>1. /\ calls' \in [CallIds -> Requests]
        /\ calls'[k].kind = "patch" /\ calls'[k].st = "sent"
        /\ calls'[k].body = pendingPatch
        /\ \A i \in CallIds \ {k} : calls'[i] = calls[i]
        /\ calls[k].body = Blank /\ calls[k].st = "none" /\ calls[k].kind = "none"
    BY SendOne DEF SetInv, SettingsTypeOK
  <2>2. pendingPatch' = Blank /\ saveTimer' = FALSE
    BY DEF Flush
  <2>3. SettingsTypeOK'
    BY <2>1, <2>2, BlankIsEmpty DEF SetInv, SettingsTypeOK, Requests
  <2>4. Bodies'
    BY <2>1, <2>2, BlankIsEmpty DEF SetInv, Bodies
  <2>5. ASSUME NEW f \in Fields PROVE Kept(f)'
    <3> SUFFICES ASSUME promised[f] # None PROVE Kept(f)'
      BY DEF Kept
    <3>1. pendingPatch'[f] = None
      BY <2>2, BlankIsEmpty
    <3>2. pendingPatch[f] \in {None, promised[f]}
      BY DEF SetInv, Kept
    <3>3. ASSUME NEW i \in CallIds
          PROVE  /\ calls'[i].body[f] \in {None, promised[f]}
                 /\ calls'[i].body[f] # None /\ calls'[i].st # "sent"
                      => household[f] = promised[f]
      BY <2>1, <3>2 DEF SetInv, Kept
    <3>4. \/ household[f] = promised[f]
          \/ \E i \in CallIds : calls'[i].st = "sent" /\ calls'[i].body[f] = promised[f]
      <4>1. CASE pendingPatch[f] = promised[f]
        BY <4>1, <2>1
      <4>2. CASE \E i \in CallIds : calls[i].st = "sent" /\ calls[i].body[f] = promised[f]
        BY <4>2, <2>1
      <4> QED  BY <4>1, <4>2 DEF SetInv, Kept
    <3> QED  BY <3>1, <3>3, <3>4 DEF Kept
  <2>6. Spoken'
    BY <2>1 DEF SetInv, Spoken
  <2> QED  BY <2>3, <2>4, <2>5, <2>6 DEF SetInv
<1> QED  BY <1>1, <1>2

\* An edit waits; nothing is promised of it while others are under way.
LEMMA EditSetInv ==
    ASSUME SetInv, NEW g \in Fields, NEW v \in Values, Edit(g, v)
    PROVE  SetInv'
<1> DEFINE Under == \/ Carries(g)
                    \/ g = "language" /\ \E k \in CallIds : calls[k].kind = "lang"
<1>1. /\ settings' = [settings EXCEPT ![g] = v]
      /\ lang' = IF g = "language" THEN v ELSE lang
      /\ pendingPatch' = [pendingPatch EXCEPT ![g] = v]
      /\ saveTimer' = TRUE /\ edits' = edits + 1 /\ edits < MaxEdits
      /\ promised' = [promised EXCEPT ![g] = IF Under THEN None ELSE v]
      /\ UNCHANGED <<household, opened, mounted, calls>> /\ opened
  BY DEF Edit, Promise
<1>2. /\ settings \in Patch /\ pendingPatch \in Patch /\ promised \in Patch
      /\ edits \in 0..MaxEdits
  BY DEF SetInv, SettingsTypeOK
<1>3. settings' \in Patch /\ pendingPatch' \in Patch /\ promised' \in Patch
  BY <1>1, <1>2 DEF Patch
<1>4. pendingPatch' # Blank
  <2>1. pendingPatch'[g] = v
    BY <1>1, <1>2 DEF Patch
  <2> QED  BY <2>1, BlankIsEmpty
<1>5. SettingsTypeOK'
  <2>1. /\ household' \in [Fields -> Values] /\ lang' \in Values
        /\ edits' \in 0..MaxEdits
    BY <1>1, <1>2 DEF SetInv, SettingsTypeOK
  <2>2. saveTimer' = (pendingPatch' # Blank')
    BY <1>1, <1>4 DEF Blank
  <2>3. opened' \in BOOLEAN /\ mounted' \in BOOLEAN /\ (opened' => mounted')
    BY <1>1 DEF SetInv, SettingsTypeOK
  <2>4. calls' \in [CallIds -> Requests]
    BY <1>1 DEF SetInv, SettingsTypeOK, Requests
  <2> QED  BY <1>3, <2>1, <2>2, <2>3, <2>4 DEF SettingsTypeOK, Requests, Patch
<1>6. Bodies'
  BY <1>1 DEF SetInv, SettingsTypeOK, Bodies
<1>7. ASSUME NEW f \in Fields PROVE Kept(f)'
  <2>1. CASE f # g
    <3>1. promised'[f] = promised[f] /\ pendingPatch'[f] = pendingPatch[f]
      BY <1>1, <1>2, <2>1 DEF Patch
    <3> QED  BY <1>1, <3>1 DEF SetInv, Kept
  <2>2. CASE f = g /\ Under
    <3>1. promised'[f] = None
      BY <1>1, <1>2, <2>2 DEF Patch
    <3> QED  BY <3>1 DEF Kept
  <2>3. CASE f = g /\ ~Under
    <3>1. promised'[f] = v /\ pendingPatch'[f] = v
      BY <1>1, <1>2, <2>3 DEF Patch
    <3>2. \A k \in CallIds : calls[k].body[f] = None
      BY <2>3 DEF Carries, Given
    <3> QED  BY <1>1, <3>1, <3>2 DEF Kept
  <2> QED  BY <2>1, <2>2, <2>3
<1>8. Spoken'
  <2>1. CASE g # "language"
    <3>1. promised'["language"] = promised["language"] /\ lang' = lang
      BY <1>1, <1>2, <2>1 DEF Patch
    <3> QED  BY <1>1, <3>1 DEF SetInv, Spoken
  <2>2. CASE g = "language" /\ Under
    <3>1. promised'["language"] = None
      BY <1>1, <1>2, <2>2 DEF Patch
    <3> QED  BY <3>1 DEF Spoken
  <2>3. CASE g = "language" /\ ~Under
    <3>1. promised'["language"] = v /\ lang' = v
      BY <1>1, <1>2, <2>3 DEF Patch
    <3>2. \A k \in CallIds : calls[k].body["language"] = None /\ calls[k].kind # "lang"
      BY <2>3 DEF Carries, Given
    <3> QED  BY <1>1, <3>1, <3>2 DEF Spoken
  <2> QED  BY <2>1, <2>2, <2>3
<1> QED  BY <1>5, <1>6, <1>7, <1>8 DEF SetInv

\* Edits that still wait are no longer counted on.
LEMMA LeaveMainSetInv ==
    ASSUME SetInv, LeaveMain
    PROVE  SetInv'
<1>1. /\ pendingPatch' = Blank /\ settings' = Blank /\ saveTimer' = FALSE
      /\ opened' = FALSE /\ mounted' = FALSE
      /\ promised' = [f \in Fields |-> IF pendingPatch[f] # None THEN None ELSE promised[f]]
      /\ UNCHANGED <<household, lang, edits>>
  BY DEF LeaveMain
<1>2. /\ calls' \in [CallIds -> Requests]
      /\ \A k \in CallIds : /\ calls'[k].kind = calls[k].kind /\ calls'[k].st = calls[k].st
                            /\ calls'[k].body = calls[k].body /\ calls'[k].row = calls[k].row
  BY DEF LeaveMain, SetInv, SettingsTypeOK, Requests
<1>3. promised' \in Patch
  BY <1>1 DEF SetInv, SettingsTypeOK, Patch
<1>4. SettingsTypeOK'
  BY <1>1, <1>2, <1>3, BlankIsEmpty DEF SetInv, SettingsTypeOK, Requests
<1>5. Bodies'
  BY <1>1, <1>2 DEF SetInv, Bodies, Blank
<1>6. ASSUME NEW f \in Fields PROVE Kept(f)'
  <2>1. CASE promised'[f] = None
    BY <2>1 DEF Kept
  <2>2. CASE promised'[f] # None
    <3>1. pendingPatch[f] = None /\ promised'[f] = promised[f] /\ promised[f] # None
      BY <1>1, <2>2
    <3>2. pendingPatch'[f] = None
      BY <1>1, BlankIsEmpty
    <3> QED  BY <1>1, <1>2, <3>1, <3>2 DEF SetInv, Kept
  <2> QED  BY <2>1, <2>2
<1>7. Spoken'
  <2>1. promised'["language"] \in {None, promised["language"]}
    BY <1>1
  <2> QED  BY <1>1, <1>2, <2>1 DEF SetInv, Spoken
<1> QED  BY <1>4, <1>5, <1>6, <1>7 DEF SetInv

\* The language that Main asks for is the one that was picked.
LEMMA ReturnMainSetInv ==
    ASSUME SetInv, ReturnMain
    PROVE  SetInv'
<1> PICK k \in CallIds : NextCall(k) /\ calls' = [calls EXCEPT ![k] = Call("lang", Blank)]
  BY DEF ReturnMain
<1>1. /\ calls' \in [CallIds -> Requests]
      /\ calls'[k].kind = "lang" /\ calls'[k].st = "sent" /\ calls'[k].body = Blank
      /\ \A i \in CallIds \ {k} : calls'[i] = calls[i]
      /\ calls[k].body = Blank /\ calls[k].st = "none" /\ calls[k].kind = "none"
  BY SendOne, BlankIsEmpty DEF SetInv
<1>2. /\ mounted' = TRUE /\ ~mounted
      /\ UNCHANGED <<household, settings, pendingPatch, saveTimer, opened, lang, edits>>
      /\ promised' = IF Carries("language") THEN [promised EXCEPT !["language"] = None]
                     ELSE promised
  BY DEF ReturnMain
<1>3. promised' \in Patch /\ \A f \in Fields : promised'[f] \in {None, promised[f]}
  BY <1>2 DEF SetInv, SettingsTypeOK, Patch
<1>4. SettingsTypeOK'
  BY <1>1, <1>2, <1>3 DEF SetInv, SettingsTypeOK, Requests, Patch, Blank
<1>5. Bodies'
  BY <1>1, <1>2, BlankIsEmpty DEF SetInv, Bodies
<1>6. ASSUME NEW f \in Fields PROVE Kept(f)'
  BY <1>1, <1>2, <1>3, BlankIsEmpty DEF SetInv, Kept
<1>7. Spoken'
  <2>1. CASE promised'["language"] = None
    BY <2>1 DEF Spoken
  <2>2. CASE promised'["language"] # None
    <3>1. promised'["language"] = promised["language"] /\ ~Carries("language")
      BY <1>2, <2>2 DEF SetInv, SettingsTypeOK, Patch
    <3>2. pendingPatch["language"] = None
      BY <1>2, BlankIsEmpty DEF SetInv, Bodies
    <3>3. \A i \in CallIds : calls[i].body["language"] = None
      BY <3>1 DEF Carries, Given
    <3>4. household["language"] = promised["language"]
      BY <2>2, <3>1, <3>2, <3>3 DEF SetInv, Kept
    <3> QED  BY <1>1, <1>2, <3>1, <3>4, BlankIsEmpty DEF SetInv, Spoken
  <2> QED  BY <2>1, <2>2
<1> QED  BY <1>4, <1>5, <1>6, <1>7 DEF SetInv

\* From the write on the row has what the PATCH carried.
LEMMA WriteSettingsSetInv ==
    ASSUME SetInv, NEW k \in CallIds, WriteSettings(k)
    PROVE  SetInv'
<1>1. /\ calls[k].kind = "patch" /\ calls[k].st = "sent"
      /\ household' = Merge(household, calls[k].body)
      /\ calls' = [calls EXCEPT ![k].st = "written"]
      /\ UNCHANGED <<settings, pendingPatch, saveTimer, opened, mounted, lang, promised, edits>>
  BY DEF WriteSettings
<1>2. /\ calls' \in [CallIds -> Requests]
      /\ calls'[k].st = "written"
      /\ \A i \in CallIds : /\ calls'[i].kind = calls[i].kind
                            /\ calls'[i].body = calls[i].body /\ calls'[i].row = calls[i].row
                            /\ i # k => calls'[i].st = calls[i].st
  BY <1>1 DEF SetInv, SettingsTypeOK, Requests
<1>3. calls[k].body \in Patch
  BY DEF SetInv, SettingsTypeOK
<1>4. /\ household' \in [Fields -> Values]
      /\ \A f \in Fields : household'[f] = IF calls[k].body[f] # None THEN calls[k].body[f]
                                           ELSE household[f]
  BY <1>1, <1>3 DEF SetInv, SettingsTypeOK, Merge, Patch
<1>5. SettingsTypeOK'
  BY <1>1, <1>2, <1>4 DEF SetInv, SettingsTypeOK, Requests, Patch, Blank
<1>6. Bodies'
  BY <1>1, <1>2 DEF SetInv, Bodies, Blank
<1>7. ASSUME NEW f \in Fields PROVE Kept(f)'
  <2> SUFFICES ASSUME promised[f] # None PROVE Kept(f)'
    BY <1>1 DEF Kept
  <2>1. calls[k].body[f] \in {None, promised[f]}
    BY DEF SetInv, Kept
  <2>2. household[f] = promised[f] => household'[f] = promised[f]
    BY <1>4, <2>1
  <2>3. calls[k].body[f] # None => household'[f] = promised[f]
    BY <1>4, <2>1
  <2>4. ASSUME NEW i \in CallIds
        PROVE  /\ calls'[i].body[f] \in {None, promised[f]}
               /\ calls'[i].body[f] # None /\ calls'[i].st # "sent"
                    => household'[f] = promised[f]
    BY <1>2, <2>2, <2>3 DEF SetInv, Kept
  <2>5. \/ household'[f] = promised[f]
        \/ pendingPatch[f] = promised[f]
        \/ \E i \in CallIds : calls'[i].st = "sent" /\ calls'[i].body[f] = promised[f]
    BY <1>2, <2>2, <2>3 DEF SetInv, Kept
  <2> QED  BY <1>1, <2>4, <2>5 DEF SetInv, Kept
<1>8. Spoken'
  <2> SUFFICES ASSUME promised["language"] # None PROVE Spoken'
    BY <1>1 DEF Spoken
  <2>1. calls[k].body["language"] \in {None, promised["language"]}
    BY DEF SetInv, Kept
  <2>2. household["language"] = promised["language"]
          => household'["language"] = promised["language"]
    BY <1>4, <2>1
  <2> QED  BY <1>1, <1>2, <2>2 DEF SetInv, Spoken
<1> QED  BY <1>5, <1>6, <1>7, <1>8 DEF SetInv

\* What is read is the row.
LEMMA ReadSettingsSetInv ==
    ASSUME SetInv, NEW k \in CallIds, ReadSettings(k)
    PROVE  SetInv'
<1>1. /\ calls[k].st = IF calls[k].kind = "patch" THEN "written" ELSE "sent"
      /\ calls' = [calls EXCEPT ![k].st = "done", ![k].row = household]
      /\ UNCHANGED <<household, settings, pendingPatch, saveTimer, opened, mounted, lang,
                     promised, edits>>
  BY DEF ReadSettings
<1>2. household \in Patch
  BY DEF SetInv, SettingsTypeOK, Patch
<1>3. /\ calls' \in [CallIds -> Requests]
      /\ calls'[k].st = "done" /\ calls'[k].row = household
      /\ \A i \in CallIds : /\ calls'[i].kind = calls[i].kind /\ calls'[i].body = calls[i].body
                            /\ i # k => calls'[i] = calls[i]
  BY <1>1, <1>2 DEF SetInv, SettingsTypeOK, Requests
<1>4. SettingsTypeOK'
  BY <1>1, <1>3 DEF SetInv, SettingsTypeOK, Requests, Patch, Blank
<1>5. Bodies'
  BY <1>1, <1>3 DEF SetInv, SettingsTypeOK, Bodies, Blank
<1>6. ASSUME NEW f \in Fields PROVE calls[k].st = "sent" => calls[k].body[f] = None
  BY <1>1 DEF SetInv, Bodies
<1>7. ASSUME NEW f \in Fields PROVE Kept(f)'
  BY <1>1, <1>3, <1>6 DEF SetInv, Kept
<1>8. Spoken'
  <2> SUFFICES ASSUME promised["language"] # None PROVE Spoken'
    BY <1>1 DEF Spoken
  <2>1. calls[k].kind = "lang" \/ calls[k].body["language"] # None
          => household["language"] = promised["language"]
    BY <1>6 DEF SetInv, Spoken, Kept
  <2> QED  BY <1>1, <1>3, <2>1 DEF SetInv, Spoken
<1> QED  BY <1>4, <1>5, <1>7, <1>8 DEF SetInv

\* Nothing is promised of what a chat or another tab has set.
LEMMA SetElsewhereSetInv ==
    ASSUME SetInv, NEW g \in Fields, NEW v \in Values, SetElsewhere(g, v)
    PROVE  SetInv'
<1>1. /\ edits' = edits + 1 /\ edits < MaxEdits
      /\ household' = [household EXCEPT ![g] = v]
      /\ promised' = [promised EXCEPT ![g] = None]
      /\ UNCHANGED <<settings, pendingPatch, saveTimer, opened, mounted, lang, calls>>
  BY DEF SetElsewhere
<1>2. household' \in [Fields -> Values] /\ promised' \in Patch /\ edits' \in 0..MaxEdits
  BY <1>1 DEF SetInv, SettingsTypeOK, Patch
<1>3. SettingsTypeOK'
  BY <1>1, <1>2 DEF SetInv, SettingsTypeOK, Patch, Blank
<1>4. Bodies'
  BY <1>1 DEF SetInv, Bodies, Blank
<1>5. ASSUME NEW f \in Fields
      PROVE  promised'[f] # None => promised'[f] = promised[f] /\ household'[f] = household[f]
  BY <1>1 DEF SetInv, SettingsTypeOK, Patch
<1>6. ASSUME NEW f \in Fields PROVE Kept(f)'
  BY <1>1, <1>5 DEF SetInv, Kept
<1>7. Spoken'
  BY <1>1, <1>5 DEF SetInv, Spoken
<1> QED  BY <1>3, <1>4, <1>6, <1>7 DEF SetInv

\* A request that ends leaves its place.
LEMMA EndOne ==
    ASSUME SettingsTypeOK, NEW k \in CallIds, calls' = [calls EXCEPT ![k] = NoCall]
    PROVE  /\ calls' \in [CallIds -> Requests]
           /\ calls'[k].body = Blank /\ calls'[k].kind = "none" /\ calls'[k].st = "none"
           /\ \A i \in CallIds \ {k} : calls'[i] = calls[i]
<1>1. NoCall \in Requests /\ NoCall.body = Blank /\ NoCall.kind = "none" /\ NoCall.st = "none"
  BY BlankIsEmpty DEF NoCall, Requests
<1>2. calls \in [CallIds -> Requests]
  BY DEF SettingsTypeOK, Requests
<1> QED  BY <1>1, <1>2

\* An answer that sets the language brings the one that was picked.
LEMMA SettingsAnsweredSetInv ==
    ASSUME SetInv, NEW k \in CallIds, SettingsAnswered(k)
    PROVE  SetInv'
<1>1. /\ calls[k].st = "done"
      /\ settings' = IF calls[k].kind = "lang" \/ calls[k].orphan THEN settings ELSE calls[k].row
      /\ lang' = IF calls[k].kind = "lang" \/ calls[k].body["language"] # None
                 THEN calls[k].row["language"] ELSE lang
      /\ calls' = [calls EXCEPT ![k] = NoCall]
      /\ UNCHANGED <<household, pendingPatch, saveTimer, opened, mounted, promised, edits>>
  BY DEF SettingsAnswered, Given
<1>2. /\ calls' \in [CallIds -> Requests]
      /\ calls'[k].body = Blank /\ calls'[k].kind = "none" /\ calls'[k].st = "none"
      /\ \A i \in CallIds \ {k} : calls'[i] = calls[i]
  BY <1>1, EndOne DEF SetInv
<1>3. settings' \in Patch
  BY <1>1 DEF SetInv, SettingsTypeOK
<1>4. lang' \in Values
  BY <1>1 DEF SetInv, SettingsTypeOK, Bodies
<1>5. SettingsTypeOK'
  BY <1>1, <1>2, <1>3, <1>4 DEF SetInv, SettingsTypeOK, Requests, Patch, Blank
<1>6. Bodies'
  BY <1>1, <1>2, BlankIsEmpty DEF SetInv, Bodies, Blank
<1>7. ASSUME NEW f \in Fields PROVE Kept(f)'
  BY <1>1, <1>2, BlankIsEmpty DEF SetInv, Kept
<1>8. Spoken'
  BY <1>1, <1>2, BlankIsEmpty DEF SetInv, Spoken
<1> QED  BY <1>5, <1>6, <1>7, <1>8 DEF SetInv

\* What a failed PATCH carried is no longer counted on.
LEMMA SettingsFailedSetInv ==
    ASSUME SetInv, NEW k \in CallIds, SettingsFailed(k)
    PROVE  SetInv'
<1>1. /\ calls' = [calls EXCEPT ![k] = NoCall]
      /\ promised' = [f \in Fields |-> IF calls[k].body[f] # None THEN None ELSE promised[f]]
      /\ UNCHANGED <<household, settings, pendingPatch, saveTimer, opened, mounted, lang, edits>>
  BY DEF SettingsFailed, Given
<1>2. /\ calls' \in [CallIds -> Requests]
      /\ calls'[k].body = Blank /\ calls'[k].kind = "none" /\ calls'[k].st = "none"
      /\ \A i \in CallIds \ {k} : calls'[i] = calls[i]
  BY <1>1, EndOne DEF SetInv
<1>3. promised' \in Patch
  BY <1>1 DEF SetInv, SettingsTypeOK, Patch
<1>4. SettingsTypeOK'
  BY <1>1, <1>2, <1>3 DEF SetInv, SettingsTypeOK, Requests, Patch, Blank
<1>5. Bodies'
  BY <1>1, <1>2, BlankIsEmpty DEF SetInv, Bodies, Blank
<1>6. ASSUME NEW f \in Fields, promised'[f] # None
      PROVE  promised'[f] = promised[f] /\ calls[k].body[f] = None
  BY <1>1, <1>6
<1>7. ASSUME NEW f \in Fields PROVE Kept(f)'
  BY <1>1, <1>2, <1>6, BlankIsEmpty DEF SetInv, Kept
<1>8. Spoken'
  BY <1>1, <1>2, <1>6, BlankIsEmpty DEF SetInv, Spoken
<1> QED  BY <1>4, <1>5, <1>7, <1>8 DEF SetInv

\* A step of nothing.
LEMMA StutterSetInv ==
    ASSUME SetInv, UNCHANGED settingsVars
    PROVE  SetInv'
<1>1. SettingsTypeOK'
  BY DEF settingsVars, SetInv, SettingsTypeOK, Patch, Blank
<1> QED  BY <1>1 DEF settingsVars, SetInv, Bodies, Kept, Spoken, Blank

\* Whatever carries an edit the user can count on, carries what was promised
\* of it (SettingsModal.tsx flush): the invariant is inductive.
THEOREM SettingsInductive == SettingsSpec => []SetInv
<1>1. ASSUME SetInv, [SettingsNext]_settingsVars
      PROVE  SetInv'
  <2>1. ASSUME SaveDue PROVE SetInv'
    <3>1. opened' = opened /\ opened \in BOOLEAN
      BY <1>1, <2>1 DEF SaveDue, SetInv, SettingsTypeOK
    <3>2. mounted
      BY <1>1, <2>1 DEF SaveDue, SetInv, SettingsTypeOK, Bodies
    <3> QED  BY <1>1, <2>1, <3>1, <3>2, FlushSetInv DEF SaveDue
  <2>2. ASSUME CloseSettings PROVE SetInv'
    <3>1. opened' = FALSE /\ mounted
      BY <1>1, <2>2 DEF CloseSettings, SetInv, SettingsTypeOK
    <3> QED  BY <1>1, <2>2, <3>1, FlushSetInv DEF CloseSettings
  <2>3. ASSUME NEW f \in Fields, NEW v \in Values, Edit(f, v) \/ SetElsewhere(f, v)
        PROVE  SetInv'
    BY <1>1, <2>3, EditSetInv, SetElsewhereSetInv
  <2>4. ASSUME NEW k \in CallIds,
               WriteSettings(k) \/ ReadSettings(k) \/ SettingsAnswered(k) \/ SettingsFailed(k)
        PROVE  SetInv'
    BY <1>1, <2>4, WriteSettingsSetInv, ReadSettingsSetInv, SettingsAnsweredSetInv,
       SettingsFailedSetInv
  <2> QED
    BY <1>1, <2>1, <2>2, <2>3, <2>4, OpenSettingsSetInv, LeaveMainSetInv, ReturnMainSetInv,
       StutterSetInv DEF SettingsNext
<1> QED  BY <1>1, InitSetInv, PTL DEF SettingsSpec

\* Every variable of Settings has its type, and the debounce runs exactly
\* while edits wait for it (SettingsModal.tsx scheduleSave).
THEOREM SettingsTypes == SettingsSpec => []SettingsTypeOK
<1>1. SetInv => SettingsTypeOK
  BY DEF SetInv
<1> QED  BY <1>1, SettingsInductive, PTL

\* An edit that the user can count on is stored, waits or is on its way
\* (SettingsModal.tsx flush, scheduleSave), for any fields and requests.
THEOREM NoEditLost == SettingsSpec => []EditsArrive
<1>1. SetInv => EditsArrive
  <2> SUFFICES ASSUME SetInv, NEW f \in Given(promised)
               PROVE  \/ household[f] = promised[f]
                      \/ pendingPatch[f] = promised[f] /\ saveTimer
                      \/ \E k \in CallIds : calls[k].st = "sent" /\ calls[k].body[f] = promised[f]
    BY DEF EditsArrive
  <2>1. f \in Fields /\ promised[f] # None
    BY DEF Given
  <2>2. pendingPatch[f] = promised[f] => saveTimer
    BY <2>1, BlankIsEmpty DEF SetInv, SettingsTypeOK
  <2> QED  BY <2>1, <2>2 DEF SetInv, Kept
<1> QED  BY <1>1, SettingsInductive, PTL

\* The interface speaks the language that was picked, whatever answers are
\* still to come (i18n/index.ts setLang).
THEOREM LanguageKept == SettingsSpec => []LangFollows
<1>1. SetInv => LangFollows
  BY DEF SetInv, Spoken, LangFollows
<1> QED  BY <1>1, SettingsInductive, PTL

(***************************************************************************)
(* Integrations.                                                           *)
(***************************************************************************)
HIDE SettingsAssumption
HIDE DEF None, CallIds

\* A key that is stored, one that is on its way to be, and one that is listed.
KnownKey(c) == c.key < Sentinel
ShownKey(c) == c.key <= Sentinel
Hidden(c) == c.key \notin 1..MaxKey /\ ShownKey(c)

\* Keys that were typed and the masks of earlier processes may be stored; a
\* card may hold the mask as well; what is listed shows no key.
KeyPlaces ==
    /\ \A k \in Kinds : KnownKey(providers[k])
    /\ cards # Unlisted => \A k \in Kinds : ShownKey(cards[k])
    /\ listed # Unlisted => \A k \in Kinds : Hidden(listed[k])

\* The same of a request, which has rows when it has listed them and names a
\* kind when it saves.
Good(q) ==
    /\ ShownKey(q.body) /\ KnownKey(q.read)
    /\ q.rows # Unlisted => \A k \in Kinds : Hidden(q.rows[k])
    /\ q.what = "list" /\ q.st = "done" => q.rows # Unlisted
    /\ q.what = "patch" /\ q.st \in {"sent", "read"} => q.kind \in Kinds
    /\ q.st = "read" => q.what = "patch"

\* The inductive invariant.
KeyInv == IntegrationsTypeOK /\ KeyPlaces /\ \A r \in RequestIds : Good(requests[r])

USE IntegrationsAssumption
USE DEF RequestIds, Sentinel, Mask, AllKeys

Request == [what : {"none", "list", "patch"}, st : {"none", "sent", "read", "done", "lost"},
            kind : Kinds \cup {"none"}, body : Config, read : Config, rows : Rows]

\* A request that has not reached the store holds nothing.
LEMMA FreshRequests ==
    /\ Empty \in Config /\ Empty.key = 0
    /\ NoRequest \in Request /\ ListRequest \in Request
    /\ NoRequest.what = "none" /\ NoRequest.st = "none" /\ NoRequest.body = Empty
    /\ NoRequest.read = Empty /\ NoRequest.rows = Unlisted /\ NoRequest.kind = "none"
    /\ ListRequest.what = "list" /\ ListRequest.st = "sent" /\ ListRequest.body = Empty
    /\ ListRequest.read = Empty /\ ListRequest.rows = Unlisted
<1>1. Empty \in Config /\ Empty.key = 0
  BY DEF Empty, Config
<1>2. Unlisted \in Rows
  BY DEF Rows
<1> QED  BY <1>1, <1>2 DEF NoRequest, ListRequest, Request

LEMMA FreshIsGood == boot \in 0..MaxBoots => Good(NoRequest) /\ Good(ListRequest)
BY FreshRequests DEF Good, ShownKey, KnownKey

\* What is there before a step, in the words of the step's proofs.
LEMMA Places ==
    ASSUME KeyInv
    PROVE  /\ providers \in [Kinds -> Config] /\ boot \in 0..MaxBoots
           /\ listed \in Rows /\ cards \in Rows /\ (cards = Unlisted <=> listed = Unlisted)
           /\ saving \in [Kinds -> 0..MaxRequests]
           /\ saves \in 0..MaxSaves /\ steady \in BOOLEAN
           /\ requests \in [RequestIds -> Request]
           /\ \A k \in Kinds : KnownKey(providers[k])
           /\ cards # Unlisted => cards \in [Kinds -> Config] /\ \A k \in Kinds : ShownKey(cards[k])
           /\ listed # Unlisted => \A k \in Kinds : Hidden(listed[k])
           /\ \A r \in RequestIds : Good(requests[r])
BY DEF KeyInv, IntegrationsTypeOK, KeyPlaces, Rows, Request

\* The invariant holds when the dialog is opened first.
LEMMA InitKeyInv == IntegrationsInit => KeyInv
<1> SUFFICES ASSUME IntegrationsInit PROVE KeyInv
  OBVIOUS
<1>1. /\ providers \in [Kinds -> Config]
      /\ \A k \in Kinds : providers[k].key \in {0, 1} /\ KnownKey(providers[k])
  BY DEF IntegrationsInit, Config, KnownKey
<1>2. \A r \in RequestIds : requests[r] \in {NoRequest, ListRequest}
  BY DEF IntegrationsInit
<1>3. requests \in [RequestIds -> Request]
  BY <1>2, FreshRequests DEF IntegrationsInit
<1>4. \A r \in RequestIds : Good(requests[r])
  BY <1>2, FreshIsGood DEF IntegrationsInit
<1>5. IntegrationsTypeOK
  <2>1. boot \in 0..MaxBoots /\ saves \in 0..MaxSaves /\ steady \in BOOLEAN
    BY DEF IntegrationsInit
  <2>2. listed \in Rows /\ cards \in Rows /\ (cards = Unlisted <=> listed = Unlisted)
        /\ (listed # Unlisted => \A k \in Kinds : listed[k].key \notin 1..MaxKey)
    BY DEF IntegrationsInit, Rows
  <2>3. saving \in [Kinds -> 0..MaxRequests]
    BY DEF IntegrationsInit
  <2> QED  BY <1>1, <1>3, <2>1, <2>2, <2>3 DEF IntegrationsTypeOK, Request
<1> QED  BY <1>1, <1>4, <1>5 DEF KeyInv, KeyPlaces, IntegrationsInit

\* A step of one process that replaces one request by a good one.
LEMMA OneRequest ==
    ASSUME KeyInv, NEW r \in RequestIds, NEW q \in Request, Good(q),
           requests' = [requests EXCEPT ![r] = q],
           saving' \in [Kinds -> 0..MaxRequests], saves' \in 0..MaxSaves,
           UNCHANGED <<providers, boot, listed, cards, steady>>
    PROVE  KeyInv'
<1>1. /\ requests' \in [RequestIds -> Request] /\ requests'[r] = q
      /\ \A i \in RequestIds \ {r} : requests'[i] = requests[i]
  BY Places
<1>2. \A i \in RequestIds : Good(requests[i])'
  BY <1>1, Places DEF Good, ShownKey, KnownKey, Hidden
<1>3. KeyPlaces'
  BY DEF KeyInv, KeyPlaces, ShownKey, KnownKey, Hidden
<1>4. IntegrationsTypeOK'
  BY <1>1, Places DEF KeyInv, IntegrationsTypeOK, Request
<1> QED  BY <1>2, <1>3, <1>4 DEF KeyInv

\* Nothing a card is edited to is more than the mask it showed.
LEMMA EditCardKeyInv ==
    ASSUME KeyInv, NEW k \in Kinds, NEW c \in Config, EditCard(k, c)
    PROVE  KeyInv'
<1>1. /\ listed # Unlisted /\ cards # Unlisted /\ cards' = [cards EXCEPT ![k] = c]
      /\ UNCHANGED <<providers, boot, listed, saving, requests, saves, steady>>
  BY Places DEF EditCard
<1>2. ShownKey(c)
  <2>1. CASE c = [cards[k] EXCEPT !.key = c.key] /\ c.key <= MaxKey
    <3>1. c.key \in Nat /\ c.key <= MaxKey
      BY <2>1 DEF Config
    <3> QED  BY <3>1, Places DEF ShownKey
  <2>2. CASE c = [cards[k] EXCEPT !.field = c.field]
    <3>1. c.key = cards[k].key
      BY <1>1, <2>2, Places DEF Config
    <3> QED  BY <1>1, <3>1, Places DEF ShownKey
  <2> QED  BY <2>1, <2>2 DEF EditCard
<1>3. cards' \in [Kinds -> Config] /\ \A i \in Kinds : ShownKey(cards'[i])
  BY <1>1, <1>2, Places
<1>4. cards' # Unlisted
  BY <1>1, <1>3 DEF Unlisted
<1>5. KeyPlaces'
  BY <1>1, <1>3 DEF KeyInv, KeyPlaces, ShownKey, KnownKey, Hidden
<1>6. IntegrationsTypeOK'
  BY <1>1, <1>3, <1>4, Places DEF KeyInv, IntegrationsTypeOK, Rows
<1>7. \A i \in RequestIds : Good(requests[i])'
  BY <1>1, Places DEF Good, ShownKey, KnownKey, Hidden
<1> QED  BY <1>5, <1>6, <1>7 DEF KeyInv

\* A PATCH takes a card, or the fields of another tab.
LEMMA SendKeyInv ==
    ASSUME KeyInv, NEW k \in Kinds, NEW c \in Config, ShownKey(c),
           NEW r \in RequestIds, saves < MaxSaves, saves' = saves + 1,
           requests' = [requests EXCEPT ![r] = [NoRequest EXCEPT !.what = "patch", !.st = "sent",
                                                    !.kind = k, !.body = c]],
           saving' \in [Kinds -> 0..MaxRequests],
           UNCHANGED <<providers, boot, listed, cards, steady>>
    PROVE  KeyInv'
<1> DEFINE q == [NoRequest EXCEPT !.what = "patch", !.st = "sent", !.kind = k, !.body = c]
<1>1. /\ q \in Request /\ q.body = c /\ q.read = Empty /\ q.rows = Unlisted
      /\ q.what = "patch" /\ q.st = "sent" /\ q.kind = k
  BY FreshRequests DEF Request
<1>2. Good(q)
  BY <1>1, FreshRequests, Places DEF Good, KnownKey
<1>3. saves' \in 0..MaxSaves
  BY Places
<1> QED  BY <1>1, <1>2, <1>3, OneRequest

LEMMA SaveCardKeyInv ==
    ASSUME KeyInv, NEW k \in Kinds, SaveCard(k)
    PROVE  KeyInv'
<1>1. /\ listed # Unlisted /\ cards \in [Kinds -> Config] /\ ShownKey(cards[k])
      /\ saves < MaxSaves /\ saves' = saves + 1
      /\ UNCHANGED <<providers, boot, listed, cards, steady>>
  BY Places DEF SaveCard
<1>2. PICK r \in RequestIds :
        /\ requests' = [requests EXCEPT ![r] = [NoRequest EXCEPT !.what = "patch", !.st = "sent",
                                                    !.kind = k, !.body = cards[k]]]
        /\ saving' = [saving EXCEPT ![k] = r]
  BY DEF SaveCard
<1>3. saving' \in [Kinds -> 0..MaxRequests]
  BY <1>2, Places
<1> QED  BY <1>1, <1>2, <1>3, SendKeyInv

LEMMA SaveInOtherTabKeyInv ==
    ASSUME KeyInv, NEW k \in Kinds, NEW c \in Config, SaveInOtherTab(k, c)
    PROVE  KeyInv'
<1>1. /\ ShownKey(c) /\ saves < MaxSaves /\ saves' = saves + 1
      /\ UNCHANGED <<providers, boot, listed, cards, saving, steady>>
  BY DEF SaveInOtherTab, ShownKey
<1>2. PICK r \in RequestIds :
        requests' = [requests EXCEPT ![r] = [NoRequest EXCEPT !.what = "patch", !.st = "sent",
                                                 !.kind = k, !.body = c]]
  BY DEF SaveInOtherTab
<1>3. saving' \in [Kinds -> 0..MaxRequests]
  BY <1>1, Places
<1> QED  BY <1>1, <1>2, <1>3, SendKeyInv

\* Whatever is listed is hidden.
LEMMA MaskedIsHidden ==
    ASSUME boot \in 0..MaxBoots, NEW c \in Config
    PROVE  Masked(c) \in Config /\ Hidden(Masked(c))
<1>1. Masked(c).key \in {0, Sentinel} /\ Masked(c) \in Config
  BY DEF Masked, Config
<1> QED  BY <1>1 DEF Hidden, ShownKey

LEMMA ListKeyInv ==
    ASSUME KeyInv, NEW r \in RequestIds, List(r)
    PROVE  KeyInv'
<1> DEFINE rs == [k \in Kinds |-> Masked(providers[k])]
           q == [requests[r] EXCEPT !.st = "done", !.rows = rs]
<1>1. /\ requests[r].what = "list" /\ requests[r].st = "sent"
      /\ requests' = [requests EXCEPT ![r] = q]
      /\ UNCHANGED <<providers, boot, listed, cards, saving, saves, steady>>
  BY Places DEF List, Request
<1>2. rs \in [Kinds -> Config] /\ \A k \in Kinds : Hidden(rs[k])
  BY Places, MaskedIsHidden
<1>3. Kinds # {} => rs # Unlisted
  BY DEF Unlisted
<1>4. /\ q \in Request /\ q.st = "done" /\ q.rows = rs /\ q.what = "list"
      /\ q.body = requests[r].body /\ q.read = requests[r].read
  BY <1>1, <1>2, Places DEF Request, Rows
<1>5. Good(q)
  BY <1>2, <1>3, <1>4, Places DEF Good
<1> HIDE DEF q
<1> QED  BY <1>1, <1>4, <1>5, Places, OneRequest

\* What a PATCH reads is stored, so it is not the mask.
LEMMA UpsertReadsKeyInv ==
    ASSUME KeyInv, NEW r \in RequestIds, UpsertReads(r)
    PROVE  KeyInv'
<1> DEFINE q == [requests[r] EXCEPT !.st = "read", !.read = providers[requests[r].kind]]
<1>1. /\ requests[r].what = "patch" /\ requests[r].st = "sent"
      /\ requests' = [requests EXCEPT ![r] = q]
      /\ UNCHANGED <<providers, boot, listed, cards, saving, saves, steady>>
  BY Places DEF UpsertReads, Request
<1>2. requests[r].kind \in Kinds
  BY <1>1, Places DEF Good
<1>3. /\ q \in Request /\ q.st = "read" /\ q.what = "patch" /\ q.rows = requests[r].rows
      /\ q.body = requests[r].body /\ q.kind = requests[r].kind
      /\ q.read = providers[requests[r].kind]
  BY <1>1, <1>2, Places DEF Request
<1>4. Good(q)
  BY <1>1, <1>2, <1>3, Places DEF Good
<1> HIDE DEF q
<1> QED  BY <1>1, <1>3, <1>4, Places, OneRequest

\* The mask stands for the key that was read, and is not written itself.
LEMMA UpsertWritesKeyInv ==
    ASSUME KeyInv, NEW r \in RequestIds, UpsertWrites(r)
    PROVE  KeyInv'
<1> DEFINE q == [NoRequest EXCEPT !.what = "patch", !.st = "done"]
           c == MergeConfig(requests[r].read, requests[r].body)
<1>1. /\ requests[r].st = "read" /\ requests[r].kind \in Kinds
      /\ providers' = [providers EXCEPT ![requests[r].kind] = c]
      /\ requests' = [requests EXCEPT ![r] = q]
      /\ UNCHANGED <<boot, listed, cards, saving, saves, steady>>
  BY Places DEF UpsertWrites, Good
<1>2. c \in Config /\ KnownKey(c)
  <2>1. /\ requests[r].body \in Config /\ requests[r].read \in Config
        /\ ShownKey(requests[r].body) /\ KnownKey(requests[r].read)
    BY Places DEF Request, Good
  <2>2. CASE requests[r].body.key = Sentinel
    BY <2>1, <2>2 DEF MergeConfig, Config, KnownKey
  <2>3. CASE requests[r].body.key # Sentinel
    <3>1. c = requests[r].body
      BY <2>3 DEF MergeConfig
    <3>2. requests[r].body.key \in Nat /\ boot \in Nat /\ MaxKey \in Nat
      BY <2>1, Places DEF Config
    <3>3. requests[r].body.key < Sentinel
      BY <2>1, <2>3, <3>2 DEF ShownKey
    <3> QED  BY <2>1, <3>1, <3>3 DEF KnownKey
  <2> QED  BY <2>2, <2>3
<1> HIDE DEF c
<1>3. providers' \in [Kinds -> Config] /\ \A k \in Kinds : KnownKey(providers'[k])
  BY <1>1, <1>2, Places
<1>4. /\ q \in Request /\ q.body = Empty /\ q.read = Empty /\ q.rows = Unlisted
      /\ q.what = "patch" /\ q.st = "done"
  BY FreshRequests DEF Request
<1>5. Good(q)
  BY <1>4, FreshRequests, Places DEF Good, ShownKey, KnownKey
<1> HIDE DEF q
<1>6. requests' \in [RequestIds -> Request] /\ \A i \in RequestIds : requests'[i] \in {q, requests[i]}
  BY <1>1, <1>4, Places
<1>7. \A i \in RequestIds : Good(requests[i])'
  BY <1>1, <1>5, <1>6, Places DEF Good, ShownKey, KnownKey, Hidden
<1>8. KeyPlaces'
  BY <1>1, <1>3, Places DEF KeyPlaces, ShownKey, KnownKey, Hidden
<1>9. IntegrationsTypeOK'
  BY <1>1, <1>3, <1>6, Places DEF KeyInv, IntegrationsTypeOK, Request
<1> QED  BY <1>7, <1>8, <1>9 DEF KeyInv

\* A new process has a mask that nothing holds yet.
LEMMA RebootKeyInv ==
    ASSUME KeyInv, Reboot
    PROVE  KeyInv'
<1> DEFINE q(r) == IF requests[r] = NoRequest THEN NoRequest
                   ELSE [NoRequest EXCEPT !.what = requests[r].what, !.st = "lost"]
<1>0. requests' = [r \in RequestIds |-> q(r)]
  BY DEF Reboot
<1>1. /\ boot' = boot + 1 /\ boot < MaxBoots
      /\ UNCHANGED <<providers, listed, cards, saving, saves, steady>>
  BY DEF Reboot
<1>2. boot \in 0..MaxBoots
  BY Places
<1>3. boot' \in 0..MaxBoots
  BY <1>1, <1>2
<1>4. Sentinel \in Nat /\ Sentinel' = Sentinel + 1
  BY <1>1, <1>2
<1>5. ASSUME NEW r \in RequestIds
      PROVE  /\ q(r) \in Request /\ q(r).body = Empty /\ q(r).read = Empty
             /\ q(r).rows = Unlisted /\ q(r).st \in {"none", "lost"}
  BY FreshRequests, Places DEF Request
<1> HIDE DEF q
<1>6. requests' \in [RequestIds -> Request] /\ \A r \in RequestIds : requests'[r] = q(r)
  BY <1>0, <1>5
<1>7. \A r \in RequestIds : Good(requests[r])'
  BY <1>4, <1>5, <1>6, FreshRequests DEF Good, ShownKey, KnownKey
<1>8. ASSUME NEW c \in Config
      PROVE  /\ KnownKey(c) => c.key < Sentinel'
             /\ ShownKey(c) => c.key <= Sentinel'
             /\ Hidden(c) => c.key \notin 1..MaxKey /\ c.key <= Sentinel'
  <2>1. c.key \in Nat
    BY DEF Config
  <2> QED  BY <1>4, <2>1 DEF KnownKey, ShownKey, Hidden
<1>9. KeyPlaces'
  <2>1. \A k \in Kinds : providers[k] \in Config
    BY Places
  <2>2. cards # Unlisted => \A k \in Kinds : cards[k] \in Config
    BY Places
  <2>3. listed # Unlisted => \A k \in Kinds : listed[k] \in Config
    BY Places DEF Rows
  <2>4. (\A k \in Kinds : KnownKey(providers[k]))'
    BY <1>1, <1>8, <2>1, Places DEF KnownKey
  <2>5. (cards # Unlisted => \A k \in Kinds : ShownKey(cards[k]))'
    BY <1>1, <1>8, <2>2, Places DEF ShownKey
  <2>6. (listed # Unlisted => \A k \in Kinds : Hidden(listed[k]))'
    BY <1>1, <1>8, <2>3, Places DEF ShownKey, Hidden
  <2> QED  BY <2>4, <2>5, <2>6 DEF KeyPlaces
<1>10. IntegrationsTypeOK'
  BY <1>1, <1>3, <1>6, Places DEF KeyInv, IntegrationsTypeOK, Request
<1> QED  BY <1>7, <1>9, <1>10 DEF KeyInv

\* The cards take what was listed.
LEMMA ListedKeyInv ==
    ASSUME KeyInv, NEW r \in RequestIds, Listed(r)
    PROVE  KeyInv'
<1>1. /\ listed' = requests[r].rows /\ cards' = requests[r].rows
      /\ requests' = [requests EXCEPT ![r] = NoRequest]
      /\ UNCHANGED <<providers, boot, saving, saves, steady>>
  BY DEF Listed
<1>2. requests[r].rows \in Rows /\ requests[r].rows # Unlisted
      /\ \A k \in Kinds : Hidden(requests[r].rows[k])
  BY Places DEF Request, Good, Listed
<1>3. requests' \in [RequestIds -> Request]
      /\ \A i \in RequestIds : requests'[i] \in {NoRequest, requests[i]}
  BY <1>1, FreshRequests, Places
<1>4. \A i \in RequestIds : Good(requests[i])'
  BY <1>1, <1>3, FreshIsGood, Places DEF Good, ShownKey, KnownKey, Hidden
<1>5. KeyPlaces'
  BY <1>1, <1>2, Places DEF KeyPlaces, ShownKey, KnownKey, Hidden
<1>6. IntegrationsTypeOK'
  BY <1>1, <1>2, <1>3, Places DEF KeyInv, IntegrationsTypeOK, Request, Hidden
<1> QED  BY <1>4, <1>5, <1>6 DEF KeyInv

\* Closing the dialog drops its rows and its list requests.
LEMMA ReopenKeyInv ==
    ASSUME KeyInv, Reopen
    PROVE  KeyInv'
<1> DEFINE left == [r \in RequestIds |-> IF requests[r].what = "list" THEN NoRequest
                                         ELSE requests[r]]
<1>1. /\ listed' = Unlisted /\ cards' = Unlisted /\ saving' = [k \in Kinds |-> 0]
      /\ UNCHANGED <<providers, boot, saves, steady>>
  BY DEF Reopen
<1>2. PICK r \in RequestIds : requests' = [left EXCEPT ![r] = ListRequest]
  BY DEF Reopen
<1>3. requests' \in [RequestIds -> Request]
      /\ \A i \in RequestIds : requests'[i] \in {NoRequest, ListRequest, requests[i]}
  BY <1>2, FreshRequests, Places
<1>4. \A i \in RequestIds : Good(requests[i])'
  <2>1. ASSUME NEW i \in RequestIds PROVE Good(requests'[i])
    BY <1>3, FreshIsGood, Places
  <2>2. Sentinel' = Sentinel
    BY <1>1
  <2> QED  BY <2>1, <2>2 DEF Good, ShownKey, KnownKey, Hidden
<1>5. KeyPlaces'
  BY <1>1, Places DEF KeyPlaces, KnownKey
<1>6. saving' \in [Kinds -> 0..MaxRequests]
  BY <1>1
<1>7. IntegrationsTypeOK'
  BY <1>1, <1>3, <1>6, Places DEF KeyInv, IntegrationsTypeOK, Request, Rows
<1> QED  BY <1>4, <1>5, <1>7 DEF KeyInv

\* A request that ends leaves its place, or is followed by a list.
LEMMA EndKeyInv ==
    ASSUME KeyInv, NEW r \in RequestIds, NEW q \in {NoRequest, ListRequest, requests[r]},
           requests' = [requests EXCEPT ![r] = q],
           saving' = Freed(r), UNCHANGED <<providers, boot, listed, cards, saves, steady>>
    PROVE  KeyInv'
<1>1. q \in Request /\ Good(q)
  BY FreshRequests, FreshIsGood, Places
<1>2. saving' \in [Kinds -> 0..MaxRequests] /\ saves' \in 0..MaxSaves
  BY Places DEF Freed
<1> QED  BY <1>1, <1>2, OneRequest

\* Keys and masks stay where they may be (providers.go Mask, Upsert), in every
\* step of the store, of the cards and of another tab.
THEOREM IntegrationsInductive == IntegrationsSpec => []KeyInv
<1>1. ASSUME KeyInv, [IntegrationsNext]_integrationsVars
      PROVE  KeyInv'
  <2>1. ASSUME NEW r \in RequestIds, Saved(r) PROVE KeyInv'
    <3>1. PICK q \in {NoRequest, ListRequest} : requests' = [requests EXCEPT ![r] = q]
      BY <2>1 DEF Saved
    <3> QED  BY <1>1, <2>1, <3>1, EndKeyInv DEF Saved
  <2>2. ASSUME NEW r \in RequestIds, RequestFailed(r) PROVE KeyInv'
    <3>1. PICK q \in {NoRequest, requests[r]} : requests' = [requests EXCEPT ![r] = q]
      BY <2>2 DEF RequestFailed
    <3> QED  BY <1>1, <2>2, <3>1, EndKeyInv DEF RequestFailed
  <2>3. ASSUME NEW r \in RequestIds,
               List(r) \/ UpsertReads(r) \/ UpsertWrites(r) \/ Listed(r)
        PROVE  KeyInv'
    BY <1>1, <2>3, ListKeyInv, UpsertReadsKeyInv, UpsertWritesKeyInv, ListedKeyInv
  <2>4. ASSUME NEW k \in Kinds, NEW c \in Config, EditCard(k, c) \/ SaveInOtherTab(k, c)
        PROVE  KeyInv'
    BY <1>1, <2>4, EditCardKeyInv, SaveInOtherTabKeyInv
  <2>5. CASE UNCHANGED integrationsVars
    <3>1. UNCHANGED <<providers, boot, listed, cards, saving, requests, saves, steady>>
      BY <2>5 DEF integrationsVars
    <3>2. IntegrationsTypeOK'
      BY <1>1, <3>1, Places DEF KeyInv, IntegrationsTypeOK
    <3>3. KeyPlaces' /\ \A r \in RequestIds : Good(requests[r])'
      BY <1>1, <3>1 DEF KeyInv, KeyPlaces, Good, ShownKey, KnownKey, Hidden
    <3> QED  BY <3>2, <3>3 DEF KeyInv
  <2> QED
    BY <1>1, <2>1, <2>2, <2>3, <2>4, <2>5, SaveCardKeyInv, ReopenKeyInv, RebootKeyInv
    DEF IntegrationsNext
<1> QED  BY <1>1, InitKeyInv, PTL DEF IntegrationsSpec

\* Every variable of Integrations has its type, and no key that a user typed
\* is ever listed (providers.go Mask).
THEOREM IntegrationsTypes == IntegrationsSpec => []IntegrationsTypeOK
<1>1. KeyInv => IntegrationsTypeOK
  BY DEF KeyInv
<1> QED  BY <1>1, IntegrationsInductive, PTL

\* The mask of the process that runs is never stored as a key, whatever is
\* saved at once or over a row that has changed (providers.go Upsert).
THEOREM MaskNeverStored == IntegrationsSpec => []MaskIsNoKey
<1>1. KeyInv => MaskIsNoKey
  <2> SUFFICES ASSUME KeyInv, NEW k \in Kinds PROVE providers[k].key # Sentinel
    BY DEF MaskIsNoKey
  <2>1. providers[k].key \in Nat /\ providers[k].key < Sentinel /\ Sentinel \in Nat
    BY Places DEF KnownKey, Config
  <2> QED  BY <2>1
<1> QED  BY <1>1, IntegrationsInductive, PTL
(***************************************************************************)
(* The cards of a user who waits.                                          *)
(***************************************************************************)
\* What is listed, if anything, is what is stored.
Current == listed = Unlisted \/ \A k \in Kinds : listed[k] = Masked(providers[k])

\* A save has a card that waits for it, and rows that have been read are those
\* that are stored.
Fits(r) ==
    LET q == requests[r]
    IN  /\ q.what = "patch" => \E k \in Kinds : saving[k] = r
        /\ q.what = "list" /\ q.st = "done" => q.rows = [k \in Kinds |-> Masked(providers[k])]

\* There is one request at a time, and while the cards may be behind there is a
\* list under way or a save that asks for one.
Renews(r) == requests[r].what = "list" \/ (requests[r].what = "patch" /\ requests[r].st = "done")
StoredInv ==
    steady =>
        /\ \A r, q \in RequestIds : requests[r] # NoRequest /\ requests[q] # NoRequest => r = q
        /\ \A r \in RequestIds : Fits(r)
        /\ Current \/ \E r \in RequestIds : Renews(r)

\* A step that leaves at most the request r.
LEMMA OneLeft ==
    ASSUME NEW r \in RequestIds, \A i \in RequestIds \ {r} : requests'[i] = NoRequest,
           steady' => Fits(r)' /\ (Current' \/ Renews(r)')
    PROVE  StoredInv'
BY FreshRequests DEF StoredInv, Fits, Renews

LEMMA StoredNext ==
    ASSUME KeyInv, KeyInv', StoredInv, [IntegrationsNext]_integrationsVars
    PROVE  StoredInv'
<1> SUFFICES ASSUME steady, steady' PROVE StoredInv'
  <2>1. steady' = steady
    BY DEF IntegrationsNext, integrationsVars, EditCard, SaveInOtherTab, SaveCard, Reopen, Reboot,
         List, UpsertReads, UpsertWrites, Listed, Saved, RequestFailed
  <2> QED  BY <2>1 DEF StoredInv
<1>1. /\ requests \in [RequestIds -> Request] /\ requests' \in [RequestIds -> Request]
      /\ saving \in [Kinds -> 0..MaxRequests] /\ providers \in [Kinds -> Config]
      /\ boot \in 0..MaxBoots
  BY Places DEF KeyInv, IntegrationsTypeOK, Request
<1>2. /\ \A r, q \in RequestIds : requests[r] # NoRequest /\ requests[q] # NoRequest => r = q
      /\ \A r \in RequestIds : Fits(r)
      /\ Current \/ \E r \in RequestIds : Renews(r)
  BY DEF StoredInv
\* The only request changes.
<1>3. ASSUME NEW r \in RequestIds, requests[r] # NoRequest,
             \A i \in RequestIds \ {r} : requests'[i] = requests[i],
             Fits(r)', Current' \/ Renews(r)'
      PROVE  StoredInv'
  <2>1. \A i \in RequestIds \ {r} : requests'[i] = NoRequest
    BY <1>2, <1>3
  <2> QED  BY <1>3, <2>1, OneLeft
\* Nothing is under way before.
<1>4. (\A r \in RequestIds : requests[r] = NoRequest) => Current
  BY <1>2, FreshRequests DEF Renews
<1>5. ASSUME NEW k \in Kinds, NEW c \in Config, EditCard(k, c) PROVE StoredInv'
  BY <1>2, <1>5 DEF EditCard, StoredInv, Fits, Current, Renews, Masked
<1>6. ASSUME NEW k \in Kinds, SaveCard(k) PROVE StoredInv'
  <2>1. PICK r \in RequestIds :
           /\ requests' = [requests EXCEPT ![r] = [NoRequest EXCEPT !.what = "patch", !.st = "sent",
                                                     !.kind = k, !.body = cards[k]]]
           /\ saving' = [saving EXCEPT ![k] = r]
    BY <1>6 DEF SaveCard
  <2>2. (\A i \in RequestIds : requests[i] = NoRequest) /\ UNCHANGED <<providers, boot, listed>>
    BY <1>6 DEF SaveCard
  <2>3. requests'[r].what = "patch" /\ saving'[k] = r /\ \A i \in RequestIds \ {r} : requests'[i] = NoRequest
    BY <1>1, <2>1, <2>2, FreshRequests DEF NoRequest
  <2>4. Current'
    BY <1>4, <2>2 DEF Current, Masked
  <2> QED  BY <2>3, <2>4, OneLeft DEF Fits
<1>7. CASE Reopen
  <2>1. \A i \in RequestIds : requests[i] = NoRequest
    BY <1>7 DEF Reopen
  <2>2. PICK r \in RequestIds : requests' = [[i \in RequestIds |-> IF requests[i].what = "list" THEN NoRequest
                                                                    ELSE requests[i]]
                                               EXCEPT ![r] = ListRequest]
    BY <1>7 DEF Reopen
  <2>3. requests'[r] = ListRequest /\ \A i \in RequestIds \ {r} : requests'[i] = NoRequest
    BY <2>1, <2>2
  <2> QED  BY <2>3, FreshRequests, OneLeft DEF Fits, Renews
<1>8. ASSUME NEW r \in RequestIds, List(r) PROVE StoredInv'
  <2> DEFINE m == [k \in Kinds |-> Masked(providers[k])]
  <2>1. /\ requests[r].what = "list" /\ requests[r].st = "sent" /\ providers' = providers /\ boot' = boot
        /\ requests' = [requests EXCEPT ![r].st = "done", ![r].rows = m]
    BY <1>8 DEF List
  <2>2. m' = m
    BY <2>1 DEF Masked
  <2> HIDE DEF m
  <2>3. requests[r] # NoRequest /\ requests'[r].what = "list" /\ requests'[r].rows = m
        /\ \A i \in RequestIds \ {r} : requests'[i] = requests[i]
    BY <1>1, <2>1, FreshRequests DEF Request
  <2>4. Fits(r)'
    BY <2>2, <2>3 DEF Fits, m
  <2>5. Renews(r)'
    BY <2>3 DEF Renews
  <2> QED  BY <1>3, <2>3, <2>4, <2>5
<1>9. ASSUME NEW r \in RequestIds, UpsertReads(r) PROVE StoredInv'
  <2> DEFINE x == providers[requests[r].kind]
  <2>1. /\ requests[r].what = "patch" /\ requests[r].st = "sent"
        /\ requests' = [requests EXCEPT ![r].st = "read", ![r].read = x]
        /\ UNCHANGED <<providers, boot, listed, saving>>
    BY <1>9 DEF UpsertReads
  <2> HIDE DEF x
  <2>2. requests[r] # NoRequest /\ requests'[r].what = "patch"
        /\ \A i \in RequestIds \ {r} : requests'[i] = requests[i]
    BY <1>1, <2>1, FreshRequests DEF Request
  <2>3. Fits(r)'
    BY <1>2, <2>1, <2>2 DEF Fits
  <2>4. Current'
    <3>1. \A i \in RequestIds : ~Renews(i)
      BY <1>2, <2>1, <2>2, FreshRequests DEF Renews
    <3> QED  BY <1>2, <2>1, <3>1 DEF Current, Masked
  <2> QED  BY <1>3, <2>2, <2>3, <2>4
<1>10. ASSUME NEW r \in RequestIds, UpsertWrites(r) PROVE StoredInv'
  <2>1. /\ requests[r].st = "read" /\ saving' = saving
        /\ requests' = [requests EXCEPT ![r] = [NoRequest EXCEPT !.what = "patch", !.st = "done"]]
    BY <1>10 DEF UpsertWrites
  <2>2. requests[r].what = "patch" /\ requests[r] # NoRequest
    BY <2>1, Places, FreshRequests DEF Good
  <2>3. requests'[r].what = "patch" /\ requests'[r].st = "done"
        /\ \A i \in RequestIds \ {r} : requests'[i] = requests[i]
    BY <1>1, <2>1 DEF NoRequest
  <2>4. Fits(r)' /\ Renews(r)'
    BY <1>2, <2>1, <2>2, <2>3 DEF Fits, Renews
  <2> QED  BY <1>3, <2>2, <2>3, <2>4
<1>11. ASSUME NEW r \in RequestIds, Listed(r) PROVE StoredInv'
  <2>1. /\ requests[r].what = "list" /\ requests[r].st = "done" /\ listed' = requests[r].rows
        /\ requests' = [requests EXCEPT ![r] = NoRequest] /\ UNCHANGED <<providers, boot>>
    BY <1>11 DEF Listed
  <2>2. listed' = [k \in Kinds |-> Masked(providers[k])]
    BY <1>2, <2>1 DEF Fits
  <2>3. Current'
    BY <2>1, <2>2 DEF Current, Masked
  <2>4. requests[r] # NoRequest /\ requests'[r] = NoRequest
        /\ \A i \in RequestIds \ {r} : requests'[i] = requests[i]
    BY <1>1, <2>1, FreshRequests
  <2>5. Fits(r)'
    BY <2>4, FreshRequests DEF Fits
  <2> QED  BY <1>3, <2>3, <2>4, <2>5
<1>12. ASSUME NEW r \in RequestIds, Saved(r) PROVE StoredInv'
  <2>1. requests[r].what = "patch" /\ \E k \in Kinds : saving[k] = r
    BY <1>2, <1>12 DEF Saved, Fits
  <2>2. requests' = [requests EXCEPT ![r] = ListRequest]
    BY <1>12, <2>1 DEF Saved
  <2>3. requests[r] # NoRequest /\ requests'[r] = ListRequest
        /\ \A i \in RequestIds \ {r} : requests'[i] = requests[i]
    BY <1>1, <2>1, <2>2, FreshRequests
  <2>4. Fits(r)' /\ Renews(r)'
    BY <2>3, FreshRequests DEF Fits, Renews
  <2> QED  BY <1>3, <2>3, <2>4
<1>13. ASSUME NEW r \in RequestIds, RequestFailed(r) PROVE StoredInv'
  <2>1. /\ requests[r].what = "patch" /\ requests[r].st = "sent" /\ requests[r] # NoRequest
        /\ requests' = [requests EXCEPT ![r] = NoRequest] /\ UNCHANGED <<providers, boot, listed>>
    BY <1>13 DEF RequestFailed
  <2>2. requests'[r] = NoRequest /\ \A i \in RequestIds \ {r} : requests'[i] = requests[i]
    BY <1>1, <2>1
  <2>3. \A i \in RequestIds : ~Renews(i)
    BY <1>2, <2>1, FreshRequests DEF Renews
  <2>4. Current'
    BY <1>2, <2>1, <2>3 DEF Current, Masked
  <2>5. Fits(r)'
    BY <2>2, FreshRequests DEF Fits
  <2> QED  BY <1>3, <2>1, <2>2, <2>4, <2>5
<1>14. CASE UNCHANGED integrationsVars
  BY <1>2, <1>14 DEF integrationsVars, StoredInv, Fits, Current, Renews, Masked
<1>15. (\A k \in Kinds, c \in Config : ~SaveInOtherTab(k, c)) /\ ~Reboot
  BY DEF SaveInOtherTab, Reboot
<1> QED
  BY <1>5, <1>6, <1>7, <1>8, <1>9, <1>10, <1>11, <1>12, <1>13, <1>14, <1>15 DEF IntegrationsNext

\* When the user waits for each save and nobody else saves, the cards show what
\* is stored, each key as set or not (IntegrationsSection.tsx refresh, onSaved).
THEOREM CardsStayStored == IntegrationsSpec => []CardsAreStored
<1>1. IntegrationsInit => StoredInv
  BY FreshRequests DEF IntegrationsInit, StoredInv, Fits, Current, Renews
<1>2. KeyInv /\ KeyInv' /\ StoredInv /\ [IntegrationsNext]_integrationsVars => StoredInv'
  BY StoredNext
<1>3. StoredInv => CardsAreStored
  BY FreshRequests DEF StoredInv, CardsAreStored, Current, Renews
<1> QED  BY <1>1, <1>2, <1>3, IntegrationsInductive, PTL DEF IntegrationsSpec

(***************************************************************************)
(* The parts of the interface beside each other, as the run has them.      *)
(***************************************************************************)
\* Each part goes its own way beside the others, so that what is proved of it
\* alone is true of the interface (App.tsx mounts them side by side; they share no
\* state).
THEOREM WebIsItsParts == WebSpec => Spec /\ SettingsSpec /\ IntegrationsSpec
<1>1. WebInit => Init /\ SettingsInit /\ IntegrationsInit
  BY DEF WebInit, PageRests, SettingsRest, CardsRest
<1>2. [WebNext]_<<focus, vars, settingsVars, integrationsVars>> =>
        [Next]_vars /\ [SettingsNext]_settingsVars /\ [IntegrationsNext]_integrationsVars
  BY DEF WebNext
<1> QED  BY <1>1, <1>2, PTL DEF WebSpec, Spec, SettingsSpec, IntegrationsSpec

\* In every behaviour of the interface each part keeps the types of its state:
\* the page (App.tsx, WeekView.tsx), the settings dialog and the providers' cards.
THEOREM WebTypesHold == WebSpec => []WebTypeOK
<1>1. TypeOK /\ SettingsTypeOK /\ IntegrationsTypeOK => WebTypeOK
  BY DEF WebTypeOK
<1> QED  BY <1>1, WebIsItsParts, PageTypesHold, SettingsTypes, IntegrationsTypes, PTL
=============================================================================
