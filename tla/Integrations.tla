---------------------------- MODULE Integrations ----------------------------
(***************************************************************************)
(* The providers and their secrets: the cards of the settings dialog that  *)
(* edit them (IntegrationsSection.tsx), the handlers (server/providers.go) *)
(* and the store, which never sends a secret back but a mask that is made  *)
(* anew by every process, and takes the mask for "leave it alone"          *)
(* (providers.go).                                                         *)
(*                                                                         *)
(* A provider has a key, the secret, and one field that is none and stands *)
(* for the others.  A key is 0 when not set, one of 1..MaxKey that users   *)
(* type, or the mask of a process.  Encryption, which Get undoes, is left  *)
(* out: the master key is always the same.                                 *)
(***************************************************************************)
EXTENDS Naturals

CONSTANTS
    Kinds,
    MaxKey,         \* the keys that users type
    MaxField,       \* the other field is in 0..MaxField, 0 when not set
    MaxRequests,    \* so many requests at a time,
    MaxSaves,       \* so many saves,
    MaxBoots        \* and so many restarts of the server

ASSUME IntegrationsAssumption ==
    /\ Kinds # {} /\ MaxKey \in Nat \ {0} /\ MaxField \in Nat
    /\ MaxRequests \in Nat /\ MaxSaves \in Nat /\ MaxBoots \in Nat

VARIABLES
    providers,  \* the table, by kind
    boot,       \* the server's process
    listed,     \* the rows that the dialog has, Unlisted before the first answer
    cards,      \* what the fields of each card hold
    saving,     \* by card, the request it waits for, or 0
    requests,
    saves,
    steady      \* whether the user waits, nobody else saves and nothing is lost

integrationsVars == <<providers, boot, listed, cards, saving, requests, saves, steady>>

\* The mask of process b; Sentinel.
Mask(b) == MaxKey + 1 + b
Sentinel == Mask(boot)
AllKeys == 0..Mask(MaxBoots)
Config == [key : AllKeys, field : 0..MaxField]
Empty == [key |-> 0, field |-> 0]
Unlisted == [k \in {} |-> Empty]
Masked(c) == [c EXCEPT !.key = IF @ = 0 THEN 0 ELSE Sentinel]

\* A request is sent; a PATCH has read its row; the handler is done.
NoRequest == [what |-> "none", st |-> "none", kind |-> "none", body |-> Empty,
              read |-> Empty, rows |-> Unlisted]
RequestIds == 1..MaxRequests
FirstFree(r) == requests[r] = NoRequest /\ \A i \in 1..(r - 1) : requests[i] # NoRequest
ListRequest == [NoRequest EXCEPT !.what = "list", !.st = "sent"]

IntegrationsInit ==
    /\ providers \in [Kinds -> [key : {0, 1}, field : {0}]] /\ boot = 0
    /\ listed = Unlisted /\ cards = Unlisted
    /\ saving = [k \in Kinds |-> 0]
    /\ requests = [r \in RequestIds |-> IF r = 1 THEN ListRequest ELSE NoRequest]
    /\ saves = 0 /\ steady \in BOOLEAN

(***************************************************************************)
(* The cards.                                                              *)
(***************************************************************************)
\* The dialog is closed and opened: the section is mounted anew and lists the
\* rows.  Handlers of saves go on, for nobody.
Reopen ==
    /\ steady => \A r \in RequestIds : requests[r] = NoRequest
    /\ LET left == [r \in RequestIds |-> IF requests[r].what = "list" THEN NoRequest
                                         ELSE requests[r]]
       IN  \E r \in RequestIds :
             /\ left[r] = NoRequest /\ \A i \in 1..(r - 1) : left[i] # NoRequest
             /\ requests' = [left EXCEPT ![r] = ListRequest]
    /\ listed' = Unlisted /\ cards' = Unlisted /\ saving' = [k \in Kinds |-> 0]
    /\ UNCHANGED <<providers, boot, saves, steady>>

\* LLMProviderFields, ProviderCard: FieldList's onChange.
EditCard(k, c) ==
    /\ listed # Unlisted /\ c # cards[k]
    /\ \/ c = [cards[k] EXCEPT !.key = c.key] /\ c.key <= MaxKey
       \/ c = [cards[k] EXCEPT !.field = c.field]
    /\ cards' = [cards EXCEPT ![k] = c]
    /\ UNCHANGED <<providers, boot, listed, saving, requests, saves, steady>>

Dirty(k) == cards[k] # listed[k]

\* save sends the whole card, a key that is not edited as its mask.
SaveCard(k) ==
    /\ listed # Unlisted /\ saving[k] = 0 /\ Dirty(k) /\ saves < MaxSaves
    /\ steady => \A r \in RequestIds : requests[r] = NoRequest
    /\ \E r \in RequestIds :
        /\ FirstFree(r)
        /\ requests' = [requests EXCEPT ![r] = [NoRequest EXCEPT !.what = "patch", !.st = "sent",
                                                     !.kind = k, !.body = cards[k]]]
        /\ saving' = [saving EXCEPT ![k] = r]
    /\ saves' = saves + 1
    /\ UNCHANGED <<providers, boot, listed, cards, steady>>

\* The same from another tab, which has listed the rows at some time before.
SaveInOtherTab(k, c) ==
    /\ ~steady /\ saves < MaxSaves /\ c.key <= Sentinel
    /\ \E r \in RequestIds :
        FirstFree(r) /\ requests' = [requests EXCEPT ![r] = [NoRequest EXCEPT
                                        !.what = "patch", !.st = "sent", !.kind = k, !.body = c]]
    /\ saves' = saves + 1
    /\ UNCHANGED <<providers, boot, listed, cards, saving, steady>>

(***************************************************************************)
(* The store.                                                              *)
(***************************************************************************)
List(r) ==
    /\ requests[r].what = "list" /\ requests[r].st = "sent"
    /\ requests' = [requests EXCEPT ![r].st = "done",
                                    ![r].rows = [k \in Kinds |-> Masked(providers[k])]]
    /\ UNCHANGED <<providers, boot, listed, cards, saving, saves, steady>>

\* Upsert reads the row, merges, and writes; no transaction.
UpsertReads(r) ==
    /\ requests[r].what = "patch" /\ requests[r].st = "sent"
    /\ requests' = [requests EXCEPT ![r].st = "read", ![r].read = providers[requests[r].kind]]
    /\ UNCHANGED <<providers, boot, listed, cards, saving, saves, steady>>

\* Faulty variant: the mask is a value like any other.
MergeMask(old, body) == body

\* The mask leaves the key as it is; an empty value deletes it.
MergeConfig(old, body) == IF body.key = Sentinel THEN [body EXCEPT !.key = old.key] ELSE body

UpsertWrites(r) ==
    /\ requests[r].st = "read"
    /\ providers' = [providers EXCEPT ![requests[r].kind] =
                        MergeConfig(requests[r].read, requests[r].body)]
    /\ requests' = [requests EXCEPT ![r] = [NoRequest EXCEPT !.what = "patch", !.st = "done"]]
    /\ UNCHANGED <<boot, listed, cards, saving, saves, steady>>

\* The handlers that run are gone with their process, and its mask.
Reboot ==
    /\ ~steady /\ boot < MaxBoots /\ boot' = boot + 1
    /\ requests' = [r \in RequestIds |-> IF requests[r] = NoRequest THEN NoRequest
                                         ELSE [NoRequest EXCEPT !.what = requests[r].what, !.st = "lost"]]
    /\ UNCHANGED <<providers, listed, cards, saving, saves, steady>>

(***************************************************************************)
(* Answers.                                                                *)
(***************************************************************************)
\* refresh: every card takes the new rows, over what is being edited.
Listed(r) ==
    /\ requests[r].what = "list" /\ requests[r].st = "done"
    /\ listed' = requests[r].rows /\ cards' = requests[r].rows
    /\ requests' = [requests EXCEPT ![r] = NoRequest]
    /\ UNCHANGED <<providers, boot, saving, saves, steady>>

Freed(r) == [k \in Kinds |-> IF saving[k] = r THEN 0 ELSE saving[k]]

\* Faulty variant: the card keeps its rows.
SavedOnly(r) ==
    /\ requests[r].what = "patch" /\ requests[r].st = "done"
    /\ saving' = Freed(r)
    /\ requests' = [requests EXCEPT ![r] = NoRequest]
    /\ UNCHANGED <<providers, boot, listed, cards, saves, steady>>

\* A notice, and onSaved lists the rows again.
Saved(r) ==
    /\ requests[r].what = "patch" /\ requests[r].st = "done"
    /\ saving' = Freed(r)
    /\ requests' = [requests EXCEPT ![r] =
                       IF \E k \in Kinds : saving[k] = r THEN ListRequest ELSE NoRequest]
    /\ UNCHANGED <<providers, boot, listed, cards, saves, steady>>

\* The answer or the request is lost, or the server fails: a notice.  A handler
\* that runs goes on, and the card can be saved again.
RequestFailed(r) ==
    /\ requests[r] # NoRequest
    /\ steady => requests[r].what = "patch" /\ requests[r].st = "sent"
    /\ saving' = Freed(r)
    /\ requests' = [requests EXCEPT ![r] = IF requests[r].st = "read" /\ Freed(r) # saving
                                           THEN requests[r] ELSE NoRequest]
    /\ UNCHANGED <<providers, boot, listed, cards, saves, steady>>

IntegrationsNext ==
    \/ \E k \in Kinds, c \in Config : EditCard(k, c) \/ SaveInOtherTab(k, c)
    \/ \E k \in Kinds : SaveCard(k)
    \/ Reopen \/ Reboot
    \/ \E r \in RequestIds :
        List(r) \/ UpsertReads(r) \/ UpsertWrites(r) \/ Listed(r) \/ Saved(r) \/ RequestFailed(r)

IntegrationsSpec == IntegrationsInit /\ [][IntegrationsNext]_integrationsVars

(***************************************************************************)
(* Properties.                                                             *)
(***************************************************************************)
Rows == {Unlisted} \cup [Kinds -> Config]

\* Every variable has its type, and the dialog never holds a key of a user that
\* it was not typed into: what is listed is masked.
IntegrationsTypeOK ==
    /\ providers \in [Kinds -> Config] /\ boot \in 0..MaxBoots
    /\ listed \in Rows /\ cards \in Rows /\ (cards = Unlisted <=> listed = Unlisted)
    /\ listed # Unlisted => \A k \in Kinds : listed[k].key \notin 1..MaxKey
    /\ saving \in [Kinds -> 0..MaxRequests]
    /\ requests \in [RequestIds -> [what : {"none", "list", "patch"},
                                    st : {"none", "sent", "read", "done", "lost"},
                                    kind : Kinds \cup {"none"}, body : Config,
                                    read : Config, rows : Rows]]
    /\ saves \in 0..MaxSaves /\ steady \in BOOLEAN

\* The mask that a process hands out never becomes a key itself, whatever is
\* saved again, at once or over a row that has changed since it was read.
MaskIsNoKey == \A k \in Kinds : providers[k].key # Sentinel

\* The cards show what is stored, each key as set or not, when the user waits
\* for one save before the next and nobody else saves; so a card that is not
\* dirty is tested with what it shows (onTest).
CardsAreStored ==
    /\ steady /\ listed # Unlisted /\ \A r \in RequestIds : requests[r] = NoRequest
    => \A k \in Kinds : listed[k] = Masked(providers[k])
=============================================================================
