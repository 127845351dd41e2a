----------------------------- MODULE PreferenceForms -----------------------------
(***************************************************************************)
(* The three forms that change settings kept elsewhere: meal and           *)
(* attendance notifications (on the server) and the settings of the PC app *)
(* (native).  Another device or the tray changes the same settings, the    *)
(* page reads them again in the background, a save goes on when its page   *)
(* is left, and the installed web app may reload the page for an update    *)
(* with an edit not yet saved.                                             *)
(***************************************************************************)
EXTENDS NoValue, Naturals

CONSTANTS
    MaxVersion,        \* bound: changes of the stored settings
    MaxSaves           \* bound: saves under way at once

VARIABLES
    form,              \* which of the forms this is
    store,             \* where the settings are kept: [value, version]
    open,              \* is the form's page shown?
    known,             \* the query's data
    loadFailed,        \* its last answer was an error
    reading,           \* its request: [step, answer]
    draft,             \* the edited value: [value, base], or none
    saves,             \* the requests that save: [step, value, owned] or NoSave
    saved,             \* the message after the save: "none", "saved", "failed"
    stored,            \* the session storage's draft: [base, value]
    reload,            \* the reload for an update: "none" or "prepared"
    kept               \* history: the input on screen when it was prepared: [value, version,
                       \* cleared]; cleared: a save of an earlier page removed the stored draft

formVars == <<form, store, open, known, loadFailed, reading, draft, saves, saved, stored, reload,
              kept>>

\* enabled stands for a switch, detail for a choice that only an enabled form offers.
Values == [enabled : BOOLEAN, detail : BOOLEAN]
Entries == [value : Values, version : 0..MaxVersion]
Drafts == [base : Entries, value : Values]
Inputs == [value : Values, version : 0..MaxVersion, cleared : BOOLEAN]
Slots == 1..MaxSaves

ASSUME PreferenceFormsAssumption ==
    /\ {MaxVersion, MaxSaves} \subseteq Nat
    /\ None \notin Values \union Entries \union Drafts \union Inputs

Entry(value, version) == [value |-> value, version |-> version]
NotReading == [step |-> "none", answer |-> None]
ReadAsked == [step |-> "asked", answer |-> None]
NoSave == [step |-> "none", value |-> None, owned |-> FALSE]

\* The form knows only of a save it began since it was opened.
Saving == \E s \in Slots : saves[s].owned
CurrentInput == IF draft # None THEN draft.value ELSE known.value
Dirty == known # None /\ draft # None /\ draft.value # known.value

\* The draft the meal editor begins with: the stored one if it was made over just
\* these preferences; any other is thrown away.
ReadDraft(preferences) ==
    IF stored = None THEN preferences
    ELSE IF stored.base = preferences THEN Entry(stored.value, preferences.version)
    ELSE preferences
StoredAfterRead(preferences) ==
    IF stored = None THEN None ELSE IF stored.base = preferences THEN stored ELSE None

\* The editor is made anew for every version of the preferences.
EditorKept(data) == draft = None
EditorAnew(data) == IF draft = None THEN TRUE ELSE known.version # data.version
EditorMounts(data) ==
    IF form = "meals" /\ EditorAnew(data)
    THEN draft' = ReadDraft(data) /\ stored' = StoredAfterRead(data)
    ELSE UNCHANGED <<draft, stored>>

FormInit ==
    /\ form \in {"meals", "attendance", "settings"}
    /\ store = Entry([enabled |-> TRUE, detail |-> FALSE], 0)
    /\ open = TRUE /\ known = None /\ loadFailed = FALSE /\ reading = ReadAsked
    /\ draft = None /\ saves = [s \in Slots |-> NoSave] /\ saved = "none" /\ stored = None
    /\ reload = "none" /\ kept = None

\* The query: asked on mount, focus, an interval; answered; taken over.
Refetch ==
    /\ open /\ reading.step = "none"
    /\ reading' = ReadAsked
    /\ UNCHANGED <<form, store, open, known, loadFailed, draft, saves, saved, stored, reload, kept>>

Answer ==
    /\ reading.step = "asked"
    /\ reading' = [step |-> "answered", answer |-> store]
    /\ UNCHANGED <<form, store, open, known, loadFailed, draft, saves, saved, stored, reload, kept>>

ValueLoaded ==
    /\ reading.step = "answered"
    /\ known' = reading.answer /\ loadFailed' = FALSE /\ reading' = NotReading
    /\ IF open THEN EditorMounts(reading.answer) ELSE UNCHANGED <<draft, stored>>
    /\ kept' = IF kept = None THEN None
               ELSE IF kept.version = reading.answer.version THEN kept ELSE None
    /\ UNCHANGED <<form, store, open, saves, saved, reload>>

LoadFails ==
    /\ reading.step # "none"
    /\ loadFailed' = TRUE /\ reading' = NotReading
    /\ UNCHANGED <<form, store, open, known, draft, saves, saved, stored, reload, kept>>

\* What the form shows: loading, an error, or the controls.
Content ==
    IF known = None THEN IF loadFailed THEN "error" ELSE "loading"
    ELSE IF form = "attendance" /\ loadFailed THEN "error"
    ELSE "loaded"

Editable(field) ==
    /\ open /\ Content = "loaded" /\ ~Saving
    /\ field = "enabled" \/ CurrentInput.enabled \/ form = "settings"

Changed(value, field) ==
    IF field = "enabled" THEN [value EXCEPT !.enabled = ~@] ELSE [value EXCEPT !.detail = ~@]

\* An edit of the draft.  The switches of the PC's settings are saved at once.
Edit(field) ==
    /\ Editable(field) /\ ~ (form = "settings" /\ field = "enabled")
    /\ draft' = Entry(Changed(CurrentInput, field),
                      IF draft # None THEN draft.version ELSE known.version)
    /\ saved' = IF form = "meals" THEN "none" ELSE saved
    /\ kept' = None
    /\ UNCHANGED <<form, store, open, known, loadFailed, reading, saves, stored, reload>>

\* Only a save this page began since it was opened holds up another.
Send(value) ==
    /\ ~Saving
    /\ \E s \in Slots :
          /\ saves[s] = NoSave /\ \A r \in Slots : r < s => saves[r] # NoSave
          /\ saves' = [saves EXCEPT ![s] = [step |-> "sent", value |-> value, owned |-> TRUE]]
    /\ saved' = IF form = "meals" THEN saved ELSE "none"
    /\ kept' = None
    /\ UNCHANGED <<form, store, open, known, loadFailed, reading, draft, stored, reload>>

\* The whole draft is sent; of the PC's settings, the loaded value with the choice.
SaveDraft ==
    /\ open /\ Content = "loaded" /\ Dirty
    /\ Send(IF form = "settings" THEN [known.value EXCEPT !.detail = draft.value.detail]
                                 ELSE draft.value)

\* Turning the diagnostics on asks first; the answer is the same toggle.
Toggle ==
    /\ form = "settings" /\ Editable("enabled")
    /\ Send(Changed(known.value, "enabled"))

\* What was sent is of no use to a save without an answer.
SaveLost(s) == [saves[s] EXCEPT !.step = "failed", !.value = None]

StoreSaves(s, lost) ==
    /\ saves[s].step = "sent" /\ store.version < MaxVersion
    /\ LET entry == Entry(saves[s].value, store.version + 1)
       IN /\ store' = entry
          /\ saves' = [saves EXCEPT ![s] = IF lost THEN SaveLost(s)
                                           ELSE [@ EXCEPT !.step = "answered", !.value = entry]]
    /\ UNCHANGED <<form, open, known, loadFailed, reading, draft, saved, stored, reload, kept>>

SaveRefused(s) ==
    /\ saves[s].step = "sent"
    /\ saves' = [saves EXCEPT ![s] = SaveLost(s)]
    /\ UNCHANGED <<form, store, open, known, loadFailed, reading, draft, saved, stored, reload,
                   kept>>

\* The editor is made anew for the page that saved, as it is for another version; a page
\* the save was not begun on keeps what is on its screen.
MealEditorAnew(s) == saves[s].owned \/ EditorAnew(saves[s].value)
KeptAfter(s) ==
    IF kept = None \/ saves[s].owned THEN None
    ELSE IF kept.version # saves[s].value.version THEN None
    ELSE [kept EXCEPT !.cleared = TRUE]

\* The answer of the save is the new value, and is read again.  The form that sent
\* it lets go of its draft (the settings only of the choice this save made); the
\* stored draft of the meals is removed in any case.
SaveSucceeds(s) ==
    /\ saves[s].step = "answered"
    /\ known' = saves[s].value /\ loadFailed' = FALSE
    /\ saves' = [saves EXCEPT ![s] = NoSave]
    /\ saved' = IF saves[s].owned THEN "saved" ELSE saved
    /\ reading' = IF open THEN ReadAsked ELSE reading
    /\ stored' = IF form = "meals" THEN None ELSE stored
    /\ draft' = CASE form = "meals" /\ open /\ MealEditorAnew(s) -> saves[s].value
                  [] form = "attendance" /\ saves[s].owned -> None
                  [] form = "settings" /\ saves[s].owned /\ draft # None ->
                        IF draft.value.detail = saves[s].value.value.detail THEN None ELSE draft
                  [] OTHER -> draft
    /\ kept' = KeptAfter(s)
    /\ UNCHANGED <<form, store, open, reload>>

SaveFails(s) ==
    /\ saves[s].step = "failed"
    /\ saves' = [saves EXCEPT ![s] = NoSave]
    /\ saved' = IF saves[s].owned THEN "failed" ELSE saved
    /\ reading' = IF form # "meals" /\ open THEN ReadAsked ELSE reading
    /\ UNCHANGED <<form, store, open, known, loadFailed, draft, stored, reload, kept>>

\* The user leaves the page and comes back: the draft was the page's, the saves go on.
LeavePage ==
    /\ open
    /\ open' = FALSE /\ draft' = None /\ saved' = "none" /\ kept' = None
    /\ saves' = [s \in Slots |-> [saves[s] EXCEPT !.owned = FALSE]]
    /\ UNCHANGED <<form, store, known, loadFailed, reading, stored, reload>>

Return ==
    /\ ~open
    /\ open' = TRUE
    /\ reading' = IF reading.step = "none" THEN ReadAsked ELSE reading
    /\ IF known # None THEN EditorMounts(known) ELSE UNCHANGED <<draft, stored>>
    /\ UNCHANGED <<form, store, known, loadFailed, saves, saved, reload, kept>>

\* Another device, the tray or the synchronisation changes the settings.
OtherChange(value) ==
    /\ store.version < MaxVersion
    /\ store' = Entry(value, store.version + 1)
    /\ UNCHANGED <<form, open, known, loadFailed, reading, draft, saves, saved, stored, reload,
                   kept>>

\* An update of the web app: what the forms registered for it is saved.
PreserveDraft ==
    IF form = "meals" /\ open /\ known # None
    THEN stored' = IF Dirty THEN [base |-> known, value |-> draft.value] ELSE None
    ELSE UNCHANGED stored

PrepareReload ==
    /\ reload = "none" /\ form # "settings"
    /\ reload' = "prepared"
    /\ PreserveDraft
    /\ kept' = IF form = "meals" /\ open /\ Dirty
               THEN [value |-> draft.value, version |-> known.version, cleared |-> FALSE]
               ELSE None
    /\ UNCHANGED <<form, store, open, known, loadFailed, reading, draft, saves, saved>>

ReloadGivenUp ==
    /\ reload = "prepared"
    /\ reload' = "none" /\ kept' = None
    /\ UNCHANGED <<form, store, open, known, loadFailed, reading, draft, saves, saved, stored>>

PageReloads ==
    /\ reload = "prepared"
    /\ reload' = "none"
    /\ known' = None /\ loadFailed' = FALSE /\ draft' = None
    /\ reading' = IF open THEN ReadAsked ELSE NotReading
    /\ saves' = [s \in Slots |-> NoSave] /\ saved' = "none"
    /\ UNCHANGED <<form, store, open, stored, kept>>

FormNext ==
    \/ Refetch \/ Answer \/ ValueLoaded \/ LoadFails
    \/ \E field \in {"enabled", "detail"} : Edit(field)
    \/ SaveDraft \/ Toggle
    \/ \E s \in Slots : \/ \E lost \in BOOLEAN : StoreSaves(s, lost)
                        \/ SaveRefused(s) \/ SaveSucceeds(s) \/ SaveFails(s)
    \/ LeavePage \/ Return
    \/ \E value \in Values : OtherChange(value)
    \/ PrepareReload \/ ReloadGivenUp \/ PageReloads

FormSpec == FormInit /\ [][FormNext]_formVars

--------------------------------------------------------------------------------
\* A request for the settings, and one that saves them; what it carries depends on its step.
Readings == [step : {"none", "asked"}, answer : {None}]
                \union [step : {"answered"}, answer : Entries]
Saves == {NoSave} \union [step : {"sent"}, value : Values, owned : BOOLEAN]
                 \union [step : {"answered"}, value : Entries, owned : BOOLEAN]
                 \union [step : {"failed"}, value : {None}, owned : BOOLEAN]

(* Every variable stays within the values the code can hold.                *)
FormTypeOK ==
    /\ form \in {"meals", "attendance", "settings"} /\ store \in Entries
    /\ open \in BOOLEAN /\ loadFailed \in BOOLEAN
    /\ known \in Entries \union {None} /\ draft \in Entries \union {None}
    /\ kept \in Inputs \union {None}
    /\ stored \in Drafts \union {None} /\ reading \in Readings /\ saves \in [Slots -> Saves]
    /\ saved \in {"none", "saved", "failed"} /\ reload \in {"none", "prepared"}

(* The meal form never holds a draft made over preferences other than the   *)
(* ones it shows: what another device changed meanwhile, or before a reload *)
(* restored an old draft, is not overwritten unseen.                        *)
MealDraftOverCurrent ==
    form = "meals" /\ open /\ known # None => draft # None /\ draft.version = known.version

InputRestored == kept # None /\ reload = "none" /\ open /\ known # None

(* Meal preferences typed when an update was applied are there again after  *)
(* the reload, if the stored ones are still the same; but not if a save      *)
(* begun before the page was left ended meanwhile, for it removes the draft  *)
(* of the page that is there now.                                            *)
MealInputSurvivesReload ==
    form = "meals" /\ InputRestored => CurrentInput = kept.value \/ kept.cleared

(* The meal form edits the preferences it shows and no older ones, and what  *)
(* was typed before an update's reload is there after it.                    *)
MealInputIsKept == MealDraftOverCurrent /\ MealInputSurvivesReload
================================================================================
