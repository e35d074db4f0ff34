------------------------------- MODULE Profiles -------------------------------
(***************************************************************************)
(* The profile and the preferences of one user, and the panel in which the *)
(* user changes them (auth-panel.tsx of the client, driver-auth-panel.tsx  *)
(* of the driver, PATCH /me and /me/preferences of apps/api).  The panel   *)
(* sends all that it shows, also what the user did not touch; the API      *)
(* writes one row after the other without a transaction, and answers with  *)
(* what it then reads.                                                     *)
(***************************************************************************)
EXTENDS Sequences

CONSTANTS
    Locales, Themes,    \* preferences
    Details,            \* phone and city of a profile form; not the display name,
                        \* which every login takes from Telegram again
    SaveRequests        \* requests that may be in flight together

VARIABLES
    store,          \* the user's rows in the database
    panel,          \* what the panel shows, and its form
    saving,         \* requests: what they write, what is left to write, the answer
    savesAlone,     \* assumption: no two requests overlap, and none fails
    tab,            \* bound: what is changed, since the two share no row
    chosen          \* history: what the user has chosen last

profileVars == <<store, panel, saving, savesAlone, tab, chosen>>

Preferences == [locale : Locales, theme : Themes]
NoSave == [op |-> "idle", payload |-> "NONE", rows |-> <<>>, answer |-> "NONE"]
NotShown == [user |-> "NONE", form |-> "NONE", signedIn |-> FALSE]

\* The rows that a save writes, in this order.  The roles of the user are
\* CLIENT and DRIVER.
PreferenceRows == <<"userPreference", "user">>
ProfileRows == <<"phone", "clientProfile", "driverProfile">>

ProfilesInit ==
    /\ \E p \in Preferences :
           /\ store = [userPreference |-> p, user |-> p, phone |-> "NONE", clientProfile |-> "NONE",
                       driverProfile |-> "NONE"]
           /\ chosen = [preferences |-> p, details |-> "NONE"]
    /\ panel = NotShown
    /\ saving = [r \in SaveRequests |-> NoSave]
    /\ savesAlone \in BOOLEAN
    /\ tab \in {"preferences", "profile"}

SavesIdle == \A q \in SaveRequests : saving[q] = NoSave

\* serializeUser prefers the preferences to the user's own columns.
\* (mutant) it reads the columns
serializeUserColumns == store.user
serializeUser == store.userPreference

-----------------------------------------------------------------------------
\* The login writes the language of the Telegram account to the user's column, but
\* not to the preferences...
upsertAuthenticatedUser(language) == [store EXCEPT !.user.locale = language]

\* ... and answers with the user, which fills the form, too.
PanelLogin == \E language \in Locales :
    /\ ~panel.signedIn /\ (savesAlone => SavesIdle)
    /\ store' = upsertAuthenticatedUser(language)
    /\ panel' = [user |-> serializeUser', form |-> store.phone, signedIn |-> TRUE]
    /\ UNCHANGED <<saving, savesAlone, tab, chosen>>

PanelLogout ==
    /\ panel.signedIn /\ (savesAlone => SavesIdle)
    /\ panel' = NotShown
    /\ UNCHANGED <<store, saving, savesAlone, tab, chosen>>

EditForm(n) ==
    /\ tab = "profile" /\ panel.signedIn /\ panel.form # n
    /\ panel' = [panel EXCEPT !.form = n]
    /\ UNCHANGED <<store, saving, savesAlone, tab, chosen>>

SendSave(r, rows, payload) ==
    /\ panel.signedIn
    /\ saving[r] = NoSave /\ (savesAlone => SavesIdle)
    /\ saving' = [saving EXCEPT ![r] = [NoSave EXCEPT !.op = "write", !.payload = payload,
                                                      !.rows = rows]]
    /\ UNCHANGED <<store, panel, savesAlone, tab>>

ChooseLocale(r, l) ==
    /\ tab = "preferences"
    /\ SendSave(r, PreferenceRows, [panel.user EXCEPT !.locale = l])
    /\ chosen' = [chosen EXCEPT !.preferences.locale = l]

ChooseTheme(r, t) ==
    /\ tab = "preferences"
    /\ SendSave(r, PreferenceRows, [panel.user EXCEPT !.theme = t])
    /\ chosen' = [chosen EXCEPT !.preferences.theme = t]

SaveProfile(r) ==
    /\ tab = "profile"
    /\ SendSave(r, ProfileRows, panel.form)
    /\ chosen' = [chosen EXCEPT !.details = panel.form]

\* POST /me/accept-terms writes nothing of this, and its answer is shown, too.
AcceptTerms(r) == tab = "profile" /\ SendSave(r, <<>>, "NONE") /\ UNCHANGED chosen

-----------------------------------------------------------------------------
WriteRow(r) ==
    /\ saving[r].rows # <<>>
    /\ store' = [store EXCEPT ![Head(saving[r].rows)] = saving[r].payload]
    /\ saving' = [saving EXCEPT ![r].rows = Tail(@)]
    /\ UNCHANGED <<panel, savesAlone, tab, chosen>>

SaveAnswered(r) ==
    /\ saving[r].op = "write" /\ saving[r].rows = <<>>
    /\ saving' = [saving EXCEPT ![r] = [NoSave EXCEPT !.op = "answer", !.answer = serializeUser]]
    /\ UNCHANGED <<store, panel, savesAlone, tab, chosen>>

\* The panel shows the user of any answer, also after a logout.
ShowUser(r) ==
    /\ saving[r].op = "answer"
    /\ panel' = [panel EXCEPT !.user = saving[r].answer]
    /\ saving' = [saving EXCEPT ![r] = NoSave]
    /\ UNCHANGED <<store, savesAlone, tab, chosen>>

\* Rows that are written stay written.
SaveFails(r) ==
    /\ saving[r] # NoSave /\ ~savesAlone
    /\ saving' = [saving EXCEPT ![r] = NoSave]
    /\ UNCHANGED <<store, panel, savesAlone, tab, chosen>>

ProfilesNext ==
    \/ PanelLogin \/ PanelLogout
    \/ \E n \in Details : EditForm(n)
    \/ \E r \in SaveRequests :
           \/ \E l \in Locales : ChooseLocale(r, l)
           \/ \E t \in Themes : ChooseTheme(r, t)
           \/ SaveProfile(r) \/ AcceptTerms(r)
           \/ WriteRow(r) \/ SaveAnswered(r) \/ ShowUser(r) \/ SaveFails(r)

ProfilesSpec == ProfilesInit /\ [][ProfilesNext]_profileVars

-----------------------------------------------------------------------------
(* While saves neither overlap nor fail, every row that the answers read   *)
(* holds what the user has chosen last, a choice of the language leaves    *)
(* the theme alone and the other way round, and the panel shows what was   *)
(* chosen, whatever language a login brings.                               *)
ChoicesKept == savesAlone /\ SavesIdle =>
    /\ store.userPreference = chosen.preferences
    /\ store.user.theme = chosen.preferences.theme
    /\ \A row \in {"phone", "clientProfile", "driverProfile"} : store[row] = chosen.details
    /\ panel.user = (IF panel.signedIn THEN chosen.preferences ELSE "NONE")
=============================================================================
