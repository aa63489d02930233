---------------------------- MODULE ProfileRouter ----------------------------
(***************************************************************************)
(* Which profile is open: the login window, the settings window, the       *)
(* questions they ask, and the handlers that open, leave, delete and reset *)
(* profiles.                                                               *)
(* (src/mdlogger/profile_router.py, the AuthWindow of ui/account_views.py, *)
(* switch_profile and its neighbours in app_controller.py, the state file  *)
(* of profiles.py, the start in app.py.)                                   *)
(*                                                                         *)
(* All of it runs on the UI thread, but a dialog runs an event loop inside *)
(* the handler that opened it, and the answers of the account service      *)
(* arrive in whatever loop runs.  The handlers that have begun are a       *)
(* stack: a frame waits for the user, or is code that runs now.  A crash   *)
(* may come between any two frames.  How SessionManager works is in        *)
(* Sessions, how a reset moves files in LocalReset.                        *)
(***************************************************************************)
EXTENDS Naturals, Sequences, FiniteSets

CONSTANTS
    Accounts,
    Guest,        \* the guest profile
    Nobody,       \* no profile, no account
    Requests      \* the threads of _run_async

ASSUME RouterAssumption == Guest # Nobody /\ {Guest, Nobody} \cap Accounts = {}

VARIABLES
    app,       \* is it running, was a remote configuration found, is an
               \* update being installed, did a reset fail beyond recovery
    profile,   \* current_profile of the AppController
    store,     \* profiles.json, and the copy ProfileManager works with
    keyring,   \* accounts with a stored refresh token
    session,   \* the account of SessionManager, and whether it is signed in
    auth,      \* the login window
    stack,     \* the handlers that have begun, the running one last
    pending,   \* what a request asks, and whether its generation is current
    confirmed  \* history: accounts whose sign-in was completed here

routerVars == <<app, profile, store, keyring, session, auth, stack, pending, confirmed>>

Profiles == Accounts \cup {Guest, Nobody}

\* What a reset leaves, and a first start finds.
FreshState == [consent |-> FALSE, last |-> Nobody, out |-> FALSE, known |-> {}]

NothingAsked == [kind |-> "none", current |-> FALSE]
NoSession == [account |-> Nobody, live |-> FALSE]
ClosedAuth == [visible |-> FALSE, page |-> "login", busy |-> FALSE, resending |-> FALSE]

RouterInit ==
    /\ app = [on |-> FALSE, online |-> FALSE, update |-> FALSE, sealed |-> FALSE]
    /\ profile = Nobody
    /\ store = [disk |-> FreshState, mem |-> FreshState]
    /\ keyring = {} /\ confirmed = {}
    /\ session = NoSession
    /\ auth = ClosedAuth
    /\ stack = <<>>
    /\ pending = [r \in Requests |-> NothingAsked]

-----------------------------------------------------------------------------
(* The stack of handlers.                                                  *)

\* Frames of code; the others are windows that wait for the user.
Code == {"open", "enter", "activate", "signed", "restore", "return", "show", "seal"}

\* Windows of the main window: closing the profile destroys them.
OfMain == {"settings", "reset", "everywhere", "delete"}

Frame(what, account) ==
    [what |-> what, account |-> account, previous |-> Nobody, alive |-> TRUE]

Top == stack[Len(stack)]
Below == SubSeq(stack, 1, Len(stack) - 1)
Runs(what) == stack # <<>> /\ Top.what = what
Waits(what) == Runs(what) /\ Top.alive

\* An event loop runs: answers are taken, in a dialog as well.
Looping == app.on /\ (stack # <<>> => Top.what \notin Code)

Orphaned(frames) ==
    [i \in DOMAIN frames |->
        IF frames[i].what \in OfMain THEN [frames[i] EXCEPT !.alive = FALSE]
        ELSE frames[i]]

Notice == Frame("notice", Nobody)
Show == Frame("show", Nobody)

-----------------------------------------------------------------------------
(* The state file: _write_state may fail before the file is replaced or    *)
(* after; the copy in memory is changed only when it did not.              *)

Saves(s) == store' = [disk |-> s, mem |-> s]
SaveFails(s) == store' \in {store, [store EXCEPT !.disk = s]}

\* (A slip: the account is not added to those with a token.)
RememberedLast(p, out) == [store.mem EXCEPT !.last = p, !.out = out]

\* remember_profile
Remembered(p, out) ==
    [store.mem EXCEPT !.last = p, !.out = out,
                      !.known = @ \cup (Accounts \cap {p})]

\* switch_profile: the database is prepared before the old profile is closed.
SwitchTo(p, out, then) ==
    /\ profile' = p
    /\ Saves(Remembered(p, out))
    /\ stack' = Orphaned(Below) \o then

SwitchFails(p, out, then) ==
    \/ stack' = Below \o then /\ UNCHANGED <<profile, store>>
    \/ /\ profile' = Nobody
       /\ Saves(Remembered(p, out)) \/ SaveFails(Remembered(p, out))
       /\ stack' = Orphaned(Below) \o then

\* A new generation: what is under way no longer counts.
Forgotten == [r \in Requests |-> [pending[r] EXCEPT !.current = FALSE]]

\* (A slip: the form stays disabled.)
ShowAuthAsItWas ==
    IF app.update THEN UNCHANGED <<auth, pending>>
    ELSE /\ pending' = Forgotten
         /\ auth' = [auth EXCEPT !.visible = TRUE, !.page = "login"]

\* show_auth; the button that sends the mail again is not enabled here.
ShowAuth ==
    IF app.update THEN UNCHANGED <<auth, pending>>
    ELSE /\ pending' = Forgotten
         /\ auth' = [auth EXCEPT !.visible = TRUE, !.page = "login", !.busy = FALSE]

-----------------------------------------------------------------------------
(* Code that runs.                                                         *)

\* _open_profile, as the last thing a handler does.
Open ==
    /\ Runs("open")
    /\ \/ SwitchTo(Top.account, FALSE, <<>>)
       \/ SwitchFails(Top.account, FALSE,
            <<Show, [Frame("restore", Nobody) EXCEPT !.previous = profile]>>)
    /\ UNCHANGED <<app, keyring, session, auth, pending, confirmed>>

\* _open_profile(pending_activation=True): the state says signed out until
\* the session is stored.
Enter ==
    /\ Runs("enter")
    /\ \/ SwitchTo(Top.account, TRUE,
            <<[Frame("activate", Top.account) EXCEPT !.previous = profile]>>)
       \/ SwitchFails(Top.account, TRUE,
            <<Show, [Frame("restore", Nobody) EXCEPT !.previous = profile]>>)
    /\ UNCHANGED <<app, keyring, session, auth, pending, confirmed>>

\* activate: when it fails, nobody knows whether the token is stored.
Activate ==
    /\ Runs("activate")
    /\ \/ /\ keyring' = keyring \cup {Top.account}
          /\ session' = [account |-> Top.account, live |-> TRUE]
          /\ confirmed' = confirmed \cup {Top.account}
          /\ stack' = Append(Below, Frame("signed", Top.account))
       \/ /\ keyring' \in {keyring, keyring \cup {Top.account}}
          /\ stack' = Below \o
                <<Show, [Frame("restore", Nobody) EXCEPT !.previous = Top.previous]>>
          /\ UNCHANGED <<session, confirmed>>
    /\ UNCHANGED <<app, profile, store, auth, pending>>

\* set_session_state("authenticated") and the end of the sign-in.
Signed ==
    /\ Runs("signed")
    /\ LET s == [store.mem EXCEPT !.out = FALSE] IN
       \/ Saves(s) /\ stack' = Below
       \/ SaveFails(s) /\ stack' = Append(Below, Notice)
    /\ auth' = [auth EXCEPT !.visible = FALSE]
    /\ UNCHANGED <<app, profile, keyring, session, pending, confirmed>>

\* _restore_after_activation_failure
Restore ==
    /\ Runs("restore")
    /\ LET previous == Top.previous return == <<Frame("return", Nobody)>> IN
       IF previous = Nobody
       THEN stack' = Below \o return /\ UNCHANGED <<profile, store>>
       ELSE \/ SwitchTo(previous, FALSE, <<>>)
            \/ SwitchFails(previous, FALSE, return)
    /\ UNCHANGED <<app, keyring, session, auth, pending, confirmed>>

\* _return_to_login: whatever fails, the login window is shown.
Return ==
    /\ Runs("return")
    /\ LET s == [store.mem EXCEPT !.out = TRUE] IN Saves(s) \/ SaveFails(s)
    /\ profile' = Nobody
    /\ stack' = Orphaned(Below)
    /\ ShowAuth
    /\ UNCHANGED <<app, keyring, session, confirmed>>

ShowLogin ==
    /\ Runs("show") /\ stack' = Below /\ ShowAuth
    /\ UNCHANGED <<app, profile, store, keyring, session, confirmed>>

\* A reset that cannot be recovered: the login window takes no more input.
Seal ==
    /\ Runs("seal") /\ stack' = Below
    /\ pending' = Forgotten
    /\ auth' = [auth EXCEPT !.visible = TRUE, !.page = "login", !.busy = TRUE]
    /\ UNCHANGED <<app, profile, store, keyring, session, confirmed>>

-----------------------------------------------------------------------------
(* Signing in.                                                             *)

\* _finish_registered_sign_in after the consent: the guest's records, if
\* there are some, and then the profile.
Choose(frames, a) ==
    \/ profile = Guest /\ stack' = Append(frames, Frame("choice", a))
    \/ stack' = Append(frames, Frame("enter", a))

\* _ensure_consent
Proceed(frames, a) ==
    IF store.mem.consent THEN Choose(frames, a)
    ELSE stack' = Append(frames, Frame("consent", a))

MayUse(window) == app.on /\ stack = <<>> /\ window

\* The login window has no modal dialog over it, and its form is enabled.
FormEnabled == MayUse(auth.visible) /\ ~auth.busy

\* _start_sign_in, _start_sign_up, _start_password_reset
Submit(r) ==
    /\ FormEnabled /\ app.online /\ ~app.update
    /\ pending[r] = NothingAsked
    /\ \/ /\ auth.page # "verify"
          /\ pending' = [pending EXCEPT ![r] = [kind |-> "sign", current |-> TRUE]]
       \/ /\ auth.page = "login"
          /\ pending' = [pending EXCEPT ![r] = [kind |-> "mail", current |-> TRUE]]
    /\ auth' = [auth EXCEPT !.busy = TRUE]
    /\ UNCHANGED <<app, profile, store, keyring, session, stack, confirmed>>

\* _start_resend_verification
Resend(r) ==
    /\ MayUse(auth.visible) /\ auth.page = "verify" /\ ~auth.resending
    /\ app.online /\ ~app.update
    /\ pending[r] = NothingAsked
    /\ pending' = [pending EXCEPT ![r] = [kind |-> "resend", current |-> TRUE]]
    /\ auth' = [auth EXCEPT !.resending = TRUE]
    /\ UNCHANGED <<app, profile, store, keyring, session, stack, confirmed>>

\* poll: the request has ended; only the current generation hears of it.
Complete(r) ==
    /\ Looping /\ pending[r] # NothingAsked
    /\ pending' = [pending EXCEPT ![r] = NothingAsked]
    /\ IF ~pending[r].current THEN UNCHANGED <<auth, stack>>
       ELSE IF pending[r].kind = "resend"
            THEN auth' = [auth EXCEPT !.resending = FALSE] /\ UNCHANGED stack
       ELSE \/ /\ auth' = [auth EXCEPT !.busy = FALSE] /\ UNCHANGED stack
            \/ /\ pending[r].kind = "sign"
               /\ auth' = [auth EXCEPT !.busy = FALSE, !.page = "verify"]
               /\ UNCHANGED stack
            \/ /\ pending[r].kind = "sign"
               /\ auth' = [auth EXCEPT !.busy = FALSE]
               /\ \E a \in Accounts : Proceed(stack, a)
    /\ UNCHANGED <<app, profile, store, keyring, session, confirmed>>

\* The buttons that change the page: show_login, show_signup.
Turn ==
    /\ MayUse(auth.visible) /\ ~app.sealed
    /\ \/ auth.page = "verify" /\ auth' = [auth EXCEPT !.page = "login"]
       \/ /\ ~auth.busy /\ app.online /\ auth.page # "verify"
          /\ auth' = [auth EXCEPT !.page = IF @ = "login" THEN "signup" ELSE "login"]
    /\ UNCHANGED <<app, profile, store, keyring, session, stack, pending, confirmed>>

\* request_guest
GuestAgreed(frames) ==
    /\ auth' = [auth EXCEPT !.visible = FALSE]
    /\ stack' = Append(frames, Frame("open", Guest))

ContinueAsGuest ==
    /\ FormEnabled /\ auth.page # "verify" /\ ~app.update
    /\ IF store.mem.consent THEN GuestAgreed(stack)
       ELSE stack' = Append(stack, Frame("consent", Guest)) /\ UNCHANGED auth
    /\ UNCHANGED <<app, profile, store, keyring, session, pending, confirmed>>

\* accept_data_consent; a failure is shown in the login window.
Consent ==
    /\ Waits("consent")
    /\ LET s == [store.mem EXCEPT !.consent = TRUE] a == Top.account IN
       \/ stack' = Below /\ UNCHANGED <<store, auth>>
       \/ SaveFails(s) /\ stack' = Below /\ UNCHANGED auth
       \/ /\ Saves(s)
          /\ IF a = Guest THEN GuestAgreed(Below)
             ELSE Choose(Below, a) /\ UNCHANGED auth
    /\ UNCHANGED <<app, profile, keyring, session, pending, confirmed>>

\* The records are kept, imported, or left for later; the import may fail.
Choice ==
    /\ Waits("choice")
    /\ stack' \in {Below, Append(Below, Frame("enter", Top.account)),
                   Append(Below, Notice),
                   Below \o <<Frame("enter", Top.account), Notice>>}
    /\ UNCHANGED <<app, profile, store, keyring, session, auth, pending, confirmed>>

\* closeEvent of the login window; without a profile it was the last window.
CloseAuth ==
    /\ MayUse(auth.visible) /\ profile # Nobody
    /\ auth' = [auth EXCEPT !.visible = FALSE]
    /\ pending' = Forgotten
    /\ UNCHANGED <<app, profile, store, keyring, session, stack, confirmed>>

-----------------------------------------------------------------------------
(* The settings window.                                                    *)

OpenSettings ==
    /\ MayUse(profile # Nobody) /\ ~app.update
    /\ stack' = <<Frame("settings", profile)>>
    /\ UNCHANGED <<app, profile, store, keyring, session, auth, pending, confirmed>>

\* A window is closed, a box read, or what is destroyed returns.
Dismiss ==
    /\ stack # <<>>
    /\ \/ Top.what \in {"settings", "reset", "everywhere", "delete", "notice"}
       \/ Top.what \notin Code /\ ~Top.alive
    /\ stack' = Below
    /\ UNCHANGED <<app, profile, store, keyring, session, auth, pending, confirmed>>

\* _open_auth_from_account
Login ==
    /\ Waits("settings") /\ stack' = Below /\ ShowAuth
    /\ UNCHANGED <<app, profile, store, keyring, session, confirmed>>

\* SessionManager._end_session
Ended(a) == IF session.account = a THEN NoSession ELSE session

\* (A slip: an update does not hold it back.)
LogoutAnytime ==
    /\ Waits("settings") /\ profile \in Accounts
    /\ session' = Ended(profile) /\ keyring' = keyring \ {profile}
    /\ stack' = Append(Below, Frame("return", Nobody))
    /\ UNCHANGED <<app, profile, store, auth, pending, confirmed>>

\* _logout_from_dialog: the session ends before the token is deleted.
Logout ==
    /\ Waits("settings") /\ ~app.update /\ profile \in Accounts
    /\ IF ~app.online
       THEN stack' = Append(Below, Frame("return", Nobody)) /\ UNCHANGED <<keyring, session>>
       ELSE /\ session' = Ended(profile)
            /\ \/ keyring' = keyring \ {profile} /\ stack' = Append(Below, Frame("return", Nobody))
               \/ stack' = Append(stack, Notice) /\ UNCHANGED keyring
    /\ UNCHANGED <<app, profile, store, auth, pending, confirmed>>

\* The questions; those of an account only where one is registered.
AskAccount(what) ==
    /\ Waits("settings") /\ ~app.update /\ app.online /\ Top.account \in Accounts
    /\ stack' = Append(stack, Frame(what, Top.account))
    /\ UNCHANGED <<app, profile, store, keyring, session, auth, pending, confirmed>>

AskReset ==
    /\ Waits("settings")
    /\ stack' = Append(stack, Frame("reset", Top.account))
    /\ UNCHANGED <<app, profile, store, keyring, session, auth, pending, confirmed>>

UnderSettings == SubSeq(stack, 1, Len(stack) - 2)   \* below the settings window

\* sign_out_all_devices and delete_account of SessionManager: refused, or
\* the session ends and its token is deleted or not.
EndEverywhere(then) ==
    \/ stack' = Append(Below, Notice) /\ UNCHANGED <<keyring, session>>
    \/ /\ session.live /\ session' = NoSession
       /\ \/ keyring' = keyring \ {session.account} /\ stack' = UnderSettings \o then
          \/ stack' \in {Below, Append(Below, Notice)} /\ UNCHANGED keyring

\* _sign_out_all_devices: the login window, and then what was done.
SignOutEverywhere ==
    /\ Waits("everywhere")
    /\ EndEverywhere(<<Notice, Frame("return", Nobody)>>)
    /\ UNCHANGED <<app, profile, store, auth, pending, confirmed>>

\* _delete_account: what was done, and then the login window.
DeleteAccount ==
    /\ Waits("delete")
    /\ EndEverywhere(<<Frame("return", Nobody), Notice>>)
    /\ UNCHANGED <<app, profile, store, auth, pending, confirmed>>

-----------------------------------------------------------------------------
(* _reset_application.                                                     *)

\* The accounts whose tokens are deleted.
CredentialAccounts == store.mem.known \cup (Accounts \cap {profile})

\* The worker does not stop, or closing the profile fails on the way.
ResetHeld ==
    /\ Waits("reset") /\ ~app.update
    /\ \/ stack' = Append(Below, Notice) /\ UNCHANGED profile
       \/ stack' = Append(Orphaned(Below), Notice) /\ profile' = Nobody
    /\ UNCHANGED <<app, store, keyring, session, auth, pending, confirmed>>

ResetClosed ==
    /\ Waits("reset") /\ ~app.update
    /\ profile' = Nobody
    /\ pending' = Forgotten
    /\ session' = Ended(profile)
    /\ UNCHANGED <<auth, confirmed>>

\* _clear_known_credentials stops at the first token it cannot delete.
ResetUncleared ==
    /\ ResetClosed
    /\ \E cleared \in SUBSET CredentialAccounts : keyring' = keyring \ cleared
    /\ stack' = Orphaned(Below) \o <<Show, Notice>>
    /\ UNCHANGED <<app, store>>

\* The data are replaced, or, after an error, recovered to what they were or
\* to what they should be, or left to the next start.
ResetCleared ==
    /\ ResetClosed
    /\ keyring' = keyring \ CredentialAccounts
    /\ \E disk \in {store.disk, FreshState} :
       LET recovered == [disk |-> disk, mem |-> disk] IN
       \/ /\ disk = FreshState /\ store' = recovered
          /\ stack' = Append(Orphaned(Below), Show)
          /\ UNCHANGED app
       \/ /\ store' = recovered
          /\ stack' = Orphaned(Below) \o <<Show, Notice>>
          /\ UNCHANGED app
       \/ /\ store' = [store EXCEPT !.disk = disk]
          /\ app' = [app EXCEPT !.sealed = TRUE]
          /\ stack' = Orphaned(Below) \o <<Frame("seal", Nobody), Notice>>

Reset == ResetUncleared \/ ResetCleared

-----------------------------------------------------------------------------
(* The start and the end of the program, the update, the sync worker.      *)

\* start and _restore_registered: the last profile, if it may be opened
\* without a login; the session decides whether the login is shown over it.
Restored(a, online) ==
    \/ ~online /\ stack' = <<Frame("open", a)>> /\ UNCHANGED <<session, keyring>>
    \/ /\ online /\ stack' = <<Frame("open", a)>> /\ UNCHANGED keyring
       /\ \E live \in BOOLEAN : /\ live => a \in keyring
                                /\ session' = [account |-> a, live |-> live]
    \/ /\ online /\ stack' = <<Show, Frame("open", a)>>
       /\ keyring' \in {keyring, keyring \ {a}}
       /\ session' = [account |-> a, live |-> FALSE]

Start ==
    /\ ~app.on
    /\ \E online \in BOOLEAN :
       LET s == store.disk IN
       /\ app' = [on |-> TRUE, online |-> online, update |-> FALSE, sealed |-> FALSE]
       /\ \/ /\ s.last = Nobody \/ ~s.consent \/ (s.last \in Accounts /\ s.out)
             /\ stack' = <<Show>> /\ UNCHANGED <<session, keyring>>
          \/ /\ s.last = Guest /\ s.consent
             /\ stack' = <<Frame("open", Guest)>> /\ UNCHANGED <<session, keyring>>
          \/ s.last \in Accounts /\ s.consent /\ ~s.out /\ Restored(s.last, online)
    /\ store' = [store EXCEPT !.mem = store.disk]
    /\ UNCHANGED <<profile, auth, pending, confirmed>>

\* The program ends, at any point.
Stop ==
    /\ app.on
    /\ app' = [on |-> FALSE, online |-> FALSE, update |-> FALSE, sealed |-> FALSE]
    /\ profile' = Nobody
    /\ session' = NoSession
    /\ auth' = ClosedAuth
    /\ stack' = <<>>
    /\ pending' = [r \in Requests |-> NothingAsked]
    /\ store' = [store EXCEPT !.mem = store.disk]
    /\ UNCHANGED <<keyring, confirmed>>

\* ready_for_update and begin_update: no request and no dialog, except the
\* settings window.
BeginUpdate ==
    /\ Looping /\ ~app.update
    /\ \A r \in Requests : pending[r] = NothingAsked
    /\ \A i \in DOMAIN stack : stack[i].what = "settings"
    /\ app' = [app EXCEPT !.update = TRUE]
    /\ UNCHANGED <<profile, store, keyring, session, auth, stack, pending, confirmed>>

EndUpdate ==
    /\ app.update /\ app' = [app EXCEPT !.update = FALSE]
    /\ UNCHANGED <<profile, store, keyring, session, auth, stack, pending, confirmed>>

\* A refresh of the sync worker of the open profile.
Refreshed ==
    /\ profile \in Accounts /\ session.account = profile
    /\ \/ /\ \E live \in BOOLEAN : /\ live => profile \in keyring
                                   /\ session' = [session EXCEPT !.live = live]
          /\ UNCHANGED keyring
       \/ session' = [session EXCEPT !.live = FALSE] /\ keyring' = keyring \ {profile}
    /\ UNCHANGED <<app, profile, store, auth, stack, pending, confirmed>>

Running == Open \/ Enter \/ Activate \/ Signed \/ Restore \/ Return \/ ShowLogin \/ Seal

RouterNext ==
    \/ Start \/ Stop \/ Running
    \/ \E r \in Requests : Submit(r) \/ Resend(r) \/ Complete(r)
    \/ Turn \/ ContinueAsGuest \/ Consent \/ Choice \/ CloseAuth
    \/ OpenSettings \/ Dismiss \/ Login \/ Logout
    \/ \E what \in {"everywhere", "delete"} : AskAccount(what)
    \/ AskReset \/ SignOutEverywhere \/ DeleteAccount
    \/ ResetHeld \/ Reset
    \/ BeginUpdate \/ EndUpdate \/ Refreshed

RouterSpec == RouterInit /\ [][RouterNext]_routerVars

-----------------------------------------------------------------------------
(* Properties.                                                             *)

States ==
    [consent : BOOLEAN, last : Profiles, out : BOOLEAN, known : SUBSET Accounts]

Whats == Code \cup OfMain \cup {"consent", "choice", "notice"}

Frames == [what : Whats, account : Profiles, previous : Profiles, alive : BOOLEAN]

RouterTypeOK ==
    /\ app \in [on : BOOLEAN, online : BOOLEAN, update : BOOLEAN, sealed : BOOLEAN]
    /\ profile \in Profiles
    /\ store \in [disk : States, mem : States]
    /\ keyring \subseteq Accounts /\ confirmed \subseteq Accounts
    /\ session \in [account : Accounts \cup {Nobody}, live : BOOLEAN]
    /\ auth \in [visible : BOOLEAN, page : {"login", "signup", "verify"},
                 busy : BOOLEAN, resending : BOOLEAN]
    /\ stack \in Seq(Frames)
    /\ pending \in [Requests -> [kind : {"none", "sign", "mail", "resend"}, current : BOOLEAN]]

\* Whenever a reset or a crash comes, the state file and its copy name every
\* account with a token in the keyring: a reset leaves none behind.
TokensAreKnown == keyring \subseteq store.disk.known \cap store.mem.known

\* No profile is open, or opened by the next start, without the consent.
OpensWithConsent ==
    /\ profile # Nobody => store.mem.consent
    /\ store.disk.last # Nobody => store.disk.consent

\* A start opens an account without a login only if its sign-in was once
\* completed: neither a failed nor an interrupted activation is enough.
OnlyConfirmedReopen ==
    store.disk.last \in Accounts /\ ~store.disk.out => store.disk.last \in confirmed

\* The session that the account's commands use is that of the open profile.
SessionIsTheProfiles ==
    Looping /\ profile \in Accounts => session.account \in {profile, Nobody}

\* A settings window or a question that still takes an answer is about the
\* profile that is open.
QuestionsAreAboutTheOpenProfile ==
    \A i \in DOMAIN stack :
        stack[i].alive /\ stack[i].what \in OfMain => stack[i].account = profile

\* The login form is disabled only while a request that can enable it again
\* is under way, or the login is about to be shown anew.
BusyMeansARequest ==
    auth.visible /\ auth.busy =>
        \/ \E r \in Requests : pending[r].kind \in {"sign", "mail"} /\ pending[r].current
        \/ \E i \in DOMAIN stack : stack[i].what \in {"show", "restore", "return", "seal"}
        \/ app.sealed

\* After a reset that could not be recovered nothing is opened.
NothingOpensUnrecovered == app.sealed => profile = Nobody

\* While an update is installed the profile and its state stay.
UpdateHoldsProfile ==
    [][app.update /\ app'.update => UNCHANGED <<profile, store>>]_routerVars

\* Whichever way a profile was opened, left, deleted or reset: profile, state
\* file, keyring, session and the questions on the screen belong together.
ProfilesAreRightful ==
    /\ TokensAreKnown /\ OpensWithConsent /\ OnlyConfirmedReopen
    /\ SessionIsTheProfiles /\ QuestionsAreAboutTheOpenProfile
    /\ NothingOpensUnrecovered
=============================================================================
