------------------------------ MODULE Sessions ------------------------------
(***************************************************************************)
(* Signing in and out, and the refresh of rotating tokens, by windows that *)
(* share one keyring.                                                      *)
(* (src/mdlogger/auth/session_manager.py and credential_store.py, the part *)
(* of profile_router.py that signs in, restores and signs out, and of the  *)
(* account service what these rely on.)                                    *)
(*                                                                         *)
(* A refresh runs outside the locks of SessionManager: a thread holds the  *)
(* refresh lock of the account, asks the server and then, under the store  *)
(* transaction and the condition, decides what the answer is still worth.  *)
(***************************************************************************)
EXTENDS Naturals, FiniteSets

CONSTANTS
    Accounts,
    Windows,      \* processes that share the keyring of the OS user
    Threads,      \* threads that call a SessionManager
    Users,        \* the UI threads, that sign in and out; the others are workers
    WindowOf,     \* WindowOf[t]: the window thread t belongs to
    Nobody,       \* no account, no holder of a lock
    MaxTokens,    \* bound: tokens the server issues
    MaxFaults,    \* bound: lost answers and failures of the keyring
    MaxActs       \* bound: sign-outs, starts and deaths of a window

ASSUME SessionAssumption ==
    /\ Users \subseteq Threads /\ WindowOf \in [Threads -> Windows]
    /\ Nobody \notin Accounts \cup Windows \cup Threads
    /\ MaxTokens \in Nat \ {0} /\ {MaxFaults, MaxActs} \subseteq Nat

\* A session is known by its refresh token, a token by its number; 0 is none.
Tokens == 0..MaxTokens

VARIABLES
    server,    \* the account service: tokens it issued and still takes
    keyring,   \* keyring[a]: the stored refresh token, and who stored it
    lease,     \* lease[a]: the window that holds refresh_lock of a
    store,     \* the thread inside a store transaction, between its steps
    mem,       \* mem[w]: the fields of the SessionManager of window w
    thread,    \* what a thread is doing
    profile,   \* profile[w]: the registered account of window w's profile
               \* state, and whether it may be opened without a login
    out,       \* history: who signed out of what, and whose token is erased
    budget     \* what is left of the bounds

vars == <<server, keyring, lease, store, mem, thread, profile, out, budget>>

Signed == "authenticated"
States == {"signed_out", Signed, "offline", "reauth"}

NoRotation == [session |-> 0, original |-> 0]

FreshManager ==
    [account |-> Nobody, state |-> "signed_out", session |-> 0,
     logouts |-> 0, activations |-> 0, blocked |-> {}, revoked |-> {},
     refreshing |-> Nobody, rotation |-> NoRotation, backoff |-> FALSE]

Idle == [pc |-> "idle", account |-> Nobody, logouts |-> 0, activation |-> 0,
         rejected |-> 0, same |-> FALSE, token |-> 0, session |-> 0,
         refused |-> FALSE, previous |-> Nobody]

\* The program was used before: the keyring may hold a token of an account,
\* and a profile state may say that its account is opened at the start.
Closed == [account |-> Nobody, open |-> FALSE]

Init ==
    /\ \E a \in Accounts, n \in {0, 1} :
        /\ server = [issued |-> n, valid |-> 1..n, next |-> [k \in 1..MaxTokens |-> 0],
                     owner |-> [k \in 1..MaxTokens |-> IF k <= n THEN a ELSE Nobody]]
        /\ keyring = [b \in Accounts |->
                [token |-> IF a = b THEN n ELSE 0, by |-> Nobody]]
        /\ profile \in [Windows -> {Closed, [account |-> a, open |-> TRUE]}]
    /\ lease = [a \in Accounts |-> Nobody]
    /\ store = Nobody
    /\ mem = [w \in Windows |-> FreshManager]
    /\ thread = [t \in Threads |-> Idle]
    /\ out = [ended |-> {}, erased |-> {}]
    /\ budget = [faults |-> MaxFaults, acts |-> MaxActs]

Spend(what) == budget[what] > 0 /\ budget' = [budget EXCEPT ![what] = @ - 1]

-----------------------------------------------------------------------------
(* The account service, as the client uses it: a refresh token is good for *)
(* one refresh; presenting a used one ends the sessions of the account.    *)

Issue(a, from) ==
    LET n == server.issued + 1 IN
    /\ n <= MaxTokens
    /\ server' = [server EXCEPT !.issued = n,
                    !.valid = (@ \ {from}) \cup {n},
                    !.owner[n] = a,
                    !.next = IF from = 0 THEN @ ELSE [@ EXCEPT ![from] = n]]

TokensOf(a) == {n \in server.valid : server.owner[n] = a}
Revoke(a) == server' = [server EXCEPT !.valid = @ \ TokensOf(a)]

-----------------------------------------------------------------------------
(* SessionManager: helpers that run under its lock.                        *)

Mgr(t) == mem[WindowOf[t]]
SetMgr(t, m) == mem' = [mem EXCEPT ![WindowOf[t]] = m]
Step(t, pc) == thread' = [thread EXCEPT ![t].pc = pc]

\* (A slip: the account is compared, not the login.)
IsCurrentAccount(t) == Mgr(t).account = thread[t].account

IsCurrent(t) ==
    /\ Mgr(t).logouts = thread[t].logouts
    /\ Mgr(t).account = thread[t].account
    /\ thread[t].account \notin Mgr(t).blocked

Offline(m) == [m EXCEPT !.state = "offline", !.session = 0, !.backoff = TRUE]
\* (A slip: the session is kept.)
StateOnly(m, state) == [m EXCEPT !.state = state]
State(m, state) == [m EXCEPT !.state = state, !.session = 0]
Remember(m, session) ==
    [m EXCEPT !.state = Signed, !.session = session, !.backoff = FALSE]

\* _discard_pending_rotation gives up the token and, with it, the lease.
Discard(m) == [m EXCEPT !.rotation = NoRotation]
LeaseAfterDiscard(t) ==
    IF Mgr(t).rotation = NoRotation THEN lease
    ELSE [lease EXCEPT ![Mgr(t).account] = Nobody]

\* A call of KeyringCredentialStore: it waits for the transaction of another
\* thread; the keyring, or the lock file, may fail.
StoreFree(t) == store \in {Nobody, t}
Stored(t, a, token) ==
    [keyring EXCEPT ![a] = [token |-> token, by |-> WindowOf[t]]]

-----------------------------------------------------------------------------
(* session_for_sync and _refresh.                                          *)

\* A worker wants a session; after a 401 it names the one it had, if the login
\* is still the same: the current one (an older one gets it as an answer).
Want(t) ==
    LET m == Mgr(t) IN
    /\ t \notin Users /\ thread[t].pc = "idle" /\ m.account # Nobody
    /\ \E rejected \in {0, m.session} :
         thread' = [thread EXCEPT ![t] =
            [@ EXCEPT !.pc = "ask", !.account = m.account, !.logouts = m.logouts,
                      !.rejected = rejected]]
    /\ UNCHANGED <<server, keyring, lease, store, mem, profile, out, budget>>

Done(t) == thread' = [thread EXCEPT ![t] = Idle]

\* (A slip: a kept rotation does not keep the lease.)
EndReleasing(t, m, release) ==
    /\ SetMgr(t, [m EXCEPT !.refreshing = Nobody])
    /\ Done(t)
    /\ lease' = [lease EXCEPT ![thread[t].account] = Nobody]

\* (A slip: those who wait are not told.)
EndSilently(t, m, release) ==
    /\ SetMgr(t, m)
    /\ Done(t)
    /\ lease' = IF release THEN [lease EXCEPT ![thread[t].account] = Nobody] ELSE lease

\* A refresh ends with snapshot m: its finally blocks release the lease,
\* unless a rotation keeps it, and wake those who wait.
End(t, m, release) ==
    /\ SetMgr(t, [m EXCEPT !.refreshing = Nobody])
    /\ Done(t)
    /\ lease' = IF release THEN [lease EXCEPT ![thread[t].account] = Nobody] ELSE lease

\* The token to present: none, or of another login, ends the refresh; a
\* session that only waits to be stored is not asked for again.
Proceed(t, token) ==
    IF ~IsCurrent(t) THEN End(t, Mgr(t), TRUE)
    ELSE IF token = 0 THEN End(t, State(Mgr(t), "signed_out"), TRUE)
    ELSE /\ thread' = [thread EXCEPT ![t].token = token,
                ![t].pc = IF thread[t].session = 0 THEN "request" ELSE "settle"]
         /\ UNCHANGED <<mem, lease>>

\* A refresh begins: it takes over a rotation that could not be stored.
Begin(t) ==
    LET m == Mgr(t) kept == m.rotation # NoRotation IN
    /\ SetMgr(t, [m EXCEPT !.refreshing = thread[t].account, !.rotation = NoRotation])
    /\ thread' = [thread EXCEPT ![t] =
            [@ EXCEPT !.pc = IF kept THEN "settle" ELSE "enter", !.logouts = m.logouts,
                      !.token = m.rotation.original, !.session = m.rotation.session,
                      !.rejected = 0]]

MayRefresh(m) == m.state \in {"offline", Signed}
Decide(t) ==
    IF MayRefresh(Mgr(t)) /\ ~Mgr(t).backoff THEN Begin(t)
    ELSE Done(t) /\ UNCHANGED mem

Ask(t) ==
    /\ thread[t].pc = "ask"
    /\ LET m == Mgr(t) IN
       IF ~IsCurrent(t) THEN Done(t) /\ UNCHANGED mem
       ELSE IF m.state = Signed /\ m.session # thread[t].rejected
            THEN Done(t) /\ UNCHANGED mem
       ELSE IF m.refreshing # Nobody
            THEN /\ thread' = [thread EXCEPT ![t].pc = "wait",
                                   ![t].same = m.refreshing = thread[t].account]
                 /\ UNCHANGED mem
       ELSE Decide(t)
    /\ UNCHANGED <<server, keyring, lease, store, profile, out, budget>>

\* The condition: another thread's refresh ended, or the login changed.
Wait(t) ==
    /\ thread[t].pc = "wait"
    /\ LET m == Mgr(t) changed == m.logouts # thread[t].logouts IN
       /\ m.refreshing = Nobody \/ changed
       /\ IF changed THEN Done(t) /\ UNCHANGED mem
          ELSE IF thread[t].same THEN Done(t) /\ UNCHANGED mem
          ELSE Decide(t)
    /\ UNCHANGED <<server, keyring, lease, store, profile, out, budget>>

\* refresh_lock is tried once; who does not get it is offline for a while.
Enter(t) ==
    /\ thread[t].pc = "enter"
    /\ LET a == thread[t].account IN
       \/ /\ lease[a] = Nobody
          /\ lease' = [lease EXCEPT ![a] = WindowOf[t]] /\ Step(t, "load")
          /\ UNCHANGED budget
       \/ lease[a] # Nobody /\ Step(t, "busy") /\ UNCHANGED <<lease, budget>>
       \/ Spend("faults") /\ Step(t, "busy") /\ UNCHANGED lease
    /\ UNCHANGED <<server, keyring, store, mem, profile, out>>

\* The token is loaded; a token is presented only within the same login.
Load(t) ==
    /\ thread[t].pc = "load" /\ StoreFree(t)
    /\ \/ Proceed(t, keyring[thread[t].account].token) /\ UNCHANGED budget
       \/ Spend("faults") /\ Step(t, "failed") /\ UNCHANGED <<mem, lease>>
    /\ UNCHANGED <<server, keyring, store, profile, out>>

\* The refresh request: answered, refused, or the answer is lost.
Request(t) ==
    /\ thread[t].pc = "request"
    /\ LET token == thread[t].token a == thread[t].account IN
       \/ /\ token \in server.valid /\ Issue(a, token)
          /\ \/ /\ thread' = [thread EXCEPT ![t].session = server.issued + 1,
                                            ![t].pc = "settle"]
                /\ UNCHANGED budget
             \/ Spend("faults") /\ Step(t, "settle")
       \/ /\ token \notin server.valid /\ Revoke(a)
          /\ thread' = [thread EXCEPT ![t].refused = TRUE, ![t].pc = "settle"]
          /\ UNCHANGED budget
       \/ /\ Spend("faults") \/ (server.issued = MaxTokens /\ UNCHANGED budget)
          /\ Step(t, "settle") /\ UNCHANGED server
    /\ UNCHANGED <<keyring, lease, store, mem, profile, out>>

\* An answer whose body is cut off is no AuthError: the exception leaves the
\* refresh, with its finally blocks, and neither a state nor a backoff is set.
CutOff(t) ==
    /\ thread[t].pc = "request" /\ Spend("faults")
    /\ LET token == thread[t].token a == thread[t].account IN
       IF token \in server.valid THEN Issue(a, token) ELSE Revoke(a)
    /\ End(t, Mgr(t), TRUE)
    /\ UNCHANGED <<keyring, store, profile, out>>

\* The keyring still holds the token that was refreshed, or already the new one.
StillTheirs(t) ==
    keyring[thread[t].account].token \in {thread[t].token, thread[t].session} \ {0}

\* What the answer is worth, under the transaction and the condition.  Only
\* the token that was refreshed is replaced.
Settle(t) ==
    /\ thread[t].pc = "settle" /\ StoreFree(t)
    /\ LET m == Mgr(t) a == thread[t].account session == thread[t].session
           current == keyring[a].token same == StillTheirs(t) IN
       \/ ~IsCurrent(t) /\ End(t, m, TRUE) /\ UNCHANGED <<keyring, budget>>
       \/ /\ IsCurrent(t) /\ Spend("faults") /\ Step(t, "failed")
          /\ UNCHANGED <<mem, lease, keyring>>
       \/ /\ IsCurrent(t) /\ ~same /\ UNCHANGED <<keyring, budget>>
          /\ End(t, IF current = 0 THEN State(m, "signed_out") ELSE Offline(m), TRUE)
       \/ /\ IsCurrent(t) /\ same /\ thread[t].refused
          /\ End(t, [State(m, "reauth") EXCEPT !.revoked = @ \cup {a}], TRUE)
          /\ \/ keyring' = Stored(t, a, 0) /\ UNCHANGED budget
             \/ Spend("faults") /\ UNCHANGED keyring
       \/ /\ IsCurrent(t) /\ same /\ ~thread[t].refused /\ session = 0
          /\ End(t, Offline(m), TRUE) /\ UNCHANGED <<keyring, budget>>
       \/ /\ IsCurrent(t) /\ same /\ session # 0
          /\ \/ /\ keyring' = Stored(t, a, session)
                /\ End(t, Remember(m, session), TRUE) /\ UNCHANGED budget
             \/ /\ Spend("faults") /\ keyring' = Stored(t, a, session)
                /\ Step(t, "failed") /\ UNCHANGED <<mem, lease>>
    /\ UNCHANGED <<server, store, profile, out>>

\* CredentialStoreError: a session that was received but not stored is kept
\* in memory, and the lease with it.
Failed(t) ==
    /\ thread[t].pc \in {"failed", "busy"}
    /\ LET m == Mgr(t) entered == thread[t].pc = "failed"
           keep == entered /\ thread[t].session # 0
           rotation == [session |-> thread[t].session, original |-> thread[t].token] IN
       IF ~IsCurrent(t) THEN End(t, m, entered)
       ELSE IF keep THEN End(t, [Offline(m) EXCEPT !.rotation = rotation], FALSE)
       ELSE End(t, Offline(m), entered)
    /\ UNCHANGED <<server, keyring, store, profile, out, budget>>

\* The time of the next attempt comes.
BackoffEnds(w) ==
    /\ mem[w].backoff
    /\ mem' = [mem EXCEPT ![w].backoff = FALSE]
    /\ UNCHANGED <<server, keyring, lease, store, thread, profile, out, budget>>

-----------------------------------------------------------------------------
(* Signing in: activate, and what the router does around it.               *)

\* authenticate: the server takes the credentials.  The profile opens, as
\* signed out until the session is saved, and a new activation begins.
SignIn(t) ==
    LET w == WindowOf[t] m == Mgr(t) IN
    /\ t \in Users /\ thread[t].pc = "idle"
    /\ \E a \in Accounts :
         /\ Issue(a, 0)
         /\ profile' = [profile EXCEPT ![w] = [account |-> a, open |-> FALSE]]
         /\ out' = [ended |-> out.ended \ {<<w, a>>}, erased |-> out.erased \ {<<w, a>>}]
         /\ thread' = [thread EXCEPT ![t] = [Idle EXCEPT !.pc = "save", !.account = a,
                !.session = server.issued + 1, !.logouts = m.logouts,
                !.activation = m.activations + 1,
                !.previous = IF profile[w].open THEN profile[w].account ELSE Nobody]]
    /\ SetMgr(t, [m EXCEPT !.activations = @ + 1])
    /\ UNCHANGED <<keyring, lease, store, budget>>

\* _require_activation: no other login or logout since this one began.
MayActivate(t) ==
    /\ thread[t].activation = Mgr(t).activations
    /\ thread[t].logouts = Mgr(t).logouts

ActivateSave(t) ==
    /\ thread[t].pc = "save" /\ StoreFree(t)
    /\ LET a == thread[t].account saved == Stored(t, a, thread[t].session) IN
       \/ ~MayActivate(t) /\ Step(t, "cancelled") /\ UNCHANGED <<keyring, store, budget>>
       \/ /\ MayActivate(t) /\ keyring' = saved /\ store' = t
          /\ Step(t, "commit") /\ UNCHANGED budget
       \/ /\ MayActivate(t) /\ Spend("faults") /\ keyring' \in {keyring, saved}
          /\ Step(t, "unsaved") /\ UNCHANGED store
    /\ UNCHANGED <<server, lease, mem, profile, out>>

ActivateCommit(t) ==
    /\ thread[t].pc = "commit"
    /\ store' = Nobody
    /\ IF ~MayActivate(t) THEN Step(t, "cancelled") /\ UNCHANGED <<mem, lease>>
       ELSE LET a == thread[t].account m == Mgr(t) IN
            /\ SetMgr(t, [Remember(Discard(m), thread[t].session) EXCEPT
                     !.logouts = @ + 1, !.account = a,
                     !.blocked = @ \ {a}, !.revoked = @ \ {a}])
            /\ lease' = LeaseAfterDiscard(t)
            /\ Step(t, "opened")
    /\ UNCHANGED <<server, keyring, profile, out, budget>>

\* set_session_state("authenticated"); a failure leaves "signed_out".
Opened(t) ==
    /\ thread[t].pc = "opened"
    /\ \/ profile' = [profile EXCEPT ![WindowOf[t]].open = TRUE] /\ UNCHANGED budget
       \/ Spend("faults") /\ UNCHANGED profile
    /\ Done(t)
    /\ UNCHANGED <<server, keyring, lease, store, mem, out>>

\* The session could not be saved: back to the profile that was open before,
\* or to the login; cancelled: to the login, unless this account is in.
NotOpened(t) ==
    LET w == WindowOf[t] m == Mgr(t) IN
    /\ \/ /\ thread[t].pc = "unsaved" /\ MayActivate(t)
          /\ profile' = IF thread[t].previous = Nobody THEN profile
                ELSE [profile EXCEPT ![w] = [account |-> thread[t].previous, open |-> TRUE]]
       \/ /\ thread[t].pc = "cancelled" \/ (thread[t].pc = "unsaved" /\ ~MayActivate(t))
          /\ profile' = IF m.session # 0 /\ m.account = thread[t].account THEN profile
                        ELSE [profile EXCEPT ![w].open = FALSE]
    /\ Done(t)
    /\ UNCHANGED <<server, keyring, lease, store, mem, out, budget>>

-----------------------------------------------------------------------------
(* Signing out, restoring at the start, and the death of a window.         *)

\* _end_session: from here on no answer or login of before is worth anything.
EndSession(t, a) ==
    LET m == [Mgr(t) EXCEPT !.activations = @ + 1, !.blocked = @ \cup {a}] IN
    /\ IF m.account = a
       THEN /\ SetMgr(t, [Discard(State(m, "signed_out")) EXCEPT
                              !.logouts = @ + 1, !.backoff = FALSE])
            /\ lease' = LeaseAfterDiscard(t)
       ELSE SetMgr(t, m) /\ UNCHANGED lease
    /\ out' = [out EXCEPT !.ended = @ \cup {<<WindowOf[t], a>>}]

SignOut(t) ==
    LET a == profile[WindowOf[t]].account IN
    /\ t \in Users /\ thread[t].pc = "idle" /\ a # Nobody
    /\ Spend("acts") /\ EndSession(t, a)
    /\ thread' = [thread EXCEPT ![t] = [Idle EXCEPT !.pc = "erase", !.account = a,
                     !.session = IF Mgr(t).account = a THEN Mgr(t).session ELSE 0]]
    /\ UNCHANGED <<server, keyring, store, profile>>

\* sign_out_all_devices and delete_account: the server first.
SignOutAll(t) ==
    /\ t \in Users /\ thread[t].pc = "idle" /\ Mgr(t).session # 0
    /\ Spend("acts") /\ Revoke(Mgr(t).account)
    /\ thread' = [thread EXCEPT ![t] = [Idle EXCEPT !.pc = "end", !.account = Mgr(t).account]]
    /\ UNCHANGED <<keyring, lease, store, mem, profile, out>>

AllSignedOut(t) ==
    /\ thread[t].pc = "end" /\ EndSession(t, thread[t].account)
    /\ Step(t, "erase")
    /\ UNCHANGED <<server, keyring, store, profile, budget>>

\* delete_refresh_token; if it fails the user is told and nothing else ends.
Erase(t) ==
    LET a == thread[t].account who == <<WindowOf[t], a>> IN
    /\ thread[t].pc = "erase" /\ StoreFree(t)
    /\ \/ /\ keyring' = Stored(t, a, 0) /\ Step(t, "logout")
          /\ out' = [out EXCEPT !.erased = @ \cup ({who} \cap out.ended)]
          /\ UNCHANGED budget
       \/ /\ Spend("faults") /\ Done(t)
          /\ UNCHANGED <<keyring, out>>
    /\ UNCHANGED <<server, lease, store, mem, profile>>

\* The logout request, whose failure is ignored, then _return_to_login: the
\* profile state says signed out, if it can be written.
Logout(t) ==
    /\ thread[t].pc = "logout" /\ Done(t)
    /\ \/ thread[t].session # 0 /\ Revoke(thread[t].account)
       \/ UNCHANGED server
    /\ \/ profile' = [profile EXCEPT ![WindowOf[t]].open = FALSE] /\ UNCHANGED budget
       \/ Spend("faults") /\ UNCHANGED profile
    /\ UNCHANGED <<keyring, lease, store, mem, out>>

\* restore: the account of the profile state, unless it was signed out of.
Restore(t) ==
    LET m == Mgr(t) a == profile[WindowOf[t]].account
        changed == [Discard(m) EXCEPT !.logouts = @ + 1, !.account = a,
                       !.state = "offline", !.session = 0, !.backoff = FALSE]
        restored == IF m.account = a THEN m ELSE changed IN
    /\ thread[t].pc = "idle" /\ profile[WindowOf[t]].open
    /\ t \in Users \/ m.account = Nobody
    /\ a \notin m.blocked \cup m.revoked
    /\ SetMgr(t, restored)
    /\ lease' = IF m.account = a THEN lease ELSE LeaseAfterDiscard(t)
    /\ thread' = [thread EXCEPT ![t] = [Idle EXCEPT !.pc = "ask", !.account = a,
                                                  !.logouts = restored.logouts]]
    /\ UNCHANGED <<server, keyring, store, profile, out, budget>>

\* The process ends; the locks it held are stale.  What its user signed out
\* of is kept by the profile state alone.
Crash(w) ==
    /\ Spend("acts")
    /\ mem' = [mem EXCEPT ![w] = FreshManager]
    /\ thread' = [t \in Threads |-> IF WindowOf[t] = w THEN Idle ELSE thread[t]]
    /\ lease' = [a \in Accounts |-> IF lease[a] = w THEN Nobody ELSE lease[a]]
    /\ store' = IF store # Nobody /\ WindowOf[store] = w THEN Nobody ELSE store
    /\ LET kept(pairs) == {p \in pairs : p[1] # w \/ (p \in out.erased /\ ~profile[w].open)} IN
       out' = [ended |-> kept(out.ended), erased |-> kept(out.erased)]
    /\ UNCHANGED <<server, keyring, profile>>

-----------------------------------------------------------------------------
Refresh(t) ==
    Ask(t) \/ Wait(t) \/ Enter(t) \/ Load(t) \/ Request(t) \/ CutOff(t) \/ Settle(t)
    \/ Failed(t)
Login(t) ==
    ActivateSave(t) \/ ActivateCommit(t) \/ Opened(t) \/ NotOpened(t)
    \/ AllSignedOut(t) \/ Erase(t) \/ Logout(t)
Act(t) == SignIn(t) \/ SignOut(t) \/ SignOutAll(t) \/ Restore(t)

Next ==
    \/ \E t \in Threads : Want(t) \/ Refresh(t) \/ Login(t) \/ Act(t)
    \/ \E w \in Windows : BackoffEnds(w) \/ Crash(w)

\* Threads run, the worker of an open account keeps asking, time passes.
Fairness ==
    /\ \A t \in Threads :
        WF_vars(Refresh(t) \/ Login(t)) /\ WF_vars(Want(t))
    /\ \A w \in Windows : WF_vars(BackoffEnds(w))

Spec == Init /\ [][Next]_vars /\ Fairness

-----------------------------------------------------------------------------
Steps == {"idle", "ask", "wait", "enter", "load", "request", "settle", "failed", "busy",
          "save", "commit", "unsaved", "cancelled", "opened", "end", "erase", "logout"}

\* What the variables hold.
TypeOK ==
    /\ server.issued \in Tokens /\ server.valid \subseteq 1..server.issued
    /\ \A a \in Accounts :
        /\ keyring[a].token \in {0} \cup {n \in 1..server.issued : server.owner[n] = a}
        /\ lease[a] \in Windows \cup {Nobody}
    /\ store \in Threads \cup {Nobody}
    /\ \A w \in Windows : mem[w].state \in States /\ (mem[w].session # 0 <=> mem[w].state = Signed)
    /\ \A t \in Threads : thread[t].pc \in Steps
    /\ out.erased \subseteq out.ended

\* A window whose user signed out of an account holds no session of it until
\* the user logs in again, whatever refresh or login was under way; and once
\* its token is erased, nothing that window was doing stores another.
SignedOutStaysSignedOut ==
    /\ \A pair \in out.ended :
        ~(mem[pair[1]].account = pair[2] /\ mem[pair[1]].session # 0)
    /\ \A pair \in out.erased :
        ~(keyring[pair[2]].token # 0 /\ keyring[pair[2]].by = pair[1])

\* The service ends every session of an account when a used refresh token is
\* presented: no window presents one while its successor is in the keyring,
\* or in the memory of a window that could not store it yet.
Held(a) ==
    {keyring[a].token} \cup {mem[w].rotation.session : w \in Windows}
    \cup {thread[t].session : t \in {s \in Threads : thread[s].pc \in {"settle", "failed"}}}

TokenPresentedIsNewest ==
    \A t \in Threads : thread[t].pc = "request" =>
        \/ server.next[thread[t].token] = 0
        \/ server.next[thread[t].token] \notin Held(thread[t].account)

\* An account that went offline is tried again until it is known what became
\* of its session (unless the bound on tokens ends the run).
OfflineEnds ==
    \A w \in Windows :
        mem[w].state = "offline" ~> mem[w].state # "offline" \/ server.issued = MaxTokens
=============================================================================
