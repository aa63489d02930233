---------------------------- MODULE SessionProofs ----------------------------
(***************************************************************************)
(* The safety of Sessions for any windows, threads and accounts: who signs *)
(* out stays signed out, and a token presented to the server is the newest *)
(* it has issued.                                                          *)
(*                                                                         *)
(* SessionInv is inductive.  Its parts are the types, that a token in      *)
(* memory or in the keyring was issued to the account it is kept for, and  *)
(* what counters make sure of: a thread that began before the last sign-in *)
(* or sign-out of its window is behind it, and finds out before it stores  *)
(* anything.  The second result adds LeaseInv (one refresh at a time holds *)
(* the lease of an account) and ChainInv (where the newest token of a chain*)
(* is): PresentInv, the three together, is inductive too.                  *)
(***************************************************************************)
EXTENDS Sessions, TLAPS

SomeAccount == Accounts \cup {Nobody}

Manager ==
    [account : SomeAccount, state : States, session : Tokens, logouts : Nat, activations : Nat,
     blocked : SUBSET Accounts, revoked : SUBSET Accounts, refreshing : SomeAccount,
     rotation : [session : Tokens, original : Tokens], backoff : BOOLEAN]

Thread ==
    [pc : Steps, account : SomeAccount, logouts : Nat, activation : Nat, rejected : Tokens,
     same : BOOLEAN, token : Tokens, session : Tokens, refused : BOOLEAN, previous : SomeAccount]

ProfileState == [account : SomeAccount, open : BOOLEAN]

Entry == [token : Tokens, by : Windows \cup {Nobody}]

Service == [issued : Tokens, valid : SUBSET (1..MaxTokens), next : [1..MaxTokens -> Tokens],
            owner : [1..MaxTokens -> SomeAccount]]

History == [ended : SUBSET (Windows \X Accounts), erased : SUBSET (Windows \X Accounts)]

SharedTypes ==
    /\ server \in Service /\ server.valid \subseteq 1..server.issued
    /\ keyring \in [Accounts -> Entry] /\ lease \in [Accounts -> Windows \cup {Nobody}]
    /\ store \in Threads \cup {Nobody} /\ out \in History

Types ==
    /\ SharedTypes
    /\ mem \in [Windows -> Manager] /\ thread \in [Threads -> Thread]
    /\ profile \in [Windows -> ProfileState]

\* The tokens service s issued to account a, and none.
TokensFor(s, a) == {0} \cup {n \in 1..s.issued : s.owner[n] = a}

TokensInv ==
    /\ \A a \in Accounts : keyring[a].token \in TokensFor(server, a)
    /\ \A t \in Threads : thread[t].session \in TokensFor(server, thread[t].account)
    /\ \A w \in Windows : /\ mem[w].session \in TokensFor(server, mem[w].account)
                          /\ mem[w].rotation.session \in TokensFor(server, mem[w].account)

\* The accounts the user of window w signed out of, in history o.
EndedIn(o, w) == {a \in Accounts : <<w, a>> \in o.ended}

\* Account a of manager m was signed out of and is still known to be.  After a
\* restart of the window only the profile state knows.
Remembered(a, m, ended) == a \in ended => a \in m.blocked

RefreshSteps == {"ask", "wait", "enter", "load", "request", "settle", "failed", "busy"}
LoginSteps   == {"save", "commit", "unsaved", "cancelled", "opened"}

\* Thread th of a window with manager m, profile state p and ended accounts.
ThreadFits(th, m, p, ended) ==
    /\ th.pc = "idle" => th.session = 0
    /\ th.pc \in RefreshSteps \cup LoginSteps \cup {"end", "erase", "logout"} =>
          th.account \in Accounts
    /\ th.pc \in RefreshSteps =>
          /\ th.logouts <= m.logouts
          /\ th.logouts = m.logouts => th.account = m.account
    /\ th.pc \in {"save", "commit"} =>
          /\ th.session # 0 /\ th.activation <= m.activations /\ th.logouts <= m.logouts
          /\ th.activation = m.activations /\ th.logouts = m.logouts => th.account \notin ended
    /\ th.pc \in LoginSteps =>
          /\ p.account \in Accounts /\ Remembered(p.account, m, ended)
          /\ Remembered(th.previous, m, ended)

ManagerFits(m, p, ended) ==
    /\ m.session # 0 <=> m.state = Signed
    /\ m.session # 0 => m.account \in Accounts
    /\ m.account \in ended => m.session = 0 /\ m.account \in m.blocked
    /\ p.open => p.account \in Accounts /\ Remembered(p.account, m, ended)

LoginInv ==
    /\ \A t \in Threads : ThreadFits(thread[t], mem[WindowOf[t]], profile[WindowOf[t]],
                                     EndedIn(out, WindowOf[t]))
    /\ \A w \in Windows : ManagerFits(mem[w], profile[w], EndedIn(out, w))

ErasedInv ==
    /\ out.erased \subseteq out.ended
    /\ \A a \in Accounts : keyring[a].token # 0 => <<keyring[a].by, a>> \notin out.erased

SessionInv == Types /\ TokensInv /\ LoginInv /\ ErasedInv

-----------------------------------------------------------------------------
(* A step of one thread.                                                   *)

\* Manager m of a window becomes n, and the accounts ended in it change.
Ages(m, n, old, new) ==
    /\ m.logouts <= n.logouts /\ m.activations <= n.activations
    /\ n.logouts = m.logouts => n.account = m.account
    /\ n.activations = m.activations => new \subseteq old
    /\ \A a \in SomeAccount : Remembered(a, m, old) => Remembered(a, n, new)

\* Profile state p becomes q.
Profiles(p, q, n, new) ==
    q.account = p.account \/ (q.account \in Accounts /\ Remembered(q.account, n, new))

\* A thread that does not move still fits its window: it is as far behind the
\* counters as before, or further.
LEMMA OthersFit ==
    ASSUME NEW m \in Manager, NEW n \in Manager, NEW th \in Thread,
           NEW p \in ProfileState, NEW q \in ProfileState, NEW old, NEW new,
           ThreadFits(th, m, p, old), Ages(m, n, old, new), Profiles(p, q, n, new)
    PROVE  ThreadFits(th, n, q, new)
<1>1. /\ m.logouts \in Nat /\ n.logouts \in Nat /\ th.logouts \in Nat
      /\ m.activations \in Nat /\ n.activations \in Nat /\ th.activation \in Nat
      /\ th.previous \in SomeAccount /\ p.account \in SomeAccount
  BY DEF Manager, Thread, ProfileState
<1>2. th.pc \in RefreshSteps =>
          th.logouts <= n.logouts /\ (th.logouts = n.logouts => th.account = n.account)
  BY <1>1 DEF ThreadFits, Ages
<1>3. th.pc \in {"save", "commit"} =>
          /\ th.session # 0 /\ th.activation <= n.activations /\ th.logouts <= n.logouts
          /\ th.activation = n.activations /\ th.logouts = n.logouts => th.account \notin new
  BY <1>1 DEF ThreadFits, Ages
<1>4. th.pc \in LoginSteps =>
          /\ q.account \in Accounts /\ Remembered(q.account, n, new)
          /\ Remembered(th.previous, n, new)
  BY <1>1 DEF ThreadFits, Ages, Profiles
<1> QED BY <1>2, <1>3, <1>4 DEF ThreadFits

\* Thread t becomes th, the manager of its window m and its profile state p.
Moved(t, m, th, p) ==
    /\ m \in Manager /\ th \in Thread /\ p \in ProfileState
    /\ mem' = [mem EXCEPT ![WindowOf[t]] = m]
    /\ thread' = [thread EXCEPT ![t] = th]
    /\ profile' = [profile EXCEPT ![WindowOf[t]] = p]

\* The sessions that manager m and thread th hold.
HeldTokens(s, m, th) ==
    /\ m.session \in TokensFor(s, m.account) /\ m.rotation.session \in TokensFor(s, m.account)
    /\ th.session \in TokensFor(s, th.account)

EndedHere(t) == EndedIn(out, WindowOf[t])

\* What is left to show of a step of one thread.
LEMMA OneThread ==
    ASSUME SessionInv, NEW t \in Threads, NEW m, NEW th, NEW p, Moved(t, m, th, p),
           SharedTypes',
           \A v \in Windows \ {WindowOf[t]} : EndedIn(out, v)' = EndedIn(out, v),
           \A a : TokensFor(server, a) \subseteq TokensFor(server', a),
           \A a \in Accounts : keyring'[a].token \in TokensFor(server', a),
           HeldTokens(server', m, th),
           Ages(Mgr(t), m, EndedHere(t), EndedHere(t)'),
           Profiles(profile[WindowOf[t]], p, m, EndedHere(t)'),
           ThreadFits(th, m, p, EndedHere(t)'),
           ManagerFits(m, p, EndedHere(t)')
    PROVE  Types' /\ TokensInv' /\ LoginInv'
<1> DEFINE w == WindowOf[t]
<1>0. w \in Windows /\ \A s \in Threads : WindowOf[s] \in Windows
  BY SessionAssumption
<1>1. Types'
  BY <1>0 DEF SessionInv, Types, Moved
<1>2. /\ mem'[w] = m /\ thread'[t] = th /\ profile'[w] = p
      /\ \A s \in Threads \ {t} : thread'[s] = thread[s]
      /\ \A v \in Windows \ {w} : mem'[v] = mem[v] /\ profile'[v] = profile[v]
  BY <1>0 DEF SessionInv, Types, Moved
<1>3. /\ \A v \in Windows : mem[v] \in Manager /\ profile[v] \in ProfileState
      /\ \A s \in Threads : thread[s] \in Thread
      /\ m \in Manager /\ th \in Thread /\ p \in ProfileState
  BY DEF SessionInv, Types, Moved
<1>4. TokensInv'
  <2>1. ASSUME NEW s \in Threads PROVE thread'[s].session \in TokensFor(server', thread'[s].account)
    <3>1. CASE s = t BY <3>1, <1>2 DEF HeldTokens
    <3>2. CASE s # t BY <3>2, <1>2 DEF SessionInv, TokensInv
    <3> QED BY <3>1, <3>2
  <2>2. ASSUME NEW v \in Windows
        PROVE  /\ mem'[v].session \in TokensFor(server', mem'[v].account)
               /\ mem'[v].rotation.session \in TokensFor(server', mem'[v].account)
    <3>1. CASE v = w BY <3>1, <1>2 DEF HeldTokens
    <3>2. CASE v # w BY <3>2, <1>2 DEF SessionInv, TokensInv
    <3> QED BY <3>1, <3>2
  <2> QED BY <2>1, <2>2 DEF TokensInv
<1>5. LoginInv'
  <2>1. ASSUME NEW s \in Threads
        PROVE  ThreadFits(thread'[s], mem'[WindowOf[s]], profile'[WindowOf[s]],
                          EndedIn(out, WindowOf[s])')
    <3>0. ThreadFits(thread[s], mem[WindowOf[s]], profile[WindowOf[s]], EndedIn(out, WindowOf[s]))
      BY DEF SessionInv, LoginInv
    <3>1. CASE s = t BY <3>1, <1>2 DEF EndedHere
    <3>2. CASE s # t /\ WindowOf[s] = w
      <4>1. /\ ThreadFits(thread[s], mem[w], profile[w], EndedIn(out, w))
            /\ Ages(mem[w], m, EndedIn(out, w), EndedIn(out, w)')
            /\ Profiles(profile[w], p, m, EndedIn(out, w)')
        BY <3>0, <3>2 DEF EndedHere, Mgr
      <4>2. ThreadFits(thread[s], m, p, EndedIn(out, w)')
        BY <4>1, <1>0, <1>3, OthersFit
      <4> QED BY <4>2, <3>2, <1>2
    <3>3. CASE WindowOf[s] # w
      <4>1. /\ thread'[s] = thread[s] /\ mem'[WindowOf[s]] = mem[WindowOf[s]]
            /\ profile'[WindowOf[s]] = profile[WindowOf[s]]
            /\ EndedIn(out, WindowOf[s])' = EndedIn(out, WindowOf[s])
        BY <3>3, <1>0, <1>2
      <4> QED BY <4>1, <3>0
    <3> QED BY <3>1, <3>2, <3>3
  <2>2. ASSUME NEW v \in Windows PROVE ManagerFits(mem'[v], profile'[v], EndedIn(out, v)')
    <3>1. CASE v = w BY <3>1, <1>2 DEF EndedHere
    <3>2. CASE v # w
      <4>1. /\ mem'[v] = mem[v] /\ profile'[v] = profile[v] /\ EndedIn(out, v)' = EndedIn(out, v)
        BY <3>2, <1>2
      <4>2. ManagerFits(mem[v], profile[v], EndedIn(out, v))
        BY DEF SessionInv, LoginInv
      <4> QED BY <4>1, <4>2
    <3> QED BY <3>1, <3>2
  <2> QED BY <2>1, <2>2 DEF LoginInv
<1> QED BY <1>1, <1>4, <1>5

-----------------------------------------------------------------------------
(* The parts a step is made of.                                            *)

LEMMA Facts ==
    ASSUME SessionInv, NEW t \in Threads
    PROVE  /\ WindowOf[t] \in Windows /\ Mgr(t) \in Manager /\ thread[t] \in Thread
           /\ profile[WindowOf[t]] \in ProfileState /\ Idle \in Thread
           /\ EndedHere(t) \subseteq Accounts /\ Nobody \notin Accounts
           /\ ThreadFits(thread[t], Mgr(t), profile[WindowOf[t]], EndedHere(t))
           /\ ManagerFits(Mgr(t), profile[WindowOf[t]], EndedHere(t))
           /\ HeldTokens(server, Mgr(t), thread[t])
<1>1. WindowOf[t] \in Windows
  BY SessionAssumption
<1>2. Idle \in Thread
  BY SessionAssumption DEF Idle, Thread, Steps, SomeAccount, Tokens
<1>3. EndedHere(t) \subseteq Accounts
  BY DEF EndedHere, EndedIn
<1>4. ThreadFits(thread[t], Mgr(t), profile[WindowOf[t]], EndedHere(t))
  BY DEF SessionInv, LoginInv, Mgr, EndedHere
<1>5. ManagerFits(Mgr(t), profile[WindowOf[t]], EndedHere(t))
  BY <1>1 DEF SessionInv, LoginInv, Mgr, EndedHere
<1>6. HeldTokens(server, Mgr(t), thread[t])
  BY <1>1 DEF SessionInv, TokensInv, HeldTokens, Mgr
<1>7. Mgr(t) \in Manager /\ thread[t] \in Thread /\ profile[WindowOf[t]] \in ProfileState
  BY <1>1 DEF SessionInv, Types, Mgr
<1> QED BY <1>1, <1>2, <1>3, <1>4, <1>5, <1>6, <1>7, SessionAssumption

\* A manager that is n after the step and of the same login as m.
SameLogin(m, n) ==
    /\ n.account = m.account /\ n.logouts = m.logouts
    /\ n.activations = m.activations /\ n.blocked = m.blocked

\* Manager m may stand for the window of t: it holds a session only when it is
\* signed in, and of an account that was not signed out of.
SignedInFits(t, m) ==
    /\ m.session # 0 <=> m.state = Signed
    /\ m.session # 0 => m.account \in Accounts \ EndedHere(t)

\* What a step may leave in the keyring.
KeyringKept ==
    \A a \in Accounts :
        \/ keyring'[a] = keyring[a]
        \/ /\ keyring'[a].token \in TokensFor(server', a)
           /\ keyring'[a].token # 0 => <<keyring'[a].by, a>> \notin out.erased

LEMMA SameLoginStep ==
    ASSUME SessionInv, NEW t \in Threads, NEW m \in Manager, NEW th \in Thread,
           mem' = [mem EXCEPT ![WindowOf[t]] = m], thread' = [thread EXCEPT ![t] = th],
           UNCHANGED <<profile, out>>, SharedTypes', KeyringKept,
           \A a : TokensFor(server, a) \subseteq TokensFor(server', a),
           HeldTokens(server', m, th), SameLogin(Mgr(t), m),
           SignedInFits(t, m),
           ThreadFits(th, m, profile[WindowOf[t]], EndedHere(t))
    PROVE  SessionInv'
<1> DEFINE w == WindowOf[t] p == profile[w]
<1>1. /\ w \in Windows /\ Mgr(t) \in Manager /\ p \in ProfileState
      /\ ManagerFits(Mgr(t), p, EndedHere(t)) /\ p.account \in SomeAccount
  BY Facts DEF ProfileState
<1>2. \A v : EndedIn(out, v)' = EndedIn(out, v)
  BY DEF EndedIn
<1>3. EndedHere(t)' = EndedHere(t)
  BY <1>2 DEF EndedHere
<1>4. Moved(t, m, th, p)
  BY <1>1 DEF Moved, SessionInv, Types
<1>5. \A a \in Accounts : keyring'[a].token \in TokensFor(server', a)
  BY DEF KeyringKept, SessionInv, TokensInv
<1>6. Ages(Mgr(t), m, EndedHere(t), EndedHere(t)')
  BY <1>1, <1>3 DEF Ages, SameLogin, Remembered, Manager
<1>7. ManagerFits(m, p, EndedHere(t)')
  BY <1>1, <1>3 DEF ManagerFits, SignedInFits, SameLogin, Remembered
<1>8. Profiles(p, p, m, EndedHere(t)')
  BY DEF Profiles
<1>9. Types' /\ TokensInv' /\ LoginInv'
  BY <1>2, <1>3, <1>4, <1>5, <1>6, <1>7, <1>8, OneThread
<1>10. ErasedInv'
  BY DEF SessionInv, ErasedInv, KeyringKept
<1> QED BY <1>9, <1>10 DEF SessionInv

LEMMA Issued ==
    ASSUME SessionInv, NEW a \in Accounts, NEW from \in Tokens, Issue(a, from)
    PROVE  /\ server' \in Service /\ server'.valid \subseteq 1..server'.issued
           /\ \A b : TokensFor(server, b) \subseteq TokensFor(server', b)
           /\ server.issued + 1 \in TokensFor(server', a)
           /\ server.issued + 1 \in Tokens /\ server.issued + 1 # 0
<1>1. /\ server \in Service /\ server.valid \subseteq 1..server.issued /\ MaxTokens \in Nat
  BY SessionAssumption DEF SessionInv, Types, SharedTypes
<1>2. server.issued \in Nat /\ server.issued + 1 \in 1..MaxTokens
  BY <1>1 DEF Issue, Service, Tokens
<1>3. /\ server'.issued = server.issued + 1
      /\ server'.valid = (server.valid \ {from}) \cup {server.issued + 1}
      /\ server'.owner = [server.owner EXCEPT ![server.issued + 1] = a]
      /\ server' \in Service
  <2>1. (IF from = 0 THEN server.next ELSE [server.next EXCEPT ![from] = server.issued + 1])
            \in [1..MaxTokens -> Tokens]
    BY <1>1, <1>2 DEF Service, Tokens
  <2>2. [server.owner EXCEPT ![server.issued + 1] = a] \in [1..MaxTokens -> SomeAccount]
    BY <1>1, <1>2 DEF Service, SomeAccount
  <2>3. (server.valid \ {from}) \cup {server.issued + 1} \subseteq 1..MaxTokens
    BY <1>1, <1>2 DEF Service
  <2>4. server.issued + 1 \in Tokens
    BY <1>2 DEF Tokens
  <2> DEFINE next == IF from = 0 THEN server.next
                     ELSE [server.next EXCEPT ![from] = server.issued + 1]
  <2>5. server' = [issued |-> server.issued + 1,
                   valid |-> (server.valid \ {from}) \cup {server.issued + 1},
                   next |-> next,
                   owner |-> [server.owner EXCEPT ![server.issued + 1] = a]]
    <3> HIDE DEF next
    <3>1. server' = [server EXCEPT !.issued = server.issued + 1,
                         !.valid = (@ \ {from}) \cup {server.issued + 1},
                         !.owner = [@ EXCEPT ![server.issued + 1] = a],
                         !.next = next]
      BY DEF Issue, next
    <3> QED BY <1>1, <3>1 DEF Service
  <2> QED BY <2>1, <2>2, <2>3, <2>4, <2>5 DEF Service
<1>4. server'.valid \subseteq 1..server'.issued
  BY <1>1, <1>2, <1>3
<1>5. \A n \in 1..server.issued : n # server.issued + 1 /\ n \in 1..server'.issued
  BY <1>2, <1>3
<1>6. server.owner \in [1..MaxTokens -> SomeAccount]
  BY <1>1 DEF Service
<1>7. \A b : TokensFor(server, b) \subseteq TokensFor(server', b)
  BY <1>2, <1>3, <1>5, <1>6 DEF TokensFor
<1>8. server.issued + 1 \in TokensFor(server', a)
  <2>1. server'.issued \in 1..server'.issued
    BY <1>2, <1>3
  <2>2. server'.owner[server'.issued] = a
    BY <1>2, <1>3, <1>6
  <2> QED BY <1>3, <2>1, <2>2 DEF TokensFor
<1> QED BY <1>2, <1>3, <1>4, <1>7, <1>8 DEF Tokens

LEMMA Revoked ==
    ASSUME SessionInv, NEW a, Revoke(a)
    PROVE  /\ server' \in Service /\ server'.valid \subseteq 1..server'.issued
           /\ \A b : TokensFor(server', b) = TokensFor(server, b)
<1>1. server \in Service /\ server.valid \subseteq 1..server.issued
  BY DEF SessionInv, Types, SharedTypes
<1>2. /\ server' \in Service /\ server'.valid \subseteq server.valid
      /\ server'.issued = server.issued /\ server'.owner = server.owner
  BY <1>1 DEF Revoke, Service
<1> QED BY <1>1, <1>2 DEF TokensFor

-----------------------------------------------------------------------------
(* The refresh.                                                            *)

\* The managers a refresh leaves behind keep the login.
LEMMA Managers ==
    ASSUME NEW m \in Manager
    PROVE  /\ Offline(m) \in Manager /\ SameLogin(m, Offline(m))
           /\ Offline(m).session = 0 /\ Offline(m).state = "offline"
           /\ Offline(m).rotation = m.rotation
           /\ \A s \in States : /\ State(m, s) \in Manager /\ SameLogin(m, State(m, s))
                                /\ State(m, s).session = 0 /\ State(m, s).state = s
                                /\ State(m, s).rotation = m.rotation
           /\ \A k \in Tokens : /\ Remember(m, k) \in Manager /\ SameLogin(m, Remember(m, k))
                                /\ Remember(m, k).session = k /\ Remember(m, k).state = Signed
                                /\ Remember(m, k).rotation = m.rotation
<1>1. "offline" \in States /\ Signed \in States /\ 0 \in Tokens
  BY SessionAssumption DEF States, Signed, Tokens
<1> QED BY <1>1 DEF Offline, State, Remember, SameLogin, Manager

\* A refresh that ends with manager m of the same login.
LEMMA RefreshEnds ==
    ASSUME SessionInv, NEW t \in Threads, NEW m \in Manager, NEW release, End(t, m, release),
           UNCHANGED <<store, profile, out>>,
           server' \in Service, server'.valid \subseteq 1..server'.issued,
           \A a : TokensFor(server, a) \subseteq TokensFor(server', a),
           keyring' \in [Accounts -> Entry], KeyringKept,
           SameLogin(Mgr(t), m), SignedInFits(t, m), HeldTokens(server, m, Idle)
    PROVE  SessionInv'
<1> DEFINE n == [m EXCEPT !.refreshing = Nobody]
<1>1. /\ n \in Manager /\ n.session = m.session /\ n.rotation = m.rotation
      /\ n.account = m.account /\ n.state = m.state /\ SameLogin(Mgr(t), n)
  BY DEF Manager, SomeAccount, SameLogin
<1>2. lease' \in [Accounts -> Windows \cup {Nobody}]
  BY DEF End, SessionInv, Types, SharedTypes
<1>3. SharedTypes'
  BY <1>2 DEF SessionInv, Types, SharedTypes
<1>4. mem' = [mem EXCEPT ![WindowOf[t]] = n] /\ thread' = [thread EXCEPT ![t] = Idle]
  BY DEF End, SetMgr, Done
<1>5. \A a : TokensFor(server, a) \subseteq TokensFor(server', a)
  OBVIOUS
<1>6. ThreadFits(Idle, n, profile[WindowOf[t]], EndedHere(t))
  BY DEF ThreadFits, Idle, RefreshSteps, LoginSteps
<1>7. HeldTokens(server', n, Idle) /\ SignedInFits(t, n)
  BY <1>1, <1>5 DEF HeldTokens, SignedInFits
<1> HIDE DEF n
<1> QED BY <1>1, <1>3, <1>4, <1>5, <1>6, <1>7, Facts, SameLoginStep

\* A thread that is current has the account of its manager, not signed out of.
LEMMA Current ==
    ASSUME SessionInv, NEW t \in Threads, thread[t].pc \in RefreshSteps
    PROVE  /\ thread[t].account \in Accounts
           /\ SignedInFits(t, Mgr(t)) /\ HeldTokens(server, Mgr(t), Idle)
           /\ IsCurrent(t) => /\ Mgr(t).account = thread[t].account
                              /\ thread[t].account \notin EndedHere(t)
                              /\ <<WindowOf[t], thread[t].account>> \notin out.erased
<1>1. thread[t].account \in Accounts
  BY Facts DEF ThreadFits
<1>2. SignedInFits(t, Mgr(t))
  BY Facts DEF SignedInFits, ManagerFits
<1>3. HeldTokens(server, Mgr(t), Idle)
  BY Facts DEF HeldTokens, Idle, TokensFor
<1>4. IsCurrent(t) => Mgr(t).account = thread[t].account /\ thread[t].account \notin EndedHere(t)
  BY Facts DEF IsCurrent, ManagerFits
<1>5. IsCurrent(t) => <<WindowOf[t], thread[t].account>> \notin out.erased
  BY <1>1, <1>4 DEF EndedHere, EndedIn, SessionInv, ErasedInv
<1> QED BY <1>1, <1>2, <1>3, <1>4, <1>5

\* A step of a refresh that changes nothing but what its thread holds.
LEMMA RefreshGoesOn ==
    ASSUME SessionInv, NEW t \in Threads, NEW th \in Thread, thread[t].pc \in RefreshSteps,
           thread' = [thread EXCEPT ![t] = th],
           UNCHANGED <<keyring, store, mem, profile, out>>,
           lease' \in [Accounts -> Windows \cup {Nobody}],
           server' \in Service, server'.valid \subseteq 1..server'.issued,
           \A a : TokensFor(server, a) \subseteq TokensFor(server', a),
           th = Idle \/ ( /\ th.account = thread[t].account /\ th.logouts = thread[t].logouts
                          /\ th.session \in TokensFor(server', th.account)
                          /\ th.pc \in RefreshSteps )
    PROVE  SessionInv'
<1> DEFINE m == Mgr(t)
<1>1. SharedTypes'
  BY DEF SessionInv, Types, SharedTypes
<1>2. mem' = [mem EXCEPT ![WindowOf[t]] = m]
  BY Facts DEF Mgr, SessionInv, Types
<1>3. KeyringKept /\ SameLogin(Mgr(t), m)
  BY DEF KeyringKept, SameLogin
<1>4. HeldTokens(server', m, th)
  BY Facts DEF HeldTokens, TokensFor, Idle
<1>5. ThreadFits(th, m, profile[WindowOf[t]], EndedHere(t))
  <2>1. th.pc \notin LoginSteps \cup {"save", "commit", "end", "erase", "logout"}
    BY DEF RefreshSteps, LoginSteps, Idle
  <2>2. CASE th = Idle BY <2>1, <2>2 DEF ThreadFits, Idle, RefreshSteps
  <2>3. CASE th # Idle
    <3>1. th.pc # "idle" /\ th.pc \notin {"end", "erase", "logout"}
      BY <2>1, <2>3 DEF RefreshSteps
    <3> QED BY <2>1, <2>3, <3>1, Facts DEF ThreadFits
  <2> QED BY <2>2, <2>3
<1>6. SignedInFits(t, m)
  BY Current
<1>7. m \in Manager
  BY Facts
<1> QED BY <1>1, <1>2, <1>3, <1>4, <1>5, <1>6, <1>7, SameLoginStep

LEMMA StaysWithMem ==
    ASSUME SessionInv, NEW t \in Threads
    PROVE  /\ Idle \in Thread /\ lease \in [Accounts -> Windows \cup {Nobody}]
           /\ server \in Service /\ server.valid \subseteq 1..server.issued
           /\ keyring \in [Accounts -> Entry]
           /\ thread[t].session \in TokensFor(server, thread[t].account)
           /\ thread[t] \in Thread
BY Facts DEF SessionInv, Types, SharedTypes, HeldTokens

LEMMA Begins ==
    ASSUME SessionInv, NEW t \in Threads, thread[t].pc \in {"ask", "wait"}, Begin(t),
           thread[t].logouts = Mgr(t).logouts,
           UNCHANGED <<server, keyring, lease, store, profile, out>>
    PROVE  SessionInv'
<1> DEFINE m == Mgr(t)
           n == [m EXCEPT !.refreshing = thread[t].account, !.rotation = NoRotation]
           kept == m.rotation # NoRotation
           th == [thread[t] EXCEPT !.pc = IF kept THEN "settle" ELSE "enter",
                      !.logouts = m.logouts, !.token = m.rotation.original,
                      !.session = m.rotation.session, !.rejected = 0]
<1>1. /\ m \in Manager /\ thread[t] \in Thread /\ HeldTokens(server, m, thread[t])
      /\ thread[t].account \in Accounts /\ m.account = thread[t].account
      /\ SignedInFits(t, m)
  BY Facts, Current DEF ThreadFits, RefreshSteps
<1>2. NoRotation \in [session : Tokens, original : Tokens] /\ 0 \in Tokens
  BY SessionAssumption DEF NoRotation, Tokens
<1>3. /\ n \in Manager /\ SameLogin(m, n) /\ n.session = m.session /\ n.state = m.state
      /\ n.account = m.account /\ n.rotation = NoRotation
  BY <1>1, <1>2 DEF Manager, SomeAccount, SameLogin
<1>4. /\ th \in Thread /\ th.account = m.account /\ th.logouts = m.logouts
      /\ th.session = m.rotation.session /\ th.pc \in {"settle", "enter"}
  BY <1>1, <1>2 DEF Thread, Manager, Steps
<1>5. mem' = [mem EXCEPT ![WindowOf[t]] = n] /\ thread' = [thread EXCEPT ![t] = th]
  BY DEF Begin, SetMgr, SessionInv, Types
<1>6. SharedTypes'
  BY DEF SessionInv, Types, SharedTypes
<1>7. \A a : TokensFor(server, a) = TokensFor(server', a)
  OBVIOUS
<1>8. KeyringKept
  BY DEF KeyringKept
<1> HIDE DEF n, th
<1>9. HeldTokens(server', n, th)
  BY <1>1, <1>3, <1>4, <1>7 DEF HeldTokens, NoRotation, TokensFor
<1>10. SignedInFits(t, n)
  BY <1>1, <1>3 DEF SignedInFits
<1>11. ThreadFits(th, n, profile[WindowOf[t]], EndedHere(t))
  BY <1>1, <1>3, <1>4 DEF ThreadFits, SameLogin, RefreshSteps, LoginSteps, Manager
<1> QED BY <1>3, <1>4, <1>5, <1>6, <1>7, <1>8, <1>9, <1>10, <1>11, SameLoginStep

LEMMA DecideStep ==
    ASSUME SessionInv, NEW t \in Threads, thread[t].pc \in {"ask", "wait"}, Decide(t),
           thread[t].logouts = Mgr(t).logouts,
           UNCHANGED <<server, keyring, lease, store, profile, out>>
    PROVE  SessionInv'
<1>1. CASE Begin(t) BY <1>1, Begins
<1>2. CASE Done(t) /\ UNCHANGED mem
  BY <1>2, StaysWithMem, RefreshGoesOn DEF Done, RefreshSteps
<1> QED BY <1>1, <1>2 DEF Decide

LEMMA AskStep == ASSUME SessionInv, NEW t \in Threads, Ask(t) PROVE SessionInv'
<1>1. CASE Done(t) /\ UNCHANGED mem
  BY <1>1, StaysWithMem, RefreshGoesOn DEF Ask, Done, RefreshSteps
<1>2. CASE /\ UNCHANGED mem
           /\ thread' = [thread EXCEPT ![t].pc = "wait",
                             ![t].same = Mgr(t).refreshing = thread[t].account]
  <2> DEFINE th == [thread[t] EXCEPT !.pc = "wait", !.same = Mgr(t).refreshing = thread[t].account]
  <2>1. thread[t] \in Thread /\ thread \in [Threads -> Thread]
    BY Facts DEF SessionInv, Types
  <2>2. (Mgr(t).refreshing = thread[t].account) \in BOOLEAN
    OBVIOUS
  <2>3. /\ th \in Thread /\ th.account = thread[t].account /\ th.logouts = thread[t].logouts
        /\ th.session = thread[t].session /\ th.pc = "wait"
    BY <2>1, <2>2 DEF Thread, Steps
  <2>4. thread' = [thread EXCEPT ![t] = th]
    BY <1>2, <2>1
  <2> HIDE DEF th
  <2> QED BY <1>2, <2>3, <2>4, StaysWithMem, RefreshGoesOn DEF Ask, RefreshSteps
<1>3. CASE Decide(t) /\ IsCurrent(t)
  BY <1>3, DecideStep DEF Ask, IsCurrent
<1> QED BY <1>1, <1>2, <1>3 DEF Ask

LEMMA WaitStep == ASSUME SessionInv, NEW t \in Threads, Wait(t) PROVE SessionInv'
<1>1. CASE Done(t) /\ UNCHANGED mem
  BY <1>1, StaysWithMem, RefreshGoesOn DEF Wait, Done, RefreshSteps
<1>2. CASE Decide(t) /\ Mgr(t).logouts = thread[t].logouts
  BY <1>2, DecideStep DEF Wait
<1> QED BY <1>1, <1>2 DEF Wait

LEMMA WantStep == ASSUME SessionInv, NEW t \in Threads, Want(t) PROVE SessionInv'
<1> DEFINE m == Mgr(t)
<1>1. PICK rejected \in {0, m.session} :
         thread' = [thread EXCEPT ![t] =
            [@ EXCEPT !.pc = "ask", !.account = m.account, !.logouts = m.logouts,
                      !.rejected = rejected]]
  BY DEF Want
<1> DEFINE th == [thread[t] EXCEPT !.pc = "ask", !.account = m.account, !.logouts = m.logouts,
                                   !.rejected = rejected]
<1>2. /\ m \in Manager /\ thread[t] \in Thread /\ m.account \in Accounts /\ thread[t].session = 0
      /\ HeldTokens(server, m, thread[t]) /\ SignedInFits(t, m)
  BY Facts DEF Want, ThreadFits, ManagerFits, SignedInFits, Manager, SomeAccount
<1>3. m.session \in Tokens /\ 0 \in Tokens
  BY <1>2, SessionAssumption DEF Manager, Tokens
<1>4. /\ th \in Thread /\ th.account = m.account /\ th.logouts = m.logouts
      /\ th.session = 0 /\ th.pc = "ask"
  BY <1>2, <1>3 DEF Thread, Manager, Steps
<1>5. thread' = [thread EXCEPT ![t] = th]
  BY <1>1 DEF SessionInv, Types
<1>6. SharedTypes' /\ KeyringKept /\ SameLogin(m, m)
  BY DEF SessionInv, Types, SharedTypes, KeyringKept, SameLogin, Want
<1>7. mem' = [mem EXCEPT ![WindowOf[t]] = m]
  BY Facts DEF Want, Mgr, SessionInv, Types
<1> HIDE DEF th
<1>8. HeldTokens(server', m, th) /\ \A a : TokensFor(server, a) \subseteq TokensFor(server', a)
  BY <1>2, <1>4 DEF HeldTokens, TokensFor, Want
<1>9. ThreadFits(th, m, profile[WindowOf[t]], EndedHere(t))
  BY <1>2, <1>4 DEF ThreadFits, RefreshSteps, LoginSteps, Manager
<1>10. UNCHANGED <<profile, out>>
  BY DEF Want
<1> QED BY <1>2, <1>4, <1>5, <1>6, <1>7, <1>8, <1>9, <1>10, SameLoginStep

\* Only the thread moves, to another step of the refresh.
LEMMA StepWithin ==
    ASSUME SessionInv, NEW t \in Threads, thread[t].pc \in RefreshSteps,
           NEW pc \in RefreshSteps, Step(t, pc),
           UNCHANGED <<keyring, store, mem, profile, out>>,
           lease' \in [Accounts -> Windows \cup {Nobody}],
           server' \in Service, server'.valid \subseteq 1..server'.issued,
           \A a : TokensFor(server, a) \subseteq TokensFor(server', a)
    PROVE  SessionInv'
<1> DEFINE th == [thread[t] EXCEPT !.pc = pc]
<1>1. /\ th \in Thread /\ th.account = thread[t].account /\ th.logouts = thread[t].logouts
      /\ th.session = thread[t].session /\ th.pc = pc
  BY StaysWithMem DEF Thread, Steps, RefreshSteps
<1>2. thread' = [thread EXCEPT ![t] = th]
  BY DEF Step, SessionInv, Types
<1>3. th.session \in TokensFor(server', th.account)
  BY <1>1, StaysWithMem
<1> HIDE DEF th
<1> QED BY <1>1, <1>2, <1>3, RefreshGoesOn

LEMMA EnterStep == ASSUME SessionInv, NEW t \in Threads, Enter(t) PROVE SessionInv'
<1>1. lease' \in [Accounts -> Windows \cup {Nobody}]
  BY Facts DEF Enter, SessionInv, Types, SharedTypes
<1>2. \E pc \in RefreshSteps : Step(t, pc)
  BY DEF Enter, RefreshSteps
<1>3. thread[t].pc \in RefreshSteps /\ UNCHANGED <<server, keyring, store, mem, profile, out>>
  BY DEF Enter, RefreshSteps
<1> QED BY <1>1, <1>2, <1>3, StaysWithMem, StepWithin

LEMMA LoadStep == ASSUME SessionInv, NEW t \in Threads, Load(t) PROVE SessionInv'
<1> DEFINE a == thread[t].account token == keyring[a].token
<1>0. /\ thread[t].pc \in RefreshSteps /\ UNCHANGED <<server, keyring, store, profile, out>>
      /\ a \in Accounts /\ SignedInFits(t, Mgr(t)) /\ HeldTokens(server, Mgr(t), Idle)
      /\ Mgr(t) \in Manager /\ thread[t] \in Thread /\ KeyringKept
  BY Current, Facts DEF Load, RefreshSteps, KeyringKept
<1>1. CASE End(t, Mgr(t), TRUE)
  BY <1>0, <1>1, StaysWithMem, RefreshEnds DEF SameLogin
<1>2. CASE End(t, State(Mgr(t), "signed_out"), TRUE)
  <2> DEFINE n == State(Mgr(t), "signed_out")
  <2>1. n \in Manager /\ SameLogin(Mgr(t), n) /\ SignedInFits(t, n)
    BY <1>0, Managers DEF SignedInFits, States, Signed
  <2>2. HeldTokens(server, n, Idle)
    BY <1>0, Managers DEF HeldTokens, States, SameLogin, TokensFor
  <2> HIDE DEF n
  <2> QED BY <1>0, <1>2, <2>1, <2>2, StaysWithMem, RefreshEnds DEF n
<1>3. CASE /\ thread' = [thread EXCEPT ![t].token = token,
                  ![t].pc = IF thread[t].session = 0 THEN "request" ELSE "settle"]
           /\ UNCHANGED <<mem, lease>>
  <2> DEFINE th == [thread[t] EXCEPT !.token = token,
                        !.pc = IF thread[t].session = 0 THEN "request" ELSE "settle"]
  <2>1. token \in Tokens
    BY <1>0, StaysWithMem DEF Entry
  <2>2. /\ th \in Thread /\ th.account = a /\ th.logouts = thread[t].logouts
        /\ th.session = thread[t].session /\ th.pc \in RefreshSteps
    BY <1>0, <2>1 DEF Thread, Steps, RefreshSteps
  <2>3. thread' = [thread EXCEPT ![t] = th]
    BY <1>3 DEF SessionInv, Types
  <2> HIDE DEF th
  <2> QED BY <1>0, <1>3, <2>2, <2>3, StaysWithMem, RefreshGoesOn
<1>4. CASE Step(t, "failed") /\ UNCHANGED <<mem, lease>>
  BY <1>0, <1>4, StaysWithMem, StepWithin DEF RefreshSteps
<1> QED BY <1>1, <1>2, <1>3, <1>4 DEF Load, Proceed

LEMMA RequestStep == ASSUME SessionInv, NEW t \in Threads, Request(t) PROVE SessionInv'
<1> DEFINE a == thread[t].account token == thread[t].token
<1>0. /\ thread[t].pc \in RefreshSteps /\ UNCHANGED <<keyring, lease, store, mem, profile, out>>
      /\ a \in Accounts /\ thread[t] \in Thread /\ token \in Tokens
      /\ thread \in [Threads -> Thread]
  BY Current, Facts DEF Request, RefreshSteps, Thread, SessionInv, Types
<1>1. CASE Issue(a, token) /\ \/ Step(t, "settle")
                              \/ thread' = [thread EXCEPT ![t].session = server.issued + 1,
                                                          ![t].pc = "settle"]
  <2>1. /\ server' \in Service /\ server'.valid \subseteq 1..server'.issued
        /\ \A b : TokensFor(server, b) \subseteq TokensFor(server', b)
        /\ server.issued + 1 \in TokensFor(server', a) /\ server.issued + 1 \in Tokens
    BY <1>0, <1>1, Issued
  <2>2. CASE Step(t, "settle")
    BY <1>0, <2>1, <2>2, StaysWithMem, StepWithin DEF RefreshSteps
  <2>3. CASE thread' = [thread EXCEPT ![t].session = server.issued + 1, ![t].pc = "settle"]
    <3> DEFINE th == [thread[t] EXCEPT !.session = server.issued + 1, !.pc = "settle"]
    <3>1. /\ th \in Thread /\ th.account = a /\ th.logouts = thread[t].logouts
          /\ th.session = server.issued + 1 /\ th.pc \in RefreshSteps
      BY <1>0, <2>1 DEF Thread, Steps, RefreshSteps
    <3>2. thread' = [thread EXCEPT ![t] = th]
      BY <1>0, <2>3
    <3> HIDE DEF th
    <3> QED BY <1>0, <2>1, <3>1, <3>2, StaysWithMem, RefreshGoesOn
  <2> QED BY <1>1, <2>2, <2>3
<1>2. CASE Revoke(a) /\ thread' = [thread EXCEPT ![t].refused = TRUE, ![t].pc = "settle"]
  <2>1. /\ server' \in Service /\ server'.valid \subseteq 1..server'.issued
        /\ \A b : TokensFor(server', b) = TokensFor(server, b)
    BY <1>2, Revoked
  <2> DEFINE th == [thread[t] EXCEPT !.refused = TRUE, !.pc = "settle"]
  <2>2. /\ th \in Thread /\ th.account = a /\ th.logouts = thread[t].logouts
        /\ th.session = thread[t].session /\ th.pc \in RefreshSteps
    BY <1>0 DEF Thread, Steps, RefreshSteps
  <2>3. thread' = [thread EXCEPT ![t] = th]
    BY <1>0, <1>2
  <2>4. th.session \in TokensFor(server', th.account) /\ lease' = lease
    BY <1>0, <2>1, <2>2, StaysWithMem
  <2> HIDE DEF th
  <2> QED BY <1>0, <2>1, <2>2, <2>3, <2>4, StaysWithMem, RefreshGoesOn
<1>3. CASE UNCHANGED server /\ Step(t, "settle")
  BY <1>0, <1>3, StaysWithMem, StepWithin DEF RefreshSteps
<1> QED BY <1>1, <1>2, <1>3 DEF Request

\* A refresh answer that is cut off leaves the threads and the leases consistent.
LEMMA CutOffStep == ASSUME SessionInv, NEW t \in Threads, CutOff(t) PROVE SessionInv'
<1> DEFINE a == thread[t].account token == thread[t].token
<1>1. /\ thread[t].pc \in RefreshSteps /\ UNCHANGED <<keyring, store, profile, out>>
      /\ a \in Accounts /\ token \in Tokens /\ KeyringKept /\ End(t, Mgr(t), TRUE)
      /\ SignedInFits(t, Mgr(t)) /\ HeldTokens(server, Mgr(t), Idle) /\ Mgr(t) \in Manager
  BY Current, Facts DEF CutOff, RefreshSteps, Thread, KeyringKept
<1>2. /\ server' \in Service /\ server'.valid \subseteq 1..server'.issued
      /\ \A b : TokensFor(server, b) \subseteq TokensFor(server', b)
  <2>1. CASE Issue(a, token)
    BY <1>1, <2>1, Issued
  <2>2. CASE Revoke(a)
    BY <2>2, Revoked
  <2> QED BY <2>1, <2>2 DEF CutOff
<1> QED BY <1>1, <1>2, StaysWithMem, RefreshEnds DEF SameLogin

\* Manager n may stand when the refresh of t ends.
MayEndWith(t, n) ==
    /\ n \in Manager /\ SameLogin(Mgr(t), n) /\ SignedInFits(t, n)
    /\ HeldTokens(server, n, Idle)

LEMMA EndsWith ==
    ASSUME SessionInv, NEW t \in Threads, thread[t].pc \in RefreshSteps
    PROVE  /\ MayEndWith(t, Mgr(t)) /\ MayEndWith(t, Offline(Mgr(t)))
           /\ MayEndWith(t, State(Mgr(t), "signed_out"))
           /\ MayEndWith(t, State(Mgr(t), "reauth"))
           /\ IsCurrent(t) /\ thread[t].session # 0 =>
                MayEndWith(t, Remember(Mgr(t), thread[t].session))
<1> DEFINE m == Mgr(t) a == m.account
<1>1. /\ m \in Manager /\ SignedInFits(t, m) /\ HeldTokens(server, m, Idle) /\ SameLogin(m, m)
      /\ thread[t].session \in Tokens /\ thread[t].session \in TokensFor(server, thread[t].account)
      /\ \A b : 0 \in TokensFor(server, b)
  BY Current, Facts, StaysWithMem DEF Thread, SameLogin, TokensFor
<1>2. ASSUME NEW n \in Manager, SameLogin(m, n), n.rotation = m.rotation,
             \/ n.session = 0 /\ n.state # Signed
             \/ /\ n.session # 0 /\ n.state = Signed /\ a \in Accounts \ EndedHere(t)
                /\ n.session \in TokensFor(server, a)
      PROVE  MayEndWith(t, n)
  <2>1. n.account = a
    BY <1>2 DEF SameLogin
  <2>2. SignedInFits(t, n)
    BY <1>2, <2>1 DEF SignedInFits
  <2>3. n.rotation.session \in TokensFor(server, a) /\ Idle.session \in TokensFor(server, Idle.account)
    BY <1>1, <1>2 DEF HeldTokens
  <2>4. HeldTokens(server, n, Idle)
    BY <1>1, <1>2, <2>1, <2>3 DEF HeldTokens
  <2> QED BY <1>2, <2>2, <2>4 DEF MayEndWith
<1>3. MayEndWith(t, m)
  BY <1>1 DEF MayEndWith
<1>4. MayEndWith(t, Offline(m))
  BY <1>1, <1>2, Managers DEF Signed
<1>5. ASSUME NEW s \in {"signed_out", "reauth"} PROVE MayEndWith(t, State(m, s))
  <2>1. s \in States /\ s # Signed
    BY DEF States, Signed
  <2>2. /\ State(m, s) \in Manager /\ SameLogin(m, State(m, s)) /\ State(m, s).session = 0
        /\ State(m, s).state # Signed /\ State(m, s).rotation = m.rotation
    BY <1>1, <2>1, Managers
  <2> QED BY <1>2, <2>2
<1>6. ASSUME IsCurrent(t), thread[t].session # 0
      PROVE  MayEndWith(t, Remember(m, thread[t].session))
  <2> DEFINE n == Remember(m, thread[t].session)
  <2>1. /\ n \in Manager /\ SameLogin(m, n) /\ n.session = thread[t].session
        /\ n.state = Signed /\ n.rotation = m.rotation
    BY <1>1, Managers
  <2>2. a = thread[t].account /\ a \in Accounts \ EndedHere(t)
    BY <1>6, Current
  <2> HIDE DEF n
  <2>3. MayEndWith(t, n)
    BY <1>1, <1>2, <1>6, <2>1, <2>2
  <2> QED BY <2>3 DEF n
<1> QED BY <1>3, <1>4, <1>5, <1>6

LEMMA EndsWell ==
    ASSUME SessionInv, NEW t \in Threads, NEW n, NEW release, End(t, n, release),
           MayEndWith(t, n), UNCHANGED <<server, store, profile, out>>,
           keyring' \in [Accounts -> Entry], KeyringKept
    PROVE  SessionInv'
BY RefreshEnds, StaysWithMem DEF MayEndWith

\* What the refresh stores is a token of its account, or none, and its user
\* has not signed out.
LEMMA StoresWell ==
    ASSUME SessionInv, NEW t \in Threads, thread[t].pc \in RefreshSteps, IsCurrent(t),
           NEW k \in {0, thread[t].session}, keyring' = Stored(t, thread[t].account, k),
           UNCHANGED server
    PROVE  keyring' \in [Accounts -> Entry] /\ KeyringKept
<1> DEFINE a == thread[t].account
<1>1. /\ a \in Accounts /\ <<WindowOf[t], a>> \notin out.erased /\ WindowOf[t] \in Windows
      /\ keyring \in [Accounts -> Entry] /\ k \in Tokens /\ k \in TokensFor(server', a)
  BY Current, Facts, StaysWithMem, SessionAssumption DEF Thread, Tokens, TokensFor
<1> QED BY <1>1 DEF Stored, Entry, KeyringKept

LEMMA SettleStep == ASSUME SessionInv, NEW t \in Threads, Settle(t) PROVE SessionInv'
<1> DEFINE m == Mgr(t) a == thread[t].account session == thread[t].session
<1>0. /\ thread[t].pc \in RefreshSteps /\ UNCHANGED <<server, store, profile, out>>
  BY DEF Settle, RefreshSteps
<1>1. CASE keyring' = keyring /\ \E n \in {m, State(m, "signed_out"), Offline(m)} : End(t, n, TRUE)
  <2>1. PICK n \in {m, State(m, "signed_out"), Offline(m)} : End(t, n, TRUE)
    BY <1>1
  <2>2. MayEndWith(t, n)
    BY <1>0, EndsWith
  <2>3. keyring' \in [Accounts -> Entry] /\ KeyringKept
    BY <1>1, StaysWithMem DEF KeyringKept
  <2> QED BY <1>0, <2>1, <2>2, <2>3, EndsWell
<1>2. CASE /\ IsCurrent(t) /\ Step(t, "failed") /\ UNCHANGED <<mem, lease>>
           /\ keyring' = keyring \/ keyring' = Stored(t, a, session)
  <2> DEFINE th == [thread[t] EXCEPT !.pc = "failed"]
  <2>1. keyring' \in [Accounts -> Entry] /\ KeyringKept
    BY <1>0, <1>2, StaysWithMem, StoresWell DEF KeyringKept
  <2>2. /\ th \in Thread /\ th.account = a /\ th.logouts = thread[t].logouts
        /\ th.session = session /\ th.pc = "failed"
    BY StaysWithMem DEF Thread, Steps
  <2>3. thread' = [thread EXCEPT ![t] = th] /\ mem' = [mem EXCEPT ![WindowOf[t]] = m]
    BY <1>2, Facts DEF Step, Mgr, SessionInv, Types
  <2>4. SharedTypes'
    BY <1>0, <1>2, <2>1 DEF SessionInv, Types, SharedTypes
  <2> HIDE DEF th
  <2>5. HeldTokens(server', m, th)
    BY <1>0, <2>2, Facts DEF HeldTokens
  <2>6. ThreadFits(th, m, profile[WindowOf[t]], EndedHere(t))
    BY <1>0, <2>2, Facts DEF ThreadFits, RefreshSteps, LoginSteps
  <2>7. m \in Manager /\ SameLogin(m, m) /\ SignedInFits(t, m)
    BY <1>0, Current, Facts DEF SameLogin
  <2>8. \A b : TokensFor(server, b) \subseteq TokensFor(server', b)
    BY <1>0
  <2> QED BY <1>0, <2>1, <2>2, <2>3, <2>4, <2>5, <2>6, <2>7, <2>8, SameLoginStep
<1>3. CASE /\ IsCurrent(t)
           /\ keyring' = keyring \/ keyring' = Stored(t, a, 0)
           /\ End(t, [State(m, "reauth") EXCEPT !.revoked = @ \cup {a}], TRUE)
  <2> DEFINE k == State(m, "reauth") n == [k EXCEPT !.revoked = @ \cup {a}]
  <2>1. MayEndWith(t, k) /\ a \in Accounts
    BY <1>0, EndsWith, Current
  <2>2. /\ n \in Manager /\ n.account = k.account /\ n.session = k.session
        /\ n.rotation = k.rotation /\ n.state = k.state /\ SameLogin(k, n)
    <3> HIDE DEF k
    <3> QED BY <2>1 DEF MayEndWith, Manager, SameLogin
  <2>3. MayEndWith(t, n)
    <3> HIDE DEF k, n
    <3> QED BY <2>1, <2>2 DEF MayEndWith, SameLogin, SignedInFits, HeldTokens
  <2>4. keyring' \in [Accounts -> Entry] /\ KeyringKept
    BY <1>0, <1>3, StaysWithMem, StoresWell DEF KeyringKept
  <2> QED BY <1>0, <1>3, <2>3, <2>4, EndsWell
<1>4. CASE /\ IsCurrent(t) /\ session # 0 /\ keyring' = Stored(t, a, session)
           /\ End(t, Remember(m, session), TRUE)
  <2>1. MayEndWith(t, Remember(m, session))
    BY <1>0, <1>4, EndsWith
  <2>2. keyring' \in [Accounts -> Entry] /\ KeyringKept
    BY <1>0, <1>4, StoresWell
  <2> QED BY <1>0, <1>4, <2>1, <2>2, EndsWell
<1> QED BY <1>1, <1>2, <1>3, <1>4 DEF Settle

\* A session that could not be stored is kept in memory.
LEMMA FailedStep == ASSUME SessionInv, NEW t \in Threads, Failed(t) PROVE SessionInv'
<1> DEFINE m == Mgr(t)
           rotation == [session |-> thread[t].session, original |-> thread[t].token]
<1>0. /\ thread[t].pc \in RefreshSteps /\ UNCHANGED <<server, keyring, store, profile, out>>
      /\ keyring' \in [Accounts -> Entry] /\ KeyringKept
  BY StaysWithMem DEF Failed, RefreshSteps, KeyringKept
<1>1. CASE \E n \in {m, Offline(m)}, release \in BOOLEAN : End(t, n, release)
  <2>1. PICK n \in {m, Offline(m)}, release \in BOOLEAN : End(t, n, release)
    BY <1>1
  <2>2. MayEndWith(t, n)
    BY <1>0, EndsWith
  <2> QED BY <1>0, <2>1, <2>2, EndsWell
<1>2. CASE IsCurrent(t) /\ End(t, [Offline(m) EXCEPT !.rotation = rotation], FALSE)
  <2> DEFINE k == Offline(m) n == [k EXCEPT !.rotation = rotation]
  <2>1. /\ MayEndWith(t, k) /\ m.account = thread[t].account
        /\ rotation \in [session : Tokens, original : Tokens]
        /\ rotation.session \in TokensFor(server, m.account)
    BY <1>0, <1>2, EndsWith, Current, StaysWithMem DEF Thread
  <2>2. /\ n \in Manager /\ n.account = k.account /\ n.session = k.session
        /\ n.rotation = rotation /\ n.state = k.state /\ SameLogin(k, n)
    <3> HIDE DEF k, rotation
    <3> QED BY <2>1 DEF MayEndWith, Manager, SameLogin
  <2>3. MayEndWith(t, n)
    <3> HIDE DEF k, n, rotation
    <3> QED BY <2>1, <2>2 DEF MayEndWith, SameLogin, SignedInFits, HeldTokens
  <2> QED BY <1>0, <1>2, <2>3, EndsWell
<1> QED BY <1>1, <1>2 DEF Failed

LEMMA BackoffStep ==
    ASSUME SessionInv, NEW w \in Windows, BackoffEnds(w)
    PROVE  SessionInv'
<1> DEFINE n == [mem[w] EXCEPT !.backoff = FALSE]
<1>1. /\ mem[w] \in Manager /\ n \in Manager /\ SameLogin(mem[w], n)
      /\ n.session = mem[w].session /\ n.state = mem[w].state /\ n.rotation = mem[w].rotation
  BY DEF SessionInv, Types, Manager, SameLogin
<1>2. mem' = [mem EXCEPT ![w] = n] /\ UNCHANGED <<server, keyring, lease, store, thread, profile, out>>
  BY DEF BackoffEnds
<1> HIDE DEF n
<1>3. Types'
  BY <1>1, <1>2 DEF SessionInv, Types, SharedTypes
<1>4. mem'[w] = n /\ \A v \in Windows \ {w} : mem'[v] = mem[v]
  BY <1>2 DEF SessionInv, Types
<1>5. TokensInv'
  BY <1>1, <1>2, <1>4 DEF SessionInv, TokensInv, SameLogin
<1>6. \A v : EndedIn(out, v)' = EndedIn(out, v)
  BY <1>2 DEF EndedIn
<1>7. ASSUME NEW s \in Threads
      PROVE  ThreadFits(thread'[s], mem'[WindowOf[s]], profile'[WindowOf[s]],
                        EndedIn(out, WindowOf[s])')
  <2>1. ThreadFits(thread[s], mem[WindowOf[s]], profile[WindowOf[s]], EndedIn(out, WindowOf[s]))
    BY DEF SessionInv, LoginInv
  <2>2. CASE WindowOf[s] = w
    <3>1. Ages(mem[w], n, EndedIn(out, w), EndedIn(out, w))
      BY <1>1 DEF Ages, SameLogin, Remembered, Manager
    <3>2. Profiles(profile[w], profile[w], n, EndedIn(out, w))
      BY DEF Profiles
    <3>3. thread[s] \in Thread /\ profile[w] \in ProfileState
      BY DEF SessionInv, Types
    <3>4. ThreadFits(thread[s], n, profile[w], EndedIn(out, w))
      BY <1>1, <2>1, <2>2, <3>1, <3>2, <3>3, OthersFit
    <3> QED BY <1>2, <1>4, <1>6, <2>2, <3>4
  <2>3. CASE WindowOf[s] # w
    <3>1. mem'[WindowOf[s]] = mem[WindowOf[s]]
      BY <1>4, <2>3, SessionAssumption
    <3> QED BY <1>2, <1>6, <2>1, <3>1
  <2> QED BY <2>2, <2>3
<1>8. ASSUME NEW v \in Windows PROVE ManagerFits(mem'[v], profile'[v], EndedIn(out, v)')
  <2>1. ManagerFits(mem[v], profile[v], EndedIn(out, v))
    BY DEF SessionInv, LoginInv
  <2>2. CASE v = w
    BY <1>1, <1>2, <1>4, <1>6, <2>1, <2>2 DEF ManagerFits, SameLogin, Remembered
  <2>3. CASE v # w
    BY <1>2, <1>4, <1>6, <2>1, <2>3
  <2> QED BY <2>2, <2>3
<1>9. LoginInv' /\ ErasedInv'
  BY <1>2, <1>7, <1>8 DEF LoginInv, SessionInv, ErasedInv
<1> QED BY <1>3, <1>5, <1>9 DEF SessionInv

-----------------------------------------------------------------------------
(* Signing in.                                                             *)

\* A step that leaves the manager alone.
LEMMA SameManagerStep ==
    ASSUME SessionInv, NEW t \in Threads, NEW th \in Thread,
           thread' = [thread EXCEPT ![t] = th], UNCHANGED <<mem, profile, out>>,
           SharedTypes', KeyringKept,
           \A a : TokensFor(server, a) \subseteq TokensFor(server', a),
           th.session \in TokensFor(server', th.account),
           ThreadFits(th, Mgr(t), profile[WindowOf[t]], EndedHere(t))
    PROVE  SessionInv'
<1> DEFINE m == Mgr(t)
<1>1. mem' = [mem EXCEPT ![WindowOf[t]] = m]
  BY Facts DEF Mgr, SessionInv, Types
<1>2. HeldTokens(server', m, th)
  BY Facts DEF HeldTokens
<1>3. m \in Manager /\ SameLogin(m, m) /\ SignedInFits(t, m)
  BY Facts DEF SameLogin, ManagerFits, SignedInFits
<1> QED BY <1>1, <1>2, <1>3, SameLoginStep

LEMMA ActivateSaveStep ==
    ASSUME SessionInv, NEW t \in Threads, ActivateSave(t)
    PROVE  SessionInv'
<1> DEFINE a == thread[t].account saved == Stored(t, a, thread[t].session)
<1>0. /\ thread[t].pc = "save" /\ UNCHANGED <<server, lease, mem, profile, out>>
      /\ thread[t] \in Thread /\ a \in Accounts /\ WindowOf[t] \in Windows
      /\ thread[t].session \in Tokens /\ thread[t].session \in TokensFor(server, a)
  BY Facts, StaysWithMem DEF ActivateSave, ThreadFits, LoginSteps, Thread
<1>1. PICK pc \in {"cancelled", "commit", "unsaved"} : Step(t, pc)
  BY DEF ActivateSave
<1>2. keyring' = keyring \/ (keyring' = saved /\ MayActivate(t))
  BY DEF ActivateSave
<1>3. keyring' \in [Accounts -> Entry] /\ KeyringKept
  <2>1. CASE keyring' = keyring
    BY <2>1, StaysWithMem DEF KeyringKept
  <2>2. CASE keyring' = saved /\ MayActivate(t)
    <3>1. a \notin EndedHere(t)
      BY <1>0, <2>2, Facts DEF MayActivate, ThreadFits
    <3>2. <<WindowOf[t], a>> \notin out.erased
      BY <1>0, <3>1 DEF EndedHere, EndedIn, SessionInv, ErasedInv
    <3>3. keyring \in [Accounts -> Entry]
      BY StaysWithMem
    <3> QED BY <1>0, <2>2, <3>2, <3>3 DEF Stored, Entry, KeyringKept
  <2> QED BY <1>2, <2>1, <2>2
<1>4. store' \in Threads \cup {Nobody}
  BY DEF ActivateSave, SessionInv, Types, SharedTypes
<1>5. SharedTypes'
  BY <1>0, <1>3, <1>4 DEF SessionInv, Types, SharedTypes
<1> DEFINE th == [thread[t] EXCEPT !.pc = pc]
<1>6. /\ th \in Thread /\ th.pc = pc /\ th.account = a /\ th.session = thread[t].session
      /\ th.activation = thread[t].activation /\ th.logouts = thread[t].logouts
      /\ th.previous = thread[t].previous
  BY <1>0, <1>1 DEF Thread, Steps
<1>7. thread' = [thread EXCEPT ![t] = th]
  BY <1>1 DEF Step, SessionInv, Types
<1> HIDE DEF th
<1>8. ThreadFits(th, Mgr(t), profile[WindowOf[t]], EndedHere(t))
  <2>1. th.pc \in LoginSteps /\ th.pc \notin RefreshSteps /\ th.pc # "idle"
    BY <1>1, <1>6 DEF LoginSteps, RefreshSteps
  <2>2. thread[t].pc \in LoginSteps /\ thread[t].pc \in {"save", "commit"}
    BY <1>0 DEF LoginSteps
  <2> QED BY <2>1, <2>2, <1>6, Facts DEF ThreadFits
<1>9. th.session \in TokensFor(server', th.account)
      /\ \A b : TokensFor(server, b) \subseteq TokensFor(server', b)
  BY <1>0, <1>6
<1> QED BY <1>0, <1>3, <1>5, <1>6, <1>7, <1>8, <1>9, SameManagerStep

\* A step that ends what the thread does and may change the profile state.
LEMMA ProfileStep ==
    ASSUME SessionInv, NEW t \in Threads, NEW p \in ProfileState, Done(t),
           profile' = [profile EXCEPT ![WindowOf[t]] = p],
           UNCHANGED <<keyring, lease, store, mem, out>>,
           server' \in Service, server'.valid \subseteq 1..server'.issued,
           \A a : TokensFor(server, a) \subseteq TokensFor(server', a),
           Profiles(profile[WindowOf[t]], p, Mgr(t), EndedHere(t)),
           p.open => p.account \in Accounts /\ Remembered(p.account, Mgr(t), EndedHere(t))
    PROVE  SessionInv'
<1> DEFINE m == Mgr(t)
<1>1. Moved(t, m, Idle, p)
  BY Facts DEF Moved, Done, Mgr, SessionInv, Types
<1>2. SharedTypes'
  BY DEF SessionInv, Types, SharedTypes
<1>3. \A v : EndedIn(out, v)' = EndedIn(out, v)
  BY DEF EndedIn
<1>4. EndedHere(t)' = EndedHere(t)
  BY <1>3 DEF EndedHere
<1>5. HeldTokens(server', m, Idle)
  BY Facts DEF HeldTokens, Idle, TokensFor
<1>6. Ages(m, m, EndedHere(t), EndedHere(t)')
  BY <1>4, Facts DEF Ages, Manager
<1>7. ThreadFits(Idle, m, p, EndedHere(t)')
  BY DEF ThreadFits, Idle, RefreshSteps, LoginSteps
<1>8. ManagerFits(m, p, EndedHere(t)')
  BY <1>4, Facts DEF ManagerFits
<1>9. \A a \in Accounts : keyring'[a].token \in TokensFor(server', a)
  BY DEF SessionInv, TokensInv
<1>10. Types' /\ TokensInv' /\ LoginInv'
  BY <1>1, <1>2, <1>3, <1>4, <1>5, <1>6, <1>7, <1>8, <1>9, OneThread
<1>11. ErasedInv'
  BY DEF SessionInv, ErasedInv
<1> QED BY <1>10, <1>11 DEF SessionInv

\* The profile states that Opened, NotOpened and Logout write.
LEMMA ProfileEnds ==
    ASSUME SessionInv, NEW t \in Threads, Done(t),
           UNCHANGED <<keyring, lease, store, mem, out>>,
           server' \in Service, server'.valid \subseteq 1..server'.issued,
           \A a : TokensFor(server, a) \subseteq TokensFor(server', a),
           \/ profile' = profile
           \/ profile' = [profile EXCEPT ![WindowOf[t]].open = FALSE]
           \/ /\ profile' = [profile EXCEPT ![WindowOf[t]].open = TRUE]
              /\ thread[t].pc \in LoginSteps
           \/ /\ thread[t].previous # Nobody /\ thread[t].pc \in LoginSteps
              /\ profile' = [profile EXCEPT ![WindowOf[t]] =
                                [account |-> thread[t].previous, open |-> TRUE]]
    PROVE  SessionInv'
<1> DEFINE w == WindowOf[t] p == profile[w]
<1>0. /\ w \in Windows /\ p \in ProfileState /\ profile \in [Windows -> ProfileState]
      /\ thread[t] \in Thread /\ ManagerFits(Mgr(t), p, EndedHere(t))
      /\ ThreadFits(thread[t], Mgr(t), p, EndedHere(t))
  BY Facts DEF SessionInv, Types
<1>1. CASE profile' = profile
  <2>1. profile' = [profile EXCEPT ![w] = p]
    BY <1>0, <1>1
  <2> QED BY <1>0, <2>1, ProfileStep DEF Profiles, ManagerFits
<1>2. CASE profile' = [profile EXCEPT ![w].open = FALSE]
  <2> DEFINE q == [p EXCEPT !.open = FALSE]
  <2>1. q \in ProfileState /\ q.account = p.account /\ ~q.open /\ profile' = [profile EXCEPT ![w] = q]
    BY <1>0, <1>2 DEF ProfileState
  <2> HIDE DEF q
  <2> QED BY <1>0, <2>1, ProfileStep DEF Profiles
<1>3. CASE profile' = [profile EXCEPT ![w].open = TRUE] /\ thread[t].pc \in LoginSteps
  <2> DEFINE q == [p EXCEPT !.open = TRUE]
  <2>1. q \in ProfileState /\ q.account = p.account /\ profile' = [profile EXCEPT ![w] = q]
    BY <1>0, <1>3 DEF ProfileState
  <2>2. p.account \in Accounts /\ Remembered(p.account, Mgr(t), EndedHere(t))
    BY <1>0, <1>3 DEF ThreadFits
  <2> HIDE DEF q
  <2> QED BY <1>0, <2>1, <2>2, ProfileStep DEF Profiles
<1>4. CASE /\ thread[t].previous # Nobody /\ thread[t].pc \in LoginSteps
           /\ profile' = [profile EXCEPT ![w] = [account |-> thread[t].previous, open |-> TRUE]]
  <2> DEFINE q == [account |-> thread[t].previous, open |-> TRUE]
  <2>1. thread[t].previous \in Accounts
    BY <1>0, <1>4 DEF Thread, SomeAccount
  <2>2. q \in ProfileState /\ q.account = thread[t].previous /\ profile' = [profile EXCEPT ![w] = q]
    BY <1>0, <1>4, <2>1 DEF ProfileState, SomeAccount
  <2>3. Remembered(q.account, Mgr(t), EndedHere(t))
    BY <1>0, <1>4, <2>2 DEF ThreadFits
  <2> HIDE DEF q
  <2> QED BY <1>0, <2>1, <2>2, <2>3, ProfileStep DEF Profiles
<1> QED BY <1>1, <1>2, <1>3, <1>4

LEMMA OpenedStep == ASSUME SessionInv, NEW t \in Threads, Opened(t) PROVE SessionInv'
BY StaysWithMem, ProfileEnds DEF Opened, LoginSteps

LEMMA NotOpenedStep == ASSUME SessionInv, NEW t \in Threads, NotOpened(t) PROVE SessionInv'
<1>1. thread[t].pc \in LoginSteps
  BY DEF NotOpened, LoginSteps
<1>2. \/ profile' = profile
      \/ profile' = [profile EXCEPT ![WindowOf[t]].open = FALSE]
      \/ /\ thread[t].previous # Nobody
         /\ profile' = [profile EXCEPT ![WindowOf[t]] =
                           [account |-> thread[t].previous, open |-> TRUE]]
  BY DEF NotOpened
<1>3. Done(t) /\ UNCHANGED <<server, keyring, lease, store, mem, out>>
  BY DEF NotOpened
<1> QED BY <1>1, <1>2, <1>3, StaysWithMem, ProfileEnds

LEMMA LogoutStep == ASSUME SessionInv, NEW t \in Threads, Logout(t) PROVE SessionInv'
<1>1. /\ server' \in Service /\ server'.valid \subseteq 1..server'.issued
      /\ \A a : TokensFor(server, a) \subseteq TokensFor(server', a)
  <2>1. CASE Revoke(thread[t].account) BY <2>1, Revoked
  <2>2. CASE UNCHANGED server BY <2>2, StaysWithMem
  <2> QED BY <2>1, <2>2 DEF Logout
<1>2. /\ Done(t) /\ UNCHANGED <<keyring, lease, store, mem, out>>
      /\ profile' = profile \/ profile' = [profile EXCEPT ![WindowOf[t]].open = FALSE]
  BY DEF Logout
<1> QED BY <1>1, <1>2, ProfileEnds

\* Discard gives up the rotation and nothing else.
LEMMA Discards ==
    ASSUME NEW m \in Manager
    PROVE  /\ Discard(m) \in Manager /\ SameLogin(m, Discard(m))
           /\ Discard(m).session = m.session /\ Discard(m).state = m.state
           /\ Discard(m).rotation.session = 0 /\ Discard(m).revoked = m.revoked
<1>1. NoRotation \in [session : Tokens, original : Tokens] /\ NoRotation.session = 0
  BY SessionAssumption DEF NoRotation, Tokens
<1> QED BY <1>1 DEF Discard, Manager, SameLogin

LEMMA LeaseKept ==
    ASSUME SessionInv, NEW t
    PROVE  LeaseAfterDiscard(t) \in [Accounts -> Windows \cup {Nobody}]
BY DEF LeaseAfterDiscard, SessionInv, Types, SharedTypes

LEMMA SignInStep == ASSUME SessionInv, NEW t \in Threads, SignIn(t) PROVE SessionInv'
<1> DEFINE w == WindowOf[t] m == Mgr(t)
<1>1. PICK a \in Accounts :
         /\ Issue(a, 0)
         /\ profile' = [profile EXCEPT ![w] = [account |-> a, open |-> FALSE]]
         /\ out' = [ended |-> out.ended \ {<<w, a>>}, erased |-> out.erased \ {<<w, a>>}]
         /\ thread' = [thread EXCEPT ![t] = [Idle EXCEPT !.pc = "save", !.account = a,
                !.session = server.issued + 1, !.logouts = m.logouts,
                !.activation = m.activations + 1,
                !.previous = IF profile[w].open THEN profile[w].account ELSE Nobody]]
  BY DEF SignIn
<1> DEFINE previous == IF profile[w].open THEN profile[w].account ELSE Nobody
           th == [Idle EXCEPT !.pc = "save", !.account = a, !.session = server.issued + 1,
                      !.logouts = m.logouts, !.activation = m.activations + 1,
                      !.previous = previous]
           n == [m EXCEPT !.activations = @ + 1]
           p == [account |-> a, open |-> FALSE]
<1>0. /\ w \in Windows /\ m \in Manager /\ Idle \in Thread /\ profile[w] \in ProfileState
      /\ ManagerFits(m, profile[w], EndedHere(t)) /\ HeldTokens(server, m, thread[t])
      /\ UNCHANGED <<keyring, lease, store>>
  BY Facts DEF SignIn
<1>2. /\ server' \in Service /\ server'.valid \subseteq 1..server'.issued
      /\ \A b : TokensFor(server, b) \subseteq TokensFor(server', b)
      /\ server.issued + 1 \in TokensFor(server', a)
      /\ server.issued + 1 \in Tokens /\ server.issued + 1 # 0
  <2>1. 0 \in Tokens
    BY SessionAssumption DEF Tokens
  <2> QED BY <1>1, <2>1, Issued
<1>3. /\ n \in Manager /\ n.activations = m.activations + 1 /\ n.logouts = m.logouts
      /\ n.account = m.account /\ n.blocked = m.blocked /\ n.session = m.session
      /\ n.state = m.state /\ n.rotation = m.rotation
      /\ m.activations \in Nat /\ m.logouts \in Nat
  BY <1>0 DEF Manager
<1>4. previous \in SomeAccount
  BY <1>0 DEF ProfileState, SomeAccount
<1>5. /\ th \in Thread /\ th.pc = "save" /\ th.account = a /\ th.session = server.issued + 1
      /\ th.logouts = m.logouts /\ th.activation = m.activations + 1 /\ th.previous = previous
  <2> HIDE DEF previous
  <2>1. m.activations + 1 \in Nat /\ a \in SomeAccount
    BY <1>3 DEF SomeAccount
  <2>2. Idle \in Thread /\ "save" \in Steps
    BY <1>0 DEF Steps
  <2> QED BY <1>2, <1>3, <1>4, <2>1, <2>2 DEF Thread
<1>6. p \in ProfileState
  BY DEF ProfileState, SomeAccount
<1>7. Moved(t, n, th, p)
  <2>1. mem' = [mem EXCEPT ![w] = n]
    BY DEF SignIn, SetMgr
  <2>2. thread' = [thread EXCEPT ![t] = th]
    BY <1>1
  <2> HIDE DEF n, th
  <2> QED BY <1>1, <1>3, <1>5, <1>6, <2>1, <2>2 DEF Moved
<1>8. out' \in History /\ out'.ended = out.ended \ {<<w, a>>} /\ out'.erased = out.erased \ {<<w, a>>}
  BY <1>1 DEF SessionInv, Types, SharedTypes, History
<1>9. SharedTypes'
  BY <1>0, <1>2, <1>8 DEF SessionInv, Types, SharedTypes
<1>10. EndedHere(t)' = EndedHere(t) \ {a}
  BY <1>8 DEF EndedHere, EndedIn
<1>11. \A v \in Windows \ {w} : EndedIn(out, v)' = EndedIn(out, v)
  BY <1>8 DEF EndedIn
<1>12. \A b \in Accounts : keyring'[b].token \in TokensFor(server', b)
  BY <1>0, <1>2 DEF SessionInv, TokensInv
<1> HIDE DEF n, th
<1>13. HeldTokens(server', n, th)
  BY <1>0, <1>2, <1>3, <1>5 DEF HeldTokens
<1>14. Ages(m, n, EndedHere(t), EndedHere(t)')
  BY <1>3, <1>10 DEF Ages, Remembered
<1>15. Profiles(profile[w], p, n, EndedHere(t)')
  BY <1>10 DEF Profiles, Remembered
<1>16. Remembered(th.previous, n, EndedHere(t)')
  BY <1>0, <1>3, <1>5, <1>10, Facts DEF ManagerFits, Remembered
<1>17. ThreadFits(th, n, p, EndedHere(t)')
  <2>1. th.pc \notin RefreshSteps /\ p.account = a
    BY <1>5 DEF RefreshSteps
  <2>2. Remembered(p.account, n, EndedHere(t)')
    BY <1>10, <2>1 DEF Remembered
  <2>3. th.activation <= n.activations /\ th.logouts <= n.logouts /\ th.session # 0
    BY <1>2, <1>3, <1>5
  <2> QED BY <1>5, <1>10, <1>16, <2>1, <2>2, <2>3 DEF ThreadFits
<1>18. ManagerFits(n, p, EndedHere(t)')
  BY <1>0, <1>3, <1>10 DEF ManagerFits
<1>19. Types' /\ TokensInv' /\ LoginInv'
  BY <1>2, <1>7, <1>9, <1>11, <1>12, <1>13, <1>14, <1>15, <1>17, <1>18, OneThread
<1>20. ErasedInv'
  BY <1>0, <1>8 DEF SessionInv, ErasedInv
<1> QED BY <1>19, <1>20 DEF SessionInv

LEMMA ActivateCommitStep ==
    ASSUME SessionInv, NEW t \in Threads, ActivateCommit(t)
    PROVE  SessionInv'
<1> DEFINE w == WindowOf[t] m == Mgr(t) a == thread[t].account p == profile[w]
<1>0. /\ w \in Windows /\ m \in Manager /\ thread[t] \in Thread /\ p \in ProfileState
      /\ ManagerFits(m, p, EndedHere(t)) /\ ThreadFits(thread[t], m, p, EndedHere(t))
      /\ HeldTokens(server, m, thread[t]) /\ thread[t].pc = "commit"
      /\ a \in Accounts /\ thread[t].session # 0 /\ thread[t].session \in Tokens
      /\ UNCHANGED <<server, keyring, profile, out>> /\ store' = Nobody
      /\ thread[t].session \in TokensFor(server, a)
  BY Facts DEF ActivateCommit, ThreadFits, LoginSteps, Thread, HeldTokens
<1>1. PICK pc \in {"cancelled", "opened"} : Step(t, pc)
  BY DEF ActivateCommit
<1> DEFINE th == [thread[t] EXCEPT !.pc = pc]
<1>2. /\ th \in Thread /\ th.pc = pc /\ th.account = a /\ th.session = thread[t].session
      /\ th.previous = thread[t].previous
  BY <1>0, <1>1 DEF Thread, Steps
<1>3. thread' = [thread EXCEPT ![t] = th]
  BY <1>1 DEF Step, SessionInv, Types
<1>4. lease' \in [Accounts -> Windows \cup {Nobody}]
  BY LeaseKept, StaysWithMem DEF ActivateCommit
<1>5. SharedTypes'
  BY <1>0, <1>4 DEF SessionInv, Types, SharedTypes
<1>6. /\ Remembered(p.account, m, EndedHere(t)) /\ p.account \in Accounts
      /\ Remembered(th.previous, m, EndedHere(t))
      /\ th.pc \in LoginSteps /\ th.pc \notin RefreshSteps \cup {"idle", "save", "commit"}
  BY <1>0, <1>1, <1>2 DEF ThreadFits, LoginSteps, RefreshSteps
<1> HIDE DEF th
<1>7. CASE UNCHANGED mem
  <2>1. ThreadFits(th, m, p, EndedHere(t))
    BY <1>0, <1>2, <1>6 DEF ThreadFits
  <2>2. KeyringKept /\ th.session \in TokensFor(server', th.account)
        /\ \A b : TokensFor(server, b) \subseteq TokensFor(server', b)
    BY <1>0, <1>2 DEF KeyringKept
  <2> QED BY <1>0, <1>2, <1>3, <1>5, <1>7, <2>1, <2>2, SameManagerStep
<1>8. CASE /\ MayActivate(t)
           /\ SetMgr(t, [Remember(Discard(m), thread[t].session) EXCEPT
                  !.logouts = @ + 1, !.account = a,
                  !.blocked = @ \ {a}, !.revoked = @ \ {a}])
  <2> DEFINE k == Remember(Discard(m), thread[t].session)
             n == [k EXCEPT !.logouts = @ + 1, !.account = a,
                            !.blocked = @ \ {a}, !.revoked = @ \ {a}]
  <2>1. /\ k \in Manager /\ SameLogin(m, k) /\ k.session = thread[t].session
        /\ k.state = Signed /\ k.rotation.session = 0
    <3> DEFINE d == Discard(m)
    <3>1. d \in Manager /\ SameLogin(m, d) /\ d.rotation.session = 0
      BY <1>0, Discards
    <3> HIDE DEF d
    <3>2. /\ Remember(d, thread[t].session) \in Manager
          /\ SameLogin(d, Remember(d, thread[t].session))
          /\ Remember(d, thread[t].session).session = thread[t].session
          /\ Remember(d, thread[t].session).state = Signed
          /\ Remember(d, thread[t].session).rotation = d.rotation
      BY <1>0, <3>1, Managers
    <3> QED BY <3>1, <3>2 DEF SameLogin, d
  <2> HIDE DEF k
  <2>2. /\ n \in Manager /\ n.session = thread[t].session /\ n.state = Signed
        /\ n.rotation.session = 0 /\ n.account = a /\ n.blocked = m.blocked \ {a}
        /\ n.logouts = m.logouts + 1 /\ n.activations = m.activations
        /\ m.logouts \in Nat /\ m.activations \in Nat
    <3>1. m.logouts \in Nat /\ m.activations \in Nat /\ a \in SomeAccount
      BY <1>0 DEF Manager, SomeAccount
    <3>2. /\ k.logouts = m.logouts /\ k.activations = m.activations /\ k.blocked = m.blocked
          /\ k.logouts + 1 \in Nat
      BY <2>1, <3>1 DEF SameLogin
    <3>3. k.blocked \ {a} \in SUBSET Accounts /\ k.revoked \ {a} \in SUBSET Accounts
      BY <2>1 DEF Manager
    <3>4. n \in Manager
      BY <2>1, <3>1, <3>2, <3>3 DEF Manager
    <3>5. /\ n.session = k.session /\ n.state = k.state /\ n.rotation = k.rotation
          /\ n.account = a /\ n.blocked = k.blocked \ {a} /\ n.logouts = k.logouts + 1
          /\ n.activations = k.activations
      BY <2>1 DEF Manager
    <3> QED BY <2>1, <3>1, <3>2, <3>4, <3>5
  <2>3. Moved(t, n, th, p)
    <3>1. mem' = [mem EXCEPT ![w] = n]
      BY <1>8 DEF SetMgr, k
    <3> HIDE DEF n
    <3> QED BY <1>0, <1>2, <1>3, <2>2, <3>1 DEF Moved, SessionInv, Types
  <2> HIDE DEF n
  <2>4. a \notin EndedHere(t)
    BY <1>0, <1>8 DEF MayActivate, ThreadFits
  <2>5. EndedHere(t)' = EndedHere(t) /\ \A v : EndedIn(out, v)' = EndedIn(out, v)
    BY <1>0 DEF EndedHere, EndedIn
  <2>6. Ages(m, n, EndedHere(t), EndedHere(t)')
    BY <2>2, <2>4, <2>5 DEF Ages, Remembered
  <2>7. Profiles(p, p, n, EndedHere(t)')
    BY DEF Profiles
  <2>8. ThreadFits(th, n, p, EndedHere(t)')
    BY <1>0, <1>2, <1>6, <2>2, <2>4, <2>5 DEF ThreadFits, Remembered
  <2>9. ManagerFits(n, p, EndedHere(t)')
    BY <1>0, <1>6, <2>2, <2>4, <2>5 DEF ManagerFits, Remembered
  <2>10. /\ HeldTokens(server', n, th)
         /\ \A b : TokensFor(server, b) \subseteq TokensFor(server', b)
         /\ \A b \in Accounts : keyring'[b].token \in TokensFor(server', b)
    BY <1>0, <1>2, <2>2 DEF HeldTokens, TokensFor, SessionInv, TokensInv
  <2>11. Types' /\ TokensInv' /\ LoginInv'
    BY <1>5, <2>3, <2>5, <2>6, <2>7, <2>8, <2>9, <2>10, OneThread
  <2>12. ErasedInv'
    BY <1>0 DEF SessionInv, ErasedInv
  <2> QED BY <2>11, <2>12 DEF SessionInv
<1> QED BY <1>7, <1>8 DEF ActivateCommit

-----------------------------------------------------------------------------
(* Signing out, restoring and the death of a window.                       *)

\* _end_session: the window knows that it was signed out of a, and every
\* thread of before is behind its counters.
LEMMA EndSessionStep ==
    ASSUME SessionInv, NEW t \in Threads, NEW a \in Accounts, NEW th \in Thread,
           EndSession(t, a), thread' = [thread EXCEPT ![t] = th],
           UNCHANGED <<server, keyring, store, profile>>,
           th.pc = "erase", th.account = a, th.session \in TokensFor(server, a)
    PROVE  SessionInv'
<1> DEFINE w == WindowOf[t] m == Mgr(t) p == profile[w]
           k == [m EXCEPT !.activations = @ + 1, !.blocked = @ \cup {a}]
<1>0. /\ w \in Windows /\ m \in Manager /\ p \in ProfileState
      /\ ManagerFits(m, p, EndedHere(t)) /\ HeldTokens(server, m, thread[t])
  BY Facts
<1>1. m.activations \in Nat /\ m.logouts \in Nat /\ m.account \in SomeAccount
  BY <1>0 DEF Manager
<1>2. /\ k \in Manager /\ k.activations = m.activations + 1 /\ k.blocked = m.blocked \cup {a}
      /\ k.logouts = m.logouts /\ k.account = m.account /\ k.session = m.session
      /\ k.state = m.state /\ k.rotation = m.rotation
  <2>1. m.activations + 1 \in Nat /\ m.blocked \cup {a} \in SUBSET Accounts
    BY <1>0, <1>1 DEF Manager
  <2> QED BY <1>0, <2>1 DEF Manager
<1>3. out' \in History /\ out'.ended = out.ended \cup {<<w, a>>} /\ out'.erased = out.erased
  BY <1>0 DEF EndSession, SessionInv, Types, SharedTypes, History
<1>4. EndedHere(t)' = EndedHere(t) \cup {a} /\ EndedHere(t) \subseteq Accounts
  BY <1>3, Facts DEF EndedHere, EndedIn
<1>5. \A v \in Windows \ {w} : EndedIn(out, v)' = EndedIn(out, v)
  BY <1>3 DEF EndedIn
<1>6. lease' \in [Accounts -> Windows \cup {Nobody}]
  BY LeaseKept, StaysWithMem DEF EndSession
<1>7. SharedTypes'
  BY <1>3, <1>6 DEF SessionInv, Types, SharedTypes
<1>8. PICK n \in Manager :
         /\ mem' = [mem EXCEPT ![w] = n]
         /\ n.activations = m.activations + 1 /\ n.blocked = m.blocked \cup {a}
         /\ n.account = m.account /\ n.session \in TokensFor(server, m.account)
         /\ n.rotation.session \in TokensFor(server, m.account)
         /\ \/ /\ m.account = a /\ n.session = 0 /\ n.state # Signed
               /\ n.logouts = m.logouts + 1
            \/ /\ m.account # a /\ n.session = m.session /\ n.state = m.state
               /\ n.logouts = m.logouts
  <2> HIDE DEF k
  <2>1. CASE m.account = a
    <3> DEFINE d == Discard(State(k, "signed_out"))
               n == [d EXCEPT !.logouts = @ + 1, !.backoff = FALSE]
    <3>1. "signed_out" \in States /\ "signed_out" # Signed
      BY DEF States, Signed
    <3>2. /\ d \in Manager /\ SameLogin(k, d) /\ d.session = 0 /\ d.state = "signed_out"
          /\ d.rotation.session = 0
      <4> DEFINE e == State(k, "signed_out")
      <4>1. e \in Manager /\ SameLogin(k, e) /\ e.session = 0 /\ e.state = "signed_out"
        BY <1>2, <3>1, Managers
      <4> HIDE DEF e
      <4>2. /\ Discard(e) \in Manager /\ SameLogin(e, Discard(e)) /\ Discard(e).session = e.session
            /\ Discard(e).state = e.state /\ Discard(e).rotation.session = 0
        BY <4>1, Discards
      <4> QED BY <4>1, <4>2 DEF SameLogin, e
    <3>3. mem' = [mem EXCEPT ![w] = n]
      BY <2>1, <1>2 DEF EndSession, SetMgr, k
    <3> HIDE DEF d
    <3>4. d.logouts = m.logouts /\ d.logouts + 1 \in Nat
      BY <1>1, <1>2, <3>2 DEF SameLogin
    <3>5. /\ n \in Manager /\ n.logouts = m.logouts + 1 /\ n.activations = d.activations
          /\ n.blocked = d.blocked /\ n.account = d.account /\ n.session = d.session
          /\ n.state = d.state /\ n.rotation = d.rotation
      BY <3>2, <3>4 DEF Manager
    <3> HIDE DEF n
    <3>6. 0 \in TokensFor(server, m.account)
      BY DEF TokensFor
    <3> QED BY <1>2, <2>1, <3>1, <3>2, <3>3, <3>5, <3>6 DEF SameLogin
  <2>2. CASE m.account # a
    <3>1. mem' = [mem EXCEPT ![w] = k]
      BY <2>2, <1>2 DEF EndSession, SetMgr, k
    <3> QED BY <1>0, <1>2, <2>2, <3>1 DEF HeldTokens
  <2> QED BY <2>1, <2>2
<1> HIDE DEF k
<1>9. Moved(t, n, th, p)
  BY <1>0, <1>8 DEF Moved, SessionInv, Types
<1>10. \A b : TokensFor(server, b) = TokensFor(server', b)
  OBVIOUS
<1>11. HeldTokens(server', n, th)
  BY <1>8, <1>10 DEF HeldTokens
<1>12. Ages(m, n, EndedHere(t), EndedHere(t)')
  BY <1>1, <1>4, <1>8 DEF Ages, Remembered
<1>13. Profiles(p, p, n, EndedHere(t)')
  BY DEF Profiles
<1>14. ThreadFits(th, n, p, EndedHere(t)')
  BY DEF ThreadFits, RefreshSteps, LoginSteps
<1>15. ManagerFits(n, p, EndedHere(t)')
  BY <1>0, <1>4, <1>8 DEF ManagerFits, Remembered
<1>16. \A b \in Accounts : keyring'[b].token \in TokensFor(server', b)
  BY <1>10 DEF SessionInv, TokensInv
<1>17. Types' /\ TokensInv' /\ LoginInv'
  BY <1>5, <1>7, <1>9, <1>10, <1>11, <1>12, <1>13, <1>14, <1>15, <1>16, OneThread
<1>18. ErasedInv'
  BY <1>3 DEF SessionInv, ErasedInv
<1> QED BY <1>17, <1>18 DEF SessionInv

LEMMA SignOutStep == ASSUME SessionInv, NEW t \in Threads, SignOut(t) PROVE SessionInv'
<1> DEFINE w == WindowOf[t] m == Mgr(t) a == profile[w].account
           session == IF m.account = a THEN m.session ELSE 0
           th == [Idle EXCEPT !.pc = "erase", !.account = a, !.session = session]
<1>1. a \in Accounts
  BY Facts DEF SignOut, ProfileState, SomeAccount
<1>2. session \in Tokens /\ session \in TokensFor(server, a)
  BY SessionAssumption, Facts DEF HeldTokens, TokensFor, Manager, Tokens
<1>3. /\ EndSession(t, a) /\ thread' = [thread EXCEPT ![t] = th]
      /\ UNCHANGED <<server, keyring, store, profile>>
  BY DEF SignOut
<1> HIDE DEF session
<1>4. th \in Thread /\ th.pc = "erase" /\ th.account = a /\ th.session = session
  BY <1>1, <1>2, Facts DEF Thread, Idle, Steps, SomeAccount
<1> HIDE DEF th
<1> QED BY <1>1, <1>2, <1>3, <1>4, EndSessionStep

LEMMA AllSignedOutStep ==
    ASSUME SessionInv, NEW t \in Threads, AllSignedOut(t)
    PROVE  SessionInv'
<1> DEFINE a == thread[t].account th == [thread[t] EXCEPT !.pc = "erase"]
<1>1. a \in Accounts /\ thread[t].session \in TokensFor(server, a) /\ thread[t] \in Thread
  BY Facts, StaysWithMem DEF AllSignedOut, ThreadFits
<1>2. th \in Thread /\ th.pc = "erase" /\ th.account = a /\ th.session = thread[t].session
  BY <1>1 DEF Thread, Steps
<1>3. /\ EndSession(t, a) /\ thread' = [thread EXCEPT ![t] = th]
      /\ UNCHANGED <<server, keyring, store, profile>>
  BY DEF AllSignedOut, Step, SessionInv, Types
<1> HIDE DEF th
<1> QED BY <1>1, <1>2, <1>3, EndSessionStep

LEMMA SignOutAllStep ==
    ASSUME SessionInv, NEW t \in Threads, SignOutAll(t)
    PROVE  SessionInv'
<1> DEFINE m == Mgr(t) th == [Idle EXCEPT !.pc = "end", !.account = m.account]
<1>1. /\ UNCHANGED <<keyring, lease, store, mem, profile, out>> /\ Revoke(m.account)
      /\ thread' = [thread EXCEPT ![t] = th] /\ m.account \in Accounts
  BY Facts DEF SignOutAll, ManagerFits
<1>2. /\ server' \in Service /\ server'.valid \subseteq 1..server'.issued
      /\ \A b : TokensFor(server', b) = TokensFor(server, b)
  BY <1>1, Revoked
<1>3. SharedTypes'
  BY <1>1, <1>2 DEF SessionInv, Types, SharedTypes
<1>4. th \in Thread /\ th.pc = "end" /\ th.account = m.account /\ th.session = 0
  BY <1>1, Facts DEF Thread, Idle, Steps, SomeAccount
<1> HIDE DEF th
<1>5. ThreadFits(th, m, profile[WindowOf[t]], EndedHere(t))
  BY <1>1, <1>4 DEF ThreadFits, RefreshSteps, LoginSteps
<1>6. KeyringKept /\ th.session \in TokensFor(server', th.account)
  BY <1>1, <1>4 DEF KeyringKept, TokensFor
<1> QED BY <1>1, <1>2, <1>3, <1>4, <1>5, <1>6, SameManagerStep

LEMMA EraseStep == ASSUME SessionInv, NEW t \in Threads, Erase(t) PROVE SessionInv'
<1> DEFINE a == thread[t].account w == WindowOf[t] m == Mgr(t) p == profile[w]
<1>0. /\ a \in Accounts /\ thread[t] \in Thread /\ thread[t].pc = "erase" /\ w \in Windows
      /\ thread[t].session \in TokensFor(server, a) /\ keyring \in [Accounts -> Entry]
      /\ UNCHANGED <<server, lease, store, mem, profile>>
  BY Facts, StaysWithMem DEF Erase, ThreadFits
<1>1. CASE Done(t) /\ UNCHANGED <<keyring, out>>
  <2>1. SharedTypes' /\ KeyringKept
    BY <1>0, <1>1 DEF SessionInv, Types, SharedTypes, KeyringKept
  <2>2. ThreadFits(Idle, m, p, EndedHere(t))
    BY DEF ThreadFits, Idle, RefreshSteps, LoginSteps
  <2>3. Idle \in Thread /\ Idle.session \in TokensFor(server', Idle.account)
    BY Facts DEF Idle, TokensFor
  <2>4. \A b : TokensFor(server, b) \subseteq TokensFor(server', b)
    BY <1>0
  <2> QED BY <1>0, <1>1, <2>1, <2>2, <2>3, <2>4, SameManagerStep DEF Done
<1>2. CASE /\ keyring' = Stored(t, a, 0) /\ Step(t, "logout")
           /\ out' = [out EXCEPT !.erased = @ \cup ({<<w, a>>} \cap out.ended)]
  <2> DEFINE th == [thread[t] EXCEPT !.pc = "logout"]
  <2>1. th \in Thread /\ th.pc = "logout" /\ th.account = a /\ th.session = thread[t].session
    BY <1>0 DEF Thread, Steps
  <2>2. Moved(t, m, th, p)
    <3>1. thread' = [thread EXCEPT ![t] = th]
      BY <1>2 DEF Step, SessionInv, Types
    <3> HIDE DEF th
    <3> QED BY <1>0, <2>1, <3>1, Facts DEF Moved, Mgr, SessionInv, Types
  <2> HIDE DEF th
  <2>3. /\ out' \in History /\ out'.ended = out.ended
        /\ out'.erased = out.erased \cup ({<<w, a>>} \cap out.ended)
    BY <1>2 DEF SessionInv, Types, SharedTypes, History
  <2>4. \A v : EndedIn(out, v)' = EndedIn(out, v)
    BY <2>3 DEF EndedIn
  <2>5. EndedHere(t)' = EndedHere(t)
    BY <2>4 DEF EndedHere
  <2>6. /\ keyring' \in [Accounts -> Entry] /\ keyring'[a].token = 0
        /\ \A b \in Accounts \ {a} : keyring'[b] = keyring[b]
    BY <1>0, <1>2, SessionAssumption DEF Stored, Entry, Tokens
  <2>7. SharedTypes'
    BY <1>0, <2>3, <2>6 DEF SessionInv, Types, SharedTypes
  <2>8. \A b \in Accounts : keyring'[b].token \in TokensFor(server', b)
    BY <1>0, <2>6 DEF SessionInv, TokensInv, TokensFor
  <2>9. HeldTokens(server', m, th)
    BY <1>0, <2>1, Facts DEF HeldTokens
  <2>10. Ages(m, m, EndedHere(t), EndedHere(t)') /\ Profiles(p, p, m, EndedHere(t)')
    BY <2>5, Facts DEF Ages, Profiles, Manager
  <2>11. ThreadFits(th, m, p, EndedHere(t)')
    BY <1>0, <2>1 DEF ThreadFits, RefreshSteps, LoginSteps
  <2>12. ManagerFits(m, p, EndedHere(t)')
    BY <2>5, Facts
  <2>13. Types' /\ TokensInv' /\ LoginInv'
    <3>1. \A b : TokensFor(server, b) \subseteq TokensFor(server', b)
      BY <1>0
    <3> QED BY <2>2, <2>4, <2>7, <2>8, <2>9, <2>10, <2>11, <2>12, <3>1, OneThread
  <2>14. ErasedInv'
    BY <2>3, <2>6 DEF SessionInv, ErasedInv
  <2> QED BY <2>13, <2>14 DEF SessionInv
<1> QED BY <1>1, <1>2 DEF Erase

LEMMA RestoreStep == ASSUME SessionInv, NEW t \in Threads, Restore(t) PROVE SessionInv'
<1> DEFINE w == WindowOf[t] m == Mgr(t) p == profile[w] a == p.account
           changed == [Discard(m) EXCEPT !.logouts = @ + 1, !.account = a,
                           !.state = "offline", !.session = 0, !.backoff = FALSE]
           n == IF m.account = a THEN m ELSE changed
           th == [Idle EXCEPT !.pc = "ask", !.account = a, !.logouts = n.logouts]
<1>0. /\ w \in Windows /\ m \in Manager /\ p \in ProfileState
      /\ ManagerFits(m, p, EndedHere(t)) /\ HeldTokens(server, m, thread[t])
      /\ p.open /\ a \in Accounts /\ a \notin m.blocked /\ a \notin EndedHere(t)
      /\ UNCHANGED <<server, keyring, store, profile, out>>
  BY Facts DEF Restore, ManagerFits, Remembered
<1>1. /\ thread' = [thread EXCEPT ![t] = th] /\ mem' = [mem EXCEPT ![w] = n]
  BY DEF Restore, SetMgr
<1>2. lease' \in [Accounts -> Windows \cup {Nobody}]
  BY LeaseKept, StaysWithMem DEF Restore
<1>3. SharedTypes'
  BY <1>0, <1>2 DEF SessionInv, Types, SharedTypes
<1>4. m.logouts \in Nat /\ m.activations \in Nat
  BY <1>0 DEF Manager
<1>5. /\ n \in Manager /\ n.account = a /\ n.activations = m.activations
      /\ n.blocked = m.blocked /\ HeldTokens(server, n, Idle)
      /\ n.session # 0 <=> n.state = Signed
      /\ n.logouts = m.logouts + 1 \/ (n.logouts = m.logouts /\ m.account = a)
  <2>1. CASE m.account = a
    BY <1>0, <2>1, Facts DEF ManagerFits, HeldTokens, Idle, TokensFor
  <2>2. CASE m.account # a
    <3> DEFINE d == Discard(m)
    <3>1. d \in Manager /\ SameLogin(m, d) /\ d.rotation.session = 0
      BY <1>0, Discards
    <3>2. d.logouts + 1 \in Nat /\ a \in SomeAccount /\ "offline" \in States /\ 0 \in Tokens
      BY <1>0, <1>4, <3>1, SessionAssumption DEF SomeAccount, States, Tokens, SameLogin
    <3> HIDE DEF d
    <3> DEFINE c == [d EXCEPT !.logouts = @ + 1, !.account = a,
                         !.state = "offline", !.session = 0, !.backoff = FALSE]
    <3>3. /\ c \in Manager /\ c.account = a /\ c.activations = d.activations
          /\ c.blocked = d.blocked /\ c.rotation = d.rotation /\ c.session = 0
          /\ c.state = "offline" /\ c.logouts = d.logouts + 1
      BY <3>1, <3>2 DEF Manager
    <3>4. n = c
      BY <2>2 DEF d
    <3> HIDE DEF c, n
    <3> QED BY <3>1, <3>3, <3>4 DEF SameLogin, HeldTokens, Idle, TokensFor, Signed
  <2> QED BY <2>1, <2>2
<1> HIDE DEF n
<1>6. /\ th \in Thread /\ th.pc = "ask" /\ th.account = a /\ th.logouts = n.logouts
      /\ th.session = 0
  <2>1. n.logouts \in Nat /\ a \in SomeAccount
    BY <1>0, <1>5 DEF Manager, SomeAccount
  <2> QED BY <2>1, Facts DEF Thread, Idle, Steps
<1> HIDE DEF th
<1>7. Moved(t, n, th, p)
  BY <1>0, <1>1, <1>5, <1>6 DEF Moved, SessionInv, Types
<1>8. EndedHere(t)' = EndedHere(t) /\ \A v : EndedIn(out, v)' = EndedIn(out, v)
  BY <1>0 DEF EndedHere, EndedIn
<1>9. Ages(m, n, EndedHere(t), EndedHere(t)') /\ Profiles(p, p, n, EndedHere(t)')
  BY <1>4, <1>5, <1>8 DEF Ages, Profiles, Remembered
<1>10. n.logouts <= n.logouts
  BY <1>5 DEF Manager
<1>11. ThreadFits(th, n, p, EndedHere(t)')
  BY <1>0, <1>5, <1>6, <1>10 DEF ThreadFits, RefreshSteps, LoginSteps
<1>12. ManagerFits(n, p, EndedHere(t)')
  BY <1>0, <1>5, <1>8 DEF ManagerFits, Remembered
<1>13. \A b : TokensFor(server, b) = TokensFor(server', b)
  BY <1>0
<1>14. HeldTokens(server', n, th)
  BY <1>5, <1>6, <1>13 DEF HeldTokens, TokensFor
<1>15. \A b \in Accounts : keyring'[b].token \in TokensFor(server', b)
  BY <1>0 DEF SessionInv, TokensInv
<1>16. Types' /\ TokensInv' /\ LoginInv'
  BY <1>3, <1>7, <1>8, <1>9, <1>11, <1>12, <1>13, <1>14, <1>15, OneThread
<1>17. ErasedInv'
  BY <1>0 DEF SessionInv, ErasedInv
<1> QED BY <1>16, <1>17 DEF SessionInv

\* What was signed out of is forgotten with the process, unless the profile
\* state says so: the new one opens nothing that it does not say.
LEMMA CrashStep == ASSUME SessionInv, NEW w \in Windows, Crash(w) PROVE SessionInv'
<1> DEFINE kept(pairs) == {q \in pairs : q[1] # w \/ (q \in out.erased /\ ~profile[w].open)}
<1>0. /\ UNCHANGED <<server, keyring, profile>>
      /\ mem' = [mem EXCEPT ![w] = FreshManager]
      /\ thread' = [t \in Threads |-> IF WindowOf[t] = w THEN Idle ELSE thread[t]]
      /\ lease' = [a \in Accounts |-> IF lease[a] = w THEN Nobody ELSE lease[a]]
      /\ store' = IF store # Nobody /\ WindowOf[store] = w THEN Nobody ELSE store
      /\ out' = [ended |-> kept(out.ended), erased |-> kept(out.erased)]
  BY DEF Crash
<1>1. FreshManager \in Manager
  BY SessionAssumption
  DEF FreshManager, Manager, States, SomeAccount, NoRotation, Tokens
<1>2. Idle \in Thread
  BY SessionAssumption DEF Idle, Thread, Steps, SomeAccount, Tokens
<1>3. /\ out' \in History /\ out'.ended = kept(out.ended) /\ out'.erased = kept(out.erased)
  BY <1>0 DEF SessionInv, Types, SharedTypes, History
<1>4. Types'
  <2>1. lease' \in [Accounts -> Windows \cup {Nobody}] /\ store' \in Threads \cup {Nobody}
    BY <1>0 DEF SessionInv, Types, SharedTypes
  <2>2. SharedTypes'
    BY <1>0, <1>3, <2>1 DEF SessionInv, Types, SharedTypes
  <2> QED BY <1>0, <1>1, <1>2, <2>2 DEF SessionInv, Types
<1>5. /\ mem'[w] = FreshManager /\ \A v \in Windows \ {w} : mem'[v] = mem[v]
      /\ \A t \in Threads : thread'[t] = IF WindowOf[t] = w THEN Idle ELSE thread[t]
  BY <1>0 DEF SessionInv, Types
<1>6. TokensInv'
  <2>1. ASSUME NEW v \in Windows
        PROVE  /\ mem'[v].session \in TokensFor(server', mem'[v].account)
               /\ mem'[v].rotation.session \in TokensFor(server', mem'[v].account)
    BY <1>0, <1>5 DEF FreshManager, NoRotation, TokensFor, SessionInv, TokensInv
  <2>2. ASSUME NEW t \in Threads
        PROVE  thread'[t].session \in TokensFor(server', thread'[t].account)
    BY <1>0, <1>5 DEF Idle, TokensFor, SessionInv, TokensInv
  <2> QED BY <1>0, <2>1, <2>2 DEF SessionInv, TokensInv
<1>7. \A v \in Windows \ {w} : EndedIn(out, v)' = EndedIn(out, v)
  BY <1>3 DEF EndedIn
<1>8. profile[w].open => EndedIn(out, w)' = {}
  BY <1>3 DEF EndedIn
<1>9. ASSUME NEW t \in Threads
      PROVE  ThreadFits(thread'[t], mem'[WindowOf[t]], profile'[WindowOf[t]],
                        EndedIn(out, WindowOf[t])')
  <2>1. CASE WindowOf[t] = w
    BY <1>5, <2>1 DEF ThreadFits, Idle, RefreshSteps, LoginSteps
  <2>2. CASE WindowOf[t] # w
    <3>1. /\ WindowOf[t] \in Windows \ {w} /\ thread'[t] = thread[t] /\ profile' = profile
          /\ mem'[WindowOf[t]] = mem[WindowOf[t]]
      BY <1>0, <1>5, <2>2, SessionAssumption
    <3>2. ThreadFits(thread[t], mem[WindowOf[t]], profile[WindowOf[t]], EndedIn(out, WindowOf[t]))
      BY DEF SessionInv, LoginInv
    <3> QED BY <1>7, <3>1, <3>2
  <2> QED BY <2>1, <2>2
<1>10. ASSUME NEW v \in Windows PROVE ManagerFits(mem'[v], profile'[v], EndedIn(out, v)')
  <2>0. ManagerFits(mem[v], profile[v], EndedIn(out, v))
    BY DEF SessionInv, LoginInv
  <2>1. CASE v = w
    <3>1. EndedIn(out, v)' \subseteq Accounts
      BY DEF EndedIn
    <3>2. Nobody \notin Accounts
      BY SessionAssumption
    <3> QED BY <1>0, <1>5, <1>8, <2>0, <2>1, <3>1, <3>2
        DEF ManagerFits, FreshManager, Remembered, Signed
  <2>2. CASE v # w
    BY <1>0, <1>5, <1>7, <2>0, <2>2
  <2> QED BY <2>1, <2>2
<1>11. LoginInv'
  BY <1>9, <1>10 DEF LoginInv
<1>12. ErasedInv'
  BY <1>0, <1>3 DEF SessionInv, ErasedInv
<1> QED BY <1>4, <1>6, <1>11, <1>12 DEF SessionInv

-----------------------------------------------------------------------------
(* The theorems.                                                           *)

LEMMA SessionInit == Init => SessionInv
<1> SUFFICES ASSUME Init PROVE SessionInv
  OBVIOUS
<1>0. 0 \in Tokens /\ MaxTokens \in Nat \ {0} /\ Nobody \notin Accounts
  BY SessionAssumption DEF Tokens
<1>1. PICK a \in Accounts, n \in {0, 1} :
        /\ server = [issued |-> n, valid |-> 1..n, next |-> [k \in 1..MaxTokens |-> 0],
                     owner |-> [k \in 1..MaxTokens |-> IF k <= n THEN a ELSE Nobody]]
        /\ keyring = [b \in Accounts |->
                [token |-> IF a = b THEN n ELSE 0, by |-> Nobody]]
        /\ profile \in [Windows -> {Closed, [account |-> a, open |-> TRUE]}]
  BY DEF Init
<1>2. /\ lease = [b \in Accounts |-> Nobody] /\ store = Nobody
      /\ mem = [w \in Windows |-> FreshManager] /\ thread = [t \in Threads |-> Idle]
      /\ out = [ended |-> {}, erased |-> {}]
  BY DEF Init
<1>3. n \in Tokens /\ 1..n \subseteq 1..MaxTokens
  BY <1>0, <1>1 DEF Tokens
<1>4. server \in Service /\ server.valid \subseteq 1..server.issued
  BY <1>0, <1>1, <1>3 DEF Service, SomeAccount
<1>5. keyring \in [Accounts -> Entry]
  BY <1>0, <1>1, <1>3 DEF Entry
<1>6. /\ FreshManager \in Manager /\ Idle \in Thread
  BY <1>0 DEF FreshManager, Manager, States, SomeAccount, NoRotation, Idle, Thread, Steps
<1>7. /\ profile \in [Windows -> ProfileState]
      /\ \A w \in Windows : profile[w].open => profile[w].account \in Accounts
  <2>1. [account |-> a, open |-> TRUE] \in ProfileState /\ Closed \in ProfileState
    BY DEF Closed, ProfileState, SomeAccount
  <2>2. profile \in [Windows -> ProfileState]
    BY <1>1, <2>1
  <2>3. \A w \in Windows : profile[w] = Closed \/ profile[w] = [account |-> a, open |-> TRUE]
    BY <1>1
  <2>4. ~Closed.open
    BY DEF Closed
  <2> QED BY <2>2, <2>3, <2>4
<1>8. Types
  BY <1>2, <1>4, <1>5, <1>6, <1>7 DEF Types, SharedTypes, History
<1>9. TokensInv
  <2>1. \A b \in Accounts : keyring[b].token \in TokensFor(server, b)
    BY <1>0, <1>1 DEF TokensFor
  <2> QED BY <1>2, <2>1 DEF TokensInv, TokensFor, FreshManager, NoRotation, Idle
<1>10. \A w : EndedIn(out, w) = {}
  BY <1>2 DEF EndedIn
<1>11. LoginInv
  BY <1>2, <1>7, <1>10, SessionAssumption
  DEF LoginInv, ThreadFits, ManagerFits, FreshManager, Idle, RefreshSteps, LoginSteps,
      Remembered, Signed
<1>12. ErasedInv
  BY <1>2 DEF ErasedInv
<1> QED BY <1>8, <1>9, <1>11, <1>12 DEF SessionInv

LEMMA SessionNext == SessionInv /\ [Next]_vars => SessionInv'
<1> SUFFICES ASSUME SessionInv, [Next]_vars PROVE SessionInv'
  OBVIOUS
<1>1. ASSUME NEW t \in Threads, Want(t) \/ Refresh(t) PROVE SessionInv'
  BY <1>1, WantStep, AskStep, WaitStep, EnterStep, LoadStep, RequestStep, CutOffStep,
     SettleStep, FailedStep
  DEF Refresh
<1>2. ASSUME NEW t \in Threads, Login(t) PROVE SessionInv'
  BY <1>2, ActivateSaveStep, ActivateCommitStep, OpenedStep, NotOpenedStep, AllSignedOutStep,
     EraseStep, LogoutStep
  DEF Login
<1>3. ASSUME NEW t \in Threads, Act(t) PROVE SessionInv'
  BY <1>3, SignInStep, SignOutStep, SignOutAllStep, RestoreStep DEF Act
<1>4. ASSUME NEW w \in Windows, BackoffEnds(w) \/ Crash(w) PROVE SessionInv'
  BY <1>4, BackoffStep, CrashStep
<1>5. CASE UNCHANGED vars
  <2>1. UNCHANGED <<server, keyring, lease, store, mem, thread, profile, out>>
    BY <1>5 DEF vars
  <2>2. Types' /\ TokensInv' /\ ErasedInv'
    BY <2>1 DEF SessionInv, Types, SharedTypes, TokensInv, ErasedInv
  <2>3. \A w : EndedIn(out, w)' = EndedIn(out, w)
    BY <2>1 DEF EndedIn
  <2>4. LoginInv'
    BY <2>1, <2>3 DEF SessionInv, LoginInv
  <2> QED BY <2>2, <2>4 DEF SessionInv
<1> QED BY <1>1, <1>2, <1>3, <1>4, <1>5 DEF Next

\* The invariant the safety of the sessions rests on holds in every state,
\* whatever threads, windows and accounts there are.
THEOREM SessionInvariance == Spec => []SessionInv
BY SessionInit, SessionNext, PTL DEF Spec

\* The variables hold what they should: in particular a session in memory
\* goes with the state "authenticated", and the token that is kept for an
\* account was issued to it.
THEOREM SessionTypeCorrect == Spec => []TypeOK
<1>1. SessionInv => TypeOK
  <2> SUFFICES ASSUME SessionInv PROVE TypeOK
    OBVIOUS
  <2>1. /\ server.issued \in Tokens /\ server.valid \subseteq 1..server.issued
        /\ store \in Threads \cup {Nobody} /\ out.erased \subseteq out.ended
    BY DEF SessionInv, Types, SharedTypes, Service, ErasedInv
  <2>2. \A a \in Accounts :
          /\ keyring[a].token \in {0} \cup {n \in 1..server.issued : server.owner[n] = a}
          /\ lease[a] \in Windows \cup {Nobody}
    BY DEF SessionInv, Types, SharedTypes, TokensInv, TokensFor
  <2>3. \A w \in Windows : mem[w].state \in States /\ (mem[w].session # 0 <=> mem[w].state = Signed)
    BY DEF SessionInv, Types, LoginInv, ManagerFits, Manager
  <2>4. \A t \in Threads : thread[t].pc \in Steps
    BY DEF SessionInv, Types, Thread
  <2> QED BY <2>1, <2>2, <2>3, <2>4 DEF TypeOK
<1> QED BY <1>1, SessionInvariance, PTL

\* A window whose user signed out of an account holds no session of it until
\* the next login, and after its token was erased nothing that window still
\* had under way stores another: refresh, login or restore.
THEOREM SignedOutIsFinal == Spec => []SignedOutStaysSignedOut
<1>1. SessionInv => SignedOutStaysSignedOut
  <2> SUFFICES ASSUME SessionInv PROVE SignedOutStaysSignedOut
    OBVIOUS
  <2>1. out.ended \subseteq Windows \X Accounts /\ out.erased \subseteq Windows \X Accounts
    BY DEF SessionInv, Types, SharedTypes, History
  <2>2. ASSUME NEW pair \in out.ended, mem[pair[1]].account = pair[2], mem[pair[1]].session # 0
        PROVE  FALSE
    <3>1. /\ pair[1] \in Windows /\ pair[2] \in Accounts /\ pair = <<pair[1], pair[2]>>
      BY <2>1
    <3>2. pair[2] \in EndedIn(out, pair[1])
      BY <3>1 DEF EndedIn
    <3> QED BY <2>2, <3>1, <3>2 DEF SessionInv, LoginInv, ManagerFits
  <2>3. ASSUME NEW pair \in out.erased, keyring[pair[2]].token # 0, keyring[pair[2]].by = pair[1]
        PROVE  FALSE
    <3>1. pair[2] \in Accounts /\ pair = <<pair[1], pair[2]>>
      BY <2>1
    <3> QED BY <2>3, <3>1 DEF SessionInv, ErasedInv
  <2> QED BY <2>2, <2>3 DEF SignedOutStaysSignedOut
<1> QED BY <1>1, SessionInvariance, PTL

-----------------------------------------------------------------------------
(* The token that is presented.  A thread that refreshes and a rotation    *)
(* that waits to be stored hold the lease of their account, so that an     *)
(* account has one of them; and of the threads of a window one refreshes.  *)

Working(th) == th.pc \in {"enter", "load", "request", "settle", "failed", "busy"}
Leased(th)  == th.pc \in {"load", "request", "settle", "failed"}

LeaseInv ==
    /\ \A t \in Threads : Working(thread[t]) =>
          /\ Mgr(t).refreshing = thread[t].account /\ Mgr(t).rotation = NoRotation
    /\ \A t, s \in Threads : Working(thread[t]) /\ Working(thread[s]) /\ WindowOf[t] = WindowOf[s]
          => s = t
    /\ \A t \in Threads : Leased(thread[t]) => lease[thread[t].account] = WindowOf[t]
    /\ \A w \in Windows : mem[w].rotation # NoRotation =>
          mem[w].account \in Accounts /\ lease[mem[w].account] = w

\* Service s gave out the successor of token k later, and to the same account.
Follows(s, k) ==
    s.next[k] # 0 => /\ s.next[k] \in 1..s.issued /\ s.next[k] > k
                     /\ s.owner[s.next[k]] = s.owner[k]

\* A session that was not had by a refresh.
FromLogin(s, session) == \A k \in 1..MaxTokens : s.next[k] # session

\* What thread th may present to service s, when ring is the keyring.
MayPresent(th, s, ring) ==
    /\ th.session = 0 /\ th.token \in 1..s.issued /\ s.owner[th.token] = th.account
    /\ s.next[th.token] # 0 => ring[th.account].token # s.next[th.token]

ChainInv ==
    /\ \A k \in 1..MaxTokens : Follows(server, k)
    /\ \A t \in Threads :
        /\ thread[t].pc = "request" => MayPresent(thread[t], server, keyring)
        /\ thread[t].pc = "save" => FromLogin(server, thread[t].session)

PresentInv == SessionInv /\ LeaseInv /\ ChainInv

\* What a step of thread t, to th and its manager to n, may do to the lease of
\* its window: unless t refreshes itself it leaves alone the one who does.
KeepsLeases(t, n, th) ==
    /\ \A a \in Accounts : lease'[a] # lease[a] => lease[a] \in {WindowOf[t], Nobody}
    /\ \A s \in Threads \ {t} : Working(thread[s]) /\ WindowOf[s] = WindowOf[t] =>
          /\ lease' = lease /\ n.refreshing = Mgr(t).refreshing
          /\ n.rotation = NoRotation /\ ~Working(th)
    /\ Working(th) => n.refreshing = th.account /\ n.rotation = NoRotation
    /\ Leased(th) => lease'[th.account] = WindowOf[t]
    /\ n.rotation # NoRotation => n.account \in Accounts /\ lease'[n.account] = WindowOf[t]

Becomes(t, n, th) ==
    mem' = [mem EXCEPT ![WindowOf[t]] = n] /\ thread' = [thread EXCEPT ![t] = th]

LEMMA WorksFor ==
    ASSUME SessionInv, NEW t \in Threads, Working(thread[t])
    PROVE  thread[t].account \in Accounts /\ thread[t].account # Nobody
BY Current, SessionAssumption DEF Working, RefreshSteps

LEMMA LeaseStep ==
    ASSUME SessionInv, LeaseInv, NEW t \in Threads, NEW n, NEW th,
           Becomes(t, n, th), KeepsLeases(t, n, th)
    PROVE  LeaseInv'
<1> DEFINE w == WindowOf[t]
<1>0. w \in Windows /\ Nobody \notin Windows /\ \A s \in Threads : WindowOf[s] \in Windows
  BY SessionAssumption
<1>1. /\ mem'[w] = n /\ \A v \in Windows \ {w} : mem'[v] = mem[v]
      /\ thread'[t] = th /\ \A s \in Threads \ {t} : thread'[s] = thread[s]
  BY <1>0 DEF Becomes, SessionInv, Types
<1>2. ASSUME NEW s \in Threads \ {t}, Working(thread[s]), WindowOf[s] = w
      PROVE  /\ lease' = lease /\ n.refreshing = Mgr(t).refreshing
             /\ n.rotation = NoRotation /\ ~Working(th)
  BY <1>2 DEF KeepsLeases
<1>3. ASSUME NEW s \in Threads, Working(thread'[s])
      PROVE  Mgr(s)'.refreshing = thread'[s].account /\ Mgr(s)'.rotation = NoRotation
  <2>1. CASE s = t
    BY <1>1, <1>3, <2>1 DEF KeepsLeases, Mgr
  <2>2. CASE s # t /\ WindowOf[s] = w
    BY <1>1, <1>2, <1>3, <2>2 DEF LeaseInv, Mgr
  <2>3. CASE s # t /\ WindowOf[s] # w
    BY <1>0, <1>1, <1>3, <2>3 DEF LeaseInv, Mgr
  <2> QED BY <2>1, <2>2, <2>3
<1>4. ASSUME NEW s \in Threads, NEW r \in Threads, Working(thread'[s]), Working(thread'[r]),
             WindowOf[s] = WindowOf[r]
      PROVE  r = s
  <2>1. CASE s # t /\ r # t
    BY <1>1, <1>4, <2>1 DEF LeaseInv
  <2>2. CASE s = t /\ r # t
    BY <1>1, <1>2, <1>4, <2>2
  <2>3. CASE s # t /\ r = t
    BY <1>1, <1>2, <1>4, <2>3
  <2> QED BY <2>1, <2>2, <2>3
<1>5. ASSUME NEW s \in Threads, Leased(thread'[s])
      PROVE  lease'[thread'[s].account] = WindowOf[s]
  <2>1. CASE s = t
    BY <1>1, <1>5, <2>1 DEF KeepsLeases
  <2>2. CASE s # t
    <3>1. /\ Working(thread[s]) /\ lease[thread[s].account] = WindowOf[s]
          /\ thread[s].account \in Accounts /\ thread'[s] = thread[s]
      BY <1>1, <1>5, <2>2, WorksFor DEF LeaseInv, Leased, Working
    <3>2. CASE WindowOf[s] = w
      BY <1>2, <2>2, <3>1, <3>2
    <3>3. CASE WindowOf[s] # w
      BY <1>0, <3>1, <3>3 DEF KeepsLeases
    <3> QED BY <3>2, <3>3
  <2> QED BY <2>1, <2>2
<1>6. ASSUME NEW v \in Windows, mem'[v].rotation # NoRotation
      PROVE  mem'[v].account \in Accounts /\ lease'[mem'[v].account] = v
  <2>1. CASE v = w
    BY <1>1, <1>6, <2>1 DEF KeepsLeases
  <2>2. CASE v # w
    <3>1. mem[v].account \in Accounts /\ lease[mem[v].account] = v /\ mem'[v] = mem[v]
      BY <1>1, <1>6, <2>2 DEF LeaseInv
    <3> QED BY <1>0, <2>2, <3>1 DEF KeepsLeases
  <2> QED BY <2>1, <2>2
<1> QED BY <1>3, <1>4, <1>5, <1>6 DEF LeaseInv

\* Threads that do not refresh: their manager keeps its refresh and rotation,
\* or gives the rotation up.
LEMMA BesideRefresh ==
    ASSUME SessionInv, LeaseInv, NEW t \in Threads, NEW n, NEW th,
           Becomes(t, n, th), ~Working(thread[t]), ~Working(th),
           n.refreshing = Mgr(t).refreshing,
           \/ /\ lease' = lease /\ n.rotation = Mgr(t).rotation
              /\ n.rotation # NoRotation => n.account = Mgr(t).account
           \/ lease' = LeaseAfterDiscard(t) /\ n.rotation = NoRotation
    PROVE  LeaseInv'
<1> DEFINE w == WindowOf[t]
<1>0. w \in Windows /\ lease \in [Accounts -> Windows \cup {Nobody}]
  BY Facts, StaysWithMem
<1>1. Mgr(t).rotation # NoRotation =>
          Mgr(t).account \in Accounts /\ lease[Mgr(t).account] = w
  BY <1>0 DEF LeaseInv, Mgr
<1>2. \A a \in Accounts : lease'[a] # lease[a] => lease[a] \in {w, Nobody}
  BY <1>0, <1>1 DEF LeaseAfterDiscard
<1>3. ASSUME NEW s \in Threads \ {t}, Working(thread[s]), WindowOf[s] = w
      PROVE  lease' = lease /\ n.rotation = NoRotation
  <2>1. Mgr(t).rotation = NoRotation
    BY <1>3 DEF LeaseInv, Mgr
  <2> QED BY <2>1 DEF LeaseAfterDiscard
<1>4. n.rotation # NoRotation => n.account \in Accounts /\ lease'[n.account] = w
  BY <1>1
<1>5. ~Leased(th)
  BY DEF Leased, Working
<1>6. KeepsLeases(t, n, th)
  BY <1>2, <1>3, <1>4, <1>5 DEF KeepsLeases
<1> QED BY <1>6, LeaseStep

\* The thread that refreshes is the only one of its window that does.
LEMMA InRefresh ==
    ASSUME SessionInv, LeaseInv, NEW t \in Threads, NEW n, NEW th,
           Becomes(t, n, th), Working(thread[t]),
           \A a \in Accounts : lease'[a] # lease[a] => lease[a] \in {WindowOf[t], Nobody},
           Working(th) => n.refreshing = th.account /\ n.rotation = NoRotation,
           Leased(th) => lease'[th.account] = WindowOf[t],
           n.rotation # NoRotation => n.account \in Accounts /\ lease'[n.account] = WindowOf[t]
    PROVE  LeaseInv'
<1>1. \A s \in Threads \ {t} : ~(Working(thread[s]) /\ WindowOf[s] = WindowOf[t])
  BY DEF LeaseInv
<1>2. KeepsLeases(t, n, th)
  BY <1>1 DEF KeepsLeases
<1> QED BY <1>2, LeaseStep

NotRefreshing == {"idle", "ask", "wait"} \cup LoginSteps \cup {"end", "erase", "logout"}

LEMMA LeaseAlone ==
    ASSUME SessionInv, LeaseInv, NEW t \in Threads, NEW th,
           thread' = [thread EXCEPT ![t] = th], UNCHANGED <<mem, lease>>,
           thread[t].pc \in NotRefreshing, th.pc \in NotRefreshing
    PROVE  LeaseInv'
<1>1. Becomes(t, Mgr(t), th)
  BY Facts DEF Becomes, Mgr, SessionInv, Types
<1>2. ~Working(thread[t]) /\ ~Working(th)
  BY DEF NotRefreshing, LoginSteps, Working
<1> QED BY <1>1, <1>2, BesideRefresh

LEMMA LeaseStepAlone ==
    ASSUME SessionInv, LeaseInv, NEW t \in Threads, NEW pc \in NotRefreshing,
           Step(t, pc) \/ Done(t), UNCHANGED <<mem, lease>>,
           thread[t].pc \in NotRefreshing
    PROVE  LeaseInv'
<1>1. thread[t] \in Thread
  BY StaysWithMem
<1>2. CASE Step(t, pc)
  <2> DEFINE th == [thread[t] EXCEPT !.pc = pc]
  <2>1. th.pc = pc
    BY <1>1 DEF Thread
  <2>2. thread' = [thread EXCEPT ![t] = th]
    BY <1>2 DEF Step, SessionInv, Types
  <2> HIDE DEF th
  <2> QED BY <2>1, <2>2, LeaseAlone
<1>3. CASE Done(t)
  <2>1. Idle.pc \in NotRefreshing
    BY DEF Idle, NotRefreshing
  <2> QED BY <1>3, <2>1, LeaseAlone DEF Done
<1> QED BY <1>2, <1>3

LEMMA LoginLeases ==
    ASSUME SessionInv, LeaseInv, NEW t \in Threads,
           \/ ActivateSave(t) \/ Opened(t) \/ NotOpened(t) \/ Erase(t) \/ Logout(t)
    PROVE  LeaseInv'
<1>1. UNCHANGED <<mem, lease>> /\ thread[t].pc \in NotRefreshing
  BY DEF ActivateSave, Opened, NotOpened, Erase, Logout, NotRefreshing, LoginSteps
<1>2. \E pc \in NotRefreshing : Step(t, pc) \/ Done(t)
  BY DEF ActivateSave, Opened, NotOpened, Erase, Logout, NotRefreshing, LoginSteps
<1> QED BY <1>1, <1>2, LeaseStepAlone

LEMMA WantLeases ==
    ASSUME SessionInv, LeaseInv, NEW t \in Threads, Want(t)
    PROVE  LeaseInv'
<1>1. PICK rejected \in {0, Mgr(t).session} :
         thread' = [thread EXCEPT ![t] =
            [@ EXCEPT !.pc = "ask", !.account = Mgr(t).account, !.logouts = Mgr(t).logouts,
                      !.rejected = rejected]]
  BY DEF Want
<1> DEFINE th == [thread[t] EXCEPT !.pc = "ask", !.account = Mgr(t).account,
                      !.logouts = Mgr(t).logouts, !.rejected = rejected]
<1>2. th.pc = "ask" /\ thread[t].pc = "idle"
  BY StaysWithMem DEF Want, Thread
<1>3. thread' = [thread EXCEPT ![t] = th]
  BY <1>1 DEF SessionInv, Types
<1> HIDE DEF th
<1> QED BY <1>2, <1>3, LeaseAlone DEF Want, NotRefreshing

LEMMA BeginLeases ==
    ASSUME SessionInv, LeaseInv, NEW t \in Threads, Begin(t), UNCHANGED lease,
           thread[t].pc \in {"ask", "wait"}, thread[t].logouts = Mgr(t).logouts,
           Mgr(t).refreshing = Nobody
    PROVE  LeaseInv'
<1> DEFINE m == Mgr(t) w == WindowOf[t]
           n == [m EXCEPT !.refreshing = thread[t].account, !.rotation = NoRotation]
           kept == m.rotation # NoRotation
           th == [thread[t] EXCEPT !.pc = IF kept THEN "settle" ELSE "enter",
                      !.logouts = m.logouts, !.token = m.rotation.original,
                      !.session = m.rotation.session, !.rejected = 0]
<1>1. m \in Manager /\ thread[t] \in Thread /\ m.account = thread[t].account /\ w \in Windows
  BY Facts DEF ThreadFits, RefreshSteps
<1>2. n.refreshing = thread[t].account /\ n.rotation = NoRotation
  BY <1>1 DEF Manager
<1>3. th.account = thread[t].account /\ th.pc = IF kept THEN "settle" ELSE "enter"
  BY <1>1 DEF Thread
<1>4. Becomes(t, n, th)
  BY DEF Becomes, Begin, SetMgr, SessionInv, Types
<1> HIDE DEF n, th
<1>5. ASSUME NEW s \in Threads \ {t}, Working(thread[s]), WindowOf[s] = w PROVE FALSE
  BY <1>5, WorksFor DEF LeaseInv, Mgr
<1>6. Leased(th) => lease'[th.account] = w
  BY <1>1, <1>3 DEF Leased, LeaseInv, Mgr
<1>7. KeepsLeases(t, n, th)
  BY <1>2, <1>3, <1>5, <1>6 DEF KeepsLeases
<1> QED BY <1>4, <1>7, LeaseStep

LEMMA DecideLeases ==
    ASSUME SessionInv, LeaseInv, NEW t \in Threads, Decide(t), UNCHANGED lease,
           thread[t].pc \in {"ask", "wait"}, thread[t].logouts = Mgr(t).logouts,
           Mgr(t).refreshing = Nobody
    PROVE  LeaseInv'
<1>1. CASE Begin(t) BY <1>1, BeginLeases
<1>2. CASE Done(t) /\ UNCHANGED mem BY <1>2, LeaseStepAlone DEF NotRefreshing
<1> QED BY <1>1, <1>2 DEF Decide

LEMMA AskLeases ==
    ASSUME SessionInv, LeaseInv, NEW t \in Threads, Ask(t)
    PROVE  LeaseInv'
<1>0. thread[t].pc = "ask" /\ UNCHANGED lease
  BY DEF Ask
<1>1. CASE Done(t) /\ UNCHANGED mem
  BY <1>0, <1>1, LeaseStepAlone DEF NotRefreshing
<1>2. CASE /\ UNCHANGED mem
           /\ thread' = [thread EXCEPT ![t].pc = "wait",
                             ![t].same = Mgr(t).refreshing = thread[t].account]
  <2> DEFINE th == [thread[t] EXCEPT !.pc = "wait", !.same = Mgr(t).refreshing = thread[t].account]
  <2>1. thread' = [thread EXCEPT ![t] = th]
    BY <1>2 DEF SessionInv, Types
  <2>2. th.pc = "wait"
    BY StaysWithMem DEF Thread
  <2> HIDE DEF th
  <2> QED BY <1>0, <1>2, <2>1, <2>2, LeaseAlone DEF NotRefreshing
<1>3. CASE Decide(t) /\ IsCurrent(t) /\ Mgr(t).refreshing = Nobody
  BY <1>0, <1>3, DecideLeases DEF IsCurrent
<1> QED BY <1>1, <1>2, <1>3 DEF Ask

LEMMA WaitLeases ==
    ASSUME SessionInv, LeaseInv, NEW t \in Threads, Wait(t)
    PROVE  LeaseInv'
<1>0. thread[t].pc = "wait" /\ UNCHANGED lease
  BY DEF Wait
<1>1. CASE Done(t) /\ UNCHANGED mem
  BY <1>0, <1>1, LeaseStepAlone DEF NotRefreshing
<1>2. CASE Decide(t) /\ Mgr(t).logouts = thread[t].logouts /\ Mgr(t).refreshing = Nobody
  BY <1>0, <1>2, DecideLeases
<1> QED BY <1>1, <1>2 DEF Wait

\* The refresh goes on, with the lease once it has it.
LEMMA WithinLeases ==
    ASSUME SessionInv, LeaseInv, NEW t \in Threads, NEW th, UNCHANGED <<mem, lease>>,
           thread' = [thread EXCEPT ![t] = th], Working(thread[t]), Working(th),
           th.account = thread[t].account, Leased(th) => Leased(thread[t])
    PROVE  LeaseInv'
<1>1. Becomes(t, Mgr(t), th)
  BY Facts DEF Becomes, Mgr, SessionInv, Types
<1>2. Mgr(t).refreshing = th.account /\ Mgr(t).rotation = NoRotation
  BY DEF LeaseInv
<1>3. Leased(th) => lease'[th.account] = WindowOf[t]
  BY DEF LeaseInv
<1> QED BY <1>1, <1>2, <1>3, InRefresh

LEMMA StepLeases ==
    ASSUME SessionInv, LeaseInv, NEW t \in Threads, NEW pc, UNCHANGED <<mem, lease>>,
           Step(t, pc), Leased(thread[t]), pc \in {"settle", "failed"}
    PROVE  LeaseInv'
<1> DEFINE th == [thread[t] EXCEPT !.pc = pc]
<1>1. th.pc = pc /\ th.account = thread[t].account
  BY StaysWithMem DEF Thread
<1>2. thread' = [thread EXCEPT ![t] = th]
  BY DEF Step, SessionInv, Types
<1> HIDE DEF th
<1> QED BY <1>1, <1>2, WithinLeases DEF Leased, Working

\* The refresh ends: it gives the lease back, or a rotation keeps it.
LEMMA EndLeases ==
    ASSUME SessionInv, LeaseInv, NEW t \in Threads, NEW m \in Manager, NEW release,
           End(t, m, release), Working(thread[t]), release => Leased(thread[t]),
           m.rotation # NoRotation =>
               ~release /\ Leased(thread[t]) /\ m.account = thread[t].account
    PROVE  LeaseInv'
<1> DEFINE w == WindowOf[t] a == thread[t].account n == [m EXCEPT !.refreshing = Nobody]
<1>1. n.rotation = m.rotation /\ n.account = m.account
  BY DEF Manager
<1>2. Becomes(t, n, Idle)
  BY DEF Becomes, End, SetMgr, Done
<1> HIDE DEF n
<1>3. a \in Accounts /\ (Leased(thread[t]) => lease[a] = w)
  BY WorksFor DEF LeaseInv
<1>4. \A b \in Accounts : lease'[b] # lease[b] => lease[b] \in {w, Nobody}
  BY <1>3, StaysWithMem DEF End
<1>5. ~Working(Idle) /\ ~Leased(Idle)
  BY DEF Idle, Working, Leased
<1>6. n.rotation # NoRotation => n.account \in Accounts /\ lease'[n.account] = w
  BY <1>1, <1>3 DEF End
<1> QED BY <1>2, <1>4, <1>5, <1>6, InRefresh

\* What a refresh may end with has no rotation but one it made itself.
LEMMA NoRotationLeft ==
    ASSUME SessionInv, LeaseInv, NEW t \in Threads, Working(thread[t])
    PROVE  /\ Mgr(t) \in Manager /\ Mgr(t).rotation = NoRotation
           /\ Offline(Mgr(t)) \in Manager /\ Offline(Mgr(t)).rotation = NoRotation
           /\ \A s \in {"signed_out", "reauth"} :
                State(Mgr(t), s) \in Manager /\ State(Mgr(t), s).rotation = NoRotation
           /\ LET n == Remember(Mgr(t), thread[t].session)
              IN  n \in Manager /\ n.rotation = NoRotation
<1>1. Mgr(t) \in Manager /\ Mgr(t).rotation = NoRotation /\ thread[t].session \in Tokens
  BY Facts DEF LeaseInv, Thread
<1>2. {"signed_out", "reauth"} \subseteq States
  BY DEF States
<1> QED BY <1>1, <1>2, Managers

LEMMA EnterLeases ==
    ASSUME SessionInv, LeaseInv, NEW t \in Threads, Enter(t)
    PROVE  LeaseInv'
<1> DEFINE w == WindowOf[t] a == thread[t].account
<1>0. /\ Working(thread[t]) /\ thread[t] \in Thread /\ a \in Accounts
      /\ Mgr(t).refreshing = a /\ Mgr(t).rotation = NoRotation /\ UNCHANGED mem
      /\ lease \in [Accounts -> Windows \cup {Nobody}]
  BY WorksFor, StaysWithMem DEF Enter, Working, LeaseInv
<1>1. PICK pc \in {"load", "busy"} :
         /\ Step(t, pc)
         /\ \/ pc = "busy" /\ lease' = lease
            \/ lease[a] = Nobody /\ lease' = [lease EXCEPT ![a] = w]
  BY DEF Enter
<1> DEFINE th == [thread[t] EXCEPT !.pc = pc]
<1>2. th.pc = pc /\ th.account = a
  BY <1>0 DEF Thread
<1>3. Becomes(t, Mgr(t), th)
  BY <1>0, <1>1, Facts DEF Becomes, Step, Mgr, SessionInv, Types
<1> HIDE DEF th
<1>4. Leased(th) => lease'[th.account] = w
  BY <1>0, <1>1, <1>2 DEF Leased
<1>5. \A b \in Accounts : lease'[b] # lease[b] => lease[b] \in {w, Nobody}
  BY <1>0, <1>1
<1> QED BY <1>0, <1>2, <1>3, <1>4, <1>5, InRefresh

LEMMA LoadLeases ==
    ASSUME SessionInv, LeaseInv, NEW t \in Threads, Load(t)
    PROVE  LeaseInv'
<1>0. Working(thread[t]) /\ Leased(thread[t])
  BY DEF Load, Working, Leased
<1>1. CASE \E n \in {Mgr(t), State(Mgr(t), "signed_out")} : End(t, n, TRUE)
  BY <1>0, <1>1, NoRotationLeft, EndLeases
<1>2. CASE /\ thread' = [thread EXCEPT ![t].token = keyring[thread[t].account].token,
                  ![t].pc = IF thread[t].session = 0 THEN "request" ELSE "settle"]
           /\ UNCHANGED <<mem, lease>>
  <2> DEFINE th == [thread[t] EXCEPT !.token = keyring[thread[t].account].token,
                        !.pc = IF thread[t].session = 0 THEN "request" ELSE "settle"]
  <2>1. th.pc \in {"request", "settle"} /\ th.account = thread[t].account
    BY StaysWithMem DEF Thread
  <2>2. thread' = [thread EXCEPT ![t] = th]
    BY <1>2 DEF SessionInv, Types
  <2> HIDE DEF th
  <2> QED BY <1>0, <1>2, <2>1, <2>2, WithinLeases DEF Working
<1>3. CASE Step(t, "failed") /\ UNCHANGED <<mem, lease>>
  BY <1>0, <1>3, StepLeases
<1> QED BY <1>1, <1>2, <1>3 DEF Load, Proceed

LEMMA RequestLeases ==
    ASSUME SessionInv, LeaseInv, NEW t \in Threads, Request(t)
    PROVE  LeaseInv'
<1>0. Working(thread[t]) /\ Leased(thread[t]) /\ UNCHANGED <<mem, lease>>
  BY DEF Request, Working, Leased
<1>1. CASE Step(t, "settle")
  BY <1>0, <1>1, StepLeases
<1>2. CASE \/ thread' = [thread EXCEPT ![t].session = server.issued + 1, ![t].pc = "settle"]
           \/ thread' = [thread EXCEPT ![t].refused = TRUE, ![t].pc = "settle"]
  <2> DEFINE th == thread'[t]
  <2>1. thread[t] \in Thread /\ thread \in [Threads -> Thread]
    BY StaysWithMem DEF SessionInv, Types
  <2>2. /\ thread' = [thread EXCEPT ![t] = th]
        /\ th.pc = "settle" /\ th.account = thread[t].account
    BY <1>2, <2>1 DEF Thread
  <2> HIDE DEF th
  <2> QED BY <1>0, <2>2, WithinLeases DEF Working
<1> QED BY <1>1, <1>2 DEF Request

\* It gives back the lease its thread held.
LEMMA CutOffLeases ==
    ASSUME SessionInv, LeaseInv, NEW t \in Threads, CutOff(t)
    PROVE  LeaseInv'
<1>1. Working(thread[t]) /\ Leased(thread[t]) /\ End(t, Mgr(t), TRUE)
  BY DEF CutOff, Working, Leased
<1>2. Mgr(t) \in Manager /\ Mgr(t).rotation = NoRotation
  BY <1>1, NoRotationLeft
<1> QED BY <1>1, <1>2, EndLeases

LEMMA SettleLeases ==
    ASSUME SessionInv, LeaseInv, NEW t \in Threads, Settle(t)
    PROVE  LeaseInv'
<1> DEFINE m == Mgr(t)
<1>0. Working(thread[t]) /\ Leased(thread[t])
  BY DEF Settle, Working, Leased
<1>1. CASE \E n \in {m, State(m, "signed_out"), Offline(m), Remember(m, thread[t].session)} :
              End(t, n, TRUE)
  <2>1. PICK n \in {m, State(m, "signed_out"), Offline(m), Remember(m, thread[t].session)} :
              End(t, n, TRUE)
    BY <1>1
  <2>2. n \in Manager /\ n.rotation = NoRotation
    BY <1>0, NoRotationLeft
  <2> QED BY <1>0, <2>1, <2>2, EndLeases
<1>2. CASE Step(t, "failed") /\ UNCHANGED <<mem, lease>>
  BY <1>0, <1>2, StepLeases
<1>3. CASE End(t, [State(m, "reauth") EXCEPT !.revoked = @ \cup {thread[t].account}], TRUE)
  <2> DEFINE k == State(m, "reauth") n == [k EXCEPT !.revoked = @ \cup {thread[t].account}]
  <2>1. k \in Manager /\ k.rotation = NoRotation /\ thread[t].account \in Accounts
    BY <1>0, NoRotationLeft, WorksFor
  <2> HIDE DEF k
  <2>2. n \in Manager /\ n.rotation = NoRotation
    BY <2>1 DEF Manager
  <2> QED BY <1>0, <1>3, <2>2, EndLeases DEF k
<1> QED BY <1>1, <1>2, <1>3 DEF Settle

LEMMA FailedLeases ==
    ASSUME SessionInv, LeaseInv, NEW t \in Threads, Failed(t)
    PROVE  LeaseInv'
<1> DEFINE m == Mgr(t)
           rotation == [session |-> thread[t].session, original |-> thread[t].token]
<1>0. Working(thread[t]) /\ (thread[t].pc = "failed" => Leased(thread[t]))
  BY DEF Failed, Working, Leased
<1>1. CASE \E n \in {m, Offline(m)} : End(t, n, thread[t].pc = "failed")
  BY <1>0, <1>1, NoRotationLeft, EndLeases
<1>2. CASE /\ IsCurrent(t) /\ thread[t].pc = "failed"
           /\ End(t, [Offline(m) EXCEPT !.rotation = rotation], FALSE)
  <2> DEFINE k == Offline(m) n == [k EXCEPT !.rotation = rotation]
  <2>1. /\ k \in Manager /\ k.account = m.account /\ m.account = thread[t].account
        /\ rotation \in [session : Tokens, original : Tokens]
    BY <1>0, <1>2, NoRotationLeft, Managers, StaysWithMem DEF IsCurrent, SameLogin, Thread
  <2> HIDE DEF k, rotation
  <2>2. n \in Manager /\ n.account = k.account
    BY <2>1 DEF Manager
  <2> QED BY <1>0, <1>2, <2>1, <2>2, EndLeases DEF k, rotation
<1> QED BY <1>1, <1>2 DEF Failed

LEMMA Quiet ==
    ASSUME NEW t, thread[t].pc \in NotRefreshing
    PROVE  ~Working(thread[t])
BY DEF NotRefreshing, LoginSteps, Working

LEMMA SignInLeases ==
    ASSUME SessionInv, LeaseInv, NEW t \in Threads, SignIn(t)
    PROVE  LeaseInv'
<1> DEFINE m == Mgr(t) n == [m EXCEPT !.activations = @ + 1]
<1>1. PICK a \in Accounts :
         thread' = [thread EXCEPT ![t] = [Idle EXCEPT !.pc = "save", !.account = a,
                !.session = server.issued + 1, !.logouts = m.logouts,
                !.activation = m.activations + 1,
                !.previous = IF profile[WindowOf[t]].open
                             THEN profile[WindowOf[t]].account ELSE Nobody]]
  BY DEF SignIn
<1> DEFINE th == [Idle EXCEPT !.pc = "save", !.account = a,
                !.session = server.issued + 1, !.logouts = m.logouts,
                !.activation = m.activations + 1,
                !.previous = IF profile[WindowOf[t]].open
                             THEN profile[WindowOf[t]].account ELSE Nobody]
<1>2. th.pc = "save"
  BY DEF Idle
<1>3. Becomes(t, n, th)
  BY <1>1 DEF SignIn, SetMgr, Becomes
<1>4. n.refreshing = m.refreshing /\ n.rotation = m.rotation /\ n.account = m.account
  BY Facts DEF Manager
<1> HIDE DEF th, n
<1>5. ~Working(th) /\ ~Working(thread[t]) /\ UNCHANGED lease
  BY <1>2 DEF SignIn, Working
<1> QED BY <1>3, <1>4, <1>5, BesideRefresh

LEMMA SignOutAllLeases ==
    ASSUME SessionInv, LeaseInv, NEW t \in Threads, SignOutAll(t)
    PROVE  LeaseInv'
<1> DEFINE th == [Idle EXCEPT !.pc = "end", !.account = Mgr(t).account]
<1>1. thread' = [thread EXCEPT ![t] = th] /\ UNCHANGED <<mem, lease>>
  BY DEF SignOutAll
<1>2. th.pc = "end" /\ thread[t].pc = "idle"
  BY DEF Idle, SignOutAll
<1> HIDE DEF th
<1> QED BY <1>1, <1>2, LeaseAlone DEF NotRefreshing

LEMMA ActivateCommitLeases ==
    ASSUME SessionInv, LeaseInv, NEW t \in Threads, ActivateCommit(t)
    PROVE  LeaseInv'
<1> DEFINE m == Mgr(t) a == thread[t].account
<1>0. thread[t].pc = "commit" /\ m \in Manager /\ thread[t].session \in Tokens
  BY Facts DEF ActivateCommit, Thread
<1>1. CASE Step(t, "cancelled") /\ UNCHANGED <<mem, lease>>
  BY <1>0, <1>1, LeaseStepAlone DEF NotRefreshing, LoginSteps
<1>2. CASE /\ SetMgr(t, [Remember(Discard(m), thread[t].session) EXCEPT
                  !.logouts = @ + 1, !.account = a,
                  !.blocked = @ \ {a}, !.revoked = @ \ {a}])
           /\ lease' = LeaseAfterDiscard(t) /\ Step(t, "opened")
  <2> DEFINE k == Remember(Discard(m), thread[t].session)
             n == [k EXCEPT !.logouts = @ + 1, !.account = a,
                            !.blocked = @ \ {a}, !.revoked = @ \ {a}]
             th == [thread[t] EXCEPT !.pc = "opened"]
  <2>1. k \in Manager /\ k.rotation = NoRotation /\ k.refreshing = m.refreshing
    <3>1. Discard(m) \in Manager /\ Discard(m).rotation = NoRotation
          /\ Discard(m).refreshing = m.refreshing
      BY <1>0, Discards DEF Discard, Manager
    <3> DEFINE d == Discard(m)
    <3> HIDE DEF d
    <3>2. Remember(d, thread[t].session) \in Manager
      BY <1>0, <3>1, Managers DEF d
    <3>3. Remember(d, thread[t].session).rotation = d.rotation
          /\ Remember(d, thread[t].session).refreshing = d.refreshing
      BY <3>1 DEF d, Remember, Manager
    <3> QED BY <3>1, <3>2, <3>3 DEF d
  <2>2. th.pc = "opened"
    BY StaysWithMem DEF Thread
  <2>3. thread' = [thread EXCEPT ![t] = th]
    BY <1>2 DEF Step, SessionInv, Types
  <2> HIDE DEF k, th
  <2>4. n.rotation = NoRotation /\ n.refreshing = m.refreshing
    BY <2>1 DEF Manager
  <2>5. Becomes(t, n, th)
    BY <1>2, <2>3 DEF Becomes, SetMgr, k
  <2>6. ~Working(thread[t]) /\ ~Working(th)
    BY <1>0, <2>2 DEF Working
  <2> HIDE DEF n
  <2> QED BY <1>2, <2>4, <2>5, <2>6, BesideRefresh
<1> QED BY <1>1, <1>2 DEF ActivateCommit

LEMMA EndSessionLeases ==
    ASSUME SessionInv, LeaseInv, NEW t \in Threads, NEW a \in Accounts, NEW th,
           EndSession(t, a), thread' = [thread EXCEPT ![t] = th], th.pc = "erase",
           thread[t].pc \in NotRefreshing
    PROVE  LeaseInv'
<1> DEFINE m == Mgr(t) k == [m EXCEPT !.activations = @ + 1, !.blocked = @ \cup {a}]
<1>1. /\ k.refreshing = m.refreshing /\ k.rotation = m.rotation /\ k.account = m.account
      /\ k \in Manager
  <2>1. m \in Manager
    BY Facts
  <2>2. m.activations + 1 \in Nat /\ m.blocked \cup {a} \in SUBSET Accounts
    BY <2>1 DEF Manager
  <2> QED BY <2>1, <2>2 DEF Manager
<1>2. ~Working(thread[t]) /\ ~Working(th)
  BY Quiet DEF Working
<1>3. CASE m.account = a
  <2> DEFINE d == Discard(State(k, "signed_out"))
             n == [d EXCEPT !.logouts = @ + 1, !.backoff = FALSE]
  <2>1. mem' = [mem EXCEPT ![WindowOf[t]] = n] /\ lease' = LeaseAfterDiscard(t)
    BY <1>3, <1>1 DEF EndSession, SetMgr
  <2>2. d \in Manager /\ d.rotation = NoRotation /\ d.refreshing = k.refreshing
    <3> HIDE DEF k
    <3>1. State(k, "signed_out") \in Manager
      BY <1>1, Managers DEF States
    <3>2. State(k, "signed_out").refreshing = k.refreshing
      BY <1>1 DEF State, Manager
    <3> QED BY <3>1, <3>2, Discards DEF Discard, Manager
  <2> HIDE DEF d
  <2>3. n.rotation = NoRotation /\ n.refreshing = d.refreshing
    BY <2>2 DEF Manager
  <2> HIDE DEF n, k
  <2> QED BY <1>1, <1>2, <2>1, <2>2, <2>3, BesideRefresh DEF Becomes
<1>4. CASE m.account # a
  <2>1. mem' = [mem EXCEPT ![WindowOf[t]] = k] /\ lease' = lease
    BY <1>4, <1>1 DEF EndSession, SetMgr
  <2> HIDE DEF k
  <2> QED BY <1>1, <1>2, <2>1, BesideRefresh DEF Becomes
<1> QED BY <1>3, <1>4

LEMMA SignOutLeases ==
    ASSUME SessionInv, LeaseInv, NEW t \in Threads, SignOut(t) \/ AllSignedOut(t)
    PROVE  LeaseInv'
<1>1. CASE SignOut(t)
  <2> DEFINE w == WindowOf[t] a == profile[w].account
             th == [Idle EXCEPT !.pc = "erase", !.account = a,
                        !.session = IF Mgr(t).account = a THEN Mgr(t).session ELSE 0]
  <2>1. a \in Accounts
    BY <1>1, Facts DEF SignOut, ProfileState, SomeAccount
  <2>2. /\ EndSession(t, a) /\ thread' = [thread EXCEPT ![t] = th] /\ thread[t].pc = "idle"
    BY <1>1 DEF SignOut
  <2>3. th.pc = "erase"
    BY DEF Idle
  <2> HIDE DEF th
  <2> QED BY <2>1, <2>2, <2>3, EndSessionLeases DEF NotRefreshing
<1>2. CASE AllSignedOut(t)
  <2> DEFINE a == thread[t].account th == [thread[t] EXCEPT !.pc = "erase"]
  <2>1. a \in Accounts /\ th.pc = "erase"
    BY <1>2, Facts DEF AllSignedOut, ThreadFits, Thread
  <2>2. EndSession(t, a) /\ thread' = [thread EXCEPT ![t] = th] /\ thread[t].pc = "end"
    BY <1>2 DEF AllSignedOut, Step, SessionInv, Types
  <2> HIDE DEF th
  <2> QED BY <2>1, <2>2, EndSessionLeases DEF NotRefreshing
<1> QED BY <1>1, <1>2

LEMMA RestoreLeases ==
    ASSUME SessionInv, LeaseInv, NEW t \in Threads, Restore(t)
    PROVE  LeaseInv'
<1> DEFINE w == WindowOf[t] m == Mgr(t) a == profile[w].account
           changed == [Discard(m) EXCEPT !.logouts = @ + 1, !.account = a,
                           !.state = "offline", !.session = 0, !.backoff = FALSE]
           n == IF m.account = a THEN m ELSE changed
           th == [Idle EXCEPT !.pc = "ask", !.account = a, !.logouts = n.logouts]
<1>1. th.pc = "ask" /\ thread[t].pc = "idle"
  BY DEF Idle, Restore
<1>2. Becomes(t, n, th)
  BY DEF Restore, SetMgr, Becomes
<1>3. \/ lease' = lease /\ n = m
      \/ lease' = LeaseAfterDiscard(t) /\ n = changed
  BY DEF Restore
<1>4. changed.rotation = NoRotation /\ changed.refreshing = m.refreshing
  <2>1. /\ Discard(m) \in Manager /\ Discard(m).rotation = NoRotation
        /\ Discard(m).refreshing = m.refreshing
    BY Facts, Discards DEF Discard, Manager
  <2> QED BY <2>1 DEF Manager
<1>5. ~Working(thread[t]) /\ ~Working(th)
  BY <1>1 DEF Working
<1> HIDE DEF th, n, changed
<1> QED BY <1>2, <1>3, <1>4, <1>5, BesideRefresh

LEMMA BackoffLeases ==
    ASSUME SessionInv, LeaseInv, NEW w \in Windows, BackoffEnds(w)
    PROVE  LeaseInv'
<1> DEFINE n == [mem[w] EXCEPT !.backoff = FALSE]
<1>1. n.refreshing = mem[w].refreshing /\ n.rotation = mem[w].rotation /\ n.account = mem[w].account
  BY DEF SessionInv, Types, Manager
<1>2. UNCHANGED <<lease, thread>> /\ mem' = [mem EXCEPT ![w] = n]
  BY DEF BackoffEnds
<1> HIDE DEF n
<1>3. \A v \in Windows : /\ mem'[v].refreshing = mem[v].refreshing
                         /\ mem'[v].rotation = mem[v].rotation
                         /\ mem'[v].account = mem[v].account
  BY <1>1, <1>2 DEF SessionInv, Types
<1>4. \A t \in Threads : WindowOf[t] \in Windows
  BY SessionAssumption
<1> QED BY <1>2, <1>3, <1>4 DEF LeaseInv, Mgr

LEMMA CrashLeases ==
    ASSUME SessionInv, LeaseInv, NEW w \in Windows, Crash(w)
    PROVE  LeaseInv'
<1>1. /\ mem'[w] = FreshManager /\ \A v \in Windows \ {w} : mem'[v] = mem[v]
      /\ \A t \in Threads : thread'[t] = IF WindowOf[t] = w THEN Idle ELSE thread[t]
      /\ \A a \in Accounts : lease'[a] = IF lease[a] = w THEN Nobody ELSE lease[a]
      /\ \A t \in Threads : WindowOf[t] \in Windows
  BY SessionAssumption DEF Crash, SessionInv, Types
<1>2. ~Working(Idle) /\ ~Leased(Idle) /\ FreshManager.rotation = NoRotation
  BY DEF Idle, Working, Leased, FreshManager
<1>3. ASSUME NEW t \in Threads, Working(thread'[t])
      PROVE  WindowOf[t] # w /\ thread'[t] = thread[t] /\ mem'[WindowOf[t]] = mem[WindowOf[t]]
  BY <1>1, <1>2, <1>3
<1>4. \A t \in Threads : Working(thread'[t]) =>
          Mgr(t)'.refreshing = thread'[t].account /\ Mgr(t)'.rotation = NoRotation
  BY <1>3 DEF LeaseInv, Mgr
<1>5. \A t, s \in Threads : Working(thread'[t]) /\ Working(thread'[s]) /\ WindowOf[t] = WindowOf[s]
          => s = t
  BY <1>3 DEF LeaseInv
<1>6. ASSUME NEW t \in Threads, Leased(thread'[t])
      PROVE  lease'[thread'[t].account] = WindowOf[t]
  <2>1. Working(thread'[t])
    BY <1>6 DEF Leased, Working
  <2>2. WindowOf[t] # w /\ thread'[t] = thread[t] /\ thread[t].account \in Accounts
    BY <1>3, <2>1, WorksFor
  <2> QED BY <1>1, <1>6, <2>2 DEF LeaseInv
<1>7. ASSUME NEW v \in Windows, mem'[v].rotation # NoRotation
      PROVE  mem'[v].account \in Accounts /\ lease'[mem'[v].account] = v
  <2>1. v # w /\ mem'[v] = mem[v]
    BY <1>1, <1>2, <1>7
  <2> QED BY <1>1, <1>7, <2>1 DEF LeaseInv
<1> QED BY <1>4, <1>5, <1>6, <1>7 DEF LeaseInv

LEMMA LeaseNext == SessionInv /\ LeaseInv /\ [Next]_vars => LeaseInv'
<1> SUFFICES ASSUME SessionInv, LeaseInv, [Next]_vars PROVE LeaseInv'
  OBVIOUS
<1>1. ASSUME NEW t \in Threads, Want(t) \/ Refresh(t) PROVE LeaseInv'
  BY <1>1, WantLeases, AskLeases, WaitLeases, EnterLeases, LoadLeases, RequestLeases,
     CutOffLeases, SettleLeases, FailedLeases
  DEF Refresh
<1>2. ASSUME NEW t \in Threads, Login(t) PROVE LeaseInv'
  BY <1>2, LoginLeases, ActivateCommitLeases, SignOutLeases DEF Login
<1>3. ASSUME NEW t \in Threads, Act(t) PROVE LeaseInv'
  BY <1>3, SignInLeases, SignOutLeases, SignOutAllLeases, RestoreLeases DEF Act
<1>4. ASSUME NEW w \in Windows, BackoffEnds(w) \/ Crash(w) PROVE LeaseInv'
  BY <1>4, BackoffLeases, CrashLeases
<1>5. CASE UNCHANGED vars
  BY <1>5 DEF vars, LeaseInv, Mgr
<1> QED BY <1>1, <1>2, <1>3, <1>4, <1>5 DEF Next

\* The service knows the same tokens.
SameTokens ==
    server'.issued = server.issued /\ server'.next = server.next /\ server'.owner = server.owner

\* The service issued a token: at a login, or to the owner of the one it took.
OneMore ==
    LET n == server.issued + 1 IN
    \E a \in Accounts, from \in 0..server.issued :
        /\ server'.issued = n /\ n \in 1..MaxTokens
        /\ server'.owner = [server.owner EXCEPT ![n] = a]
        /\ server'.next = IF from = 0 THEN server.next ELSE [server.next EXCEPT ![from] = n]
        /\ from # 0 => server.owner[from] = a

\* What is in the keyring for a is no successor of a token, unless it was before.
RingKept(a) ==
    keyring'[a].token \in {keyring[a].token, 0} \/ FromLogin(server', keyring'[a].token)

LEMMA ServiceFacts ==
    ASSUME SessionInv
    PROVE  /\ MaxTokens \in Nat \ {0} /\ server.issued \in 0..MaxTokens
           /\ server.next \in [1..MaxTokens -> 0..MaxTokens]
           /\ server.owner \in [1..MaxTokens -> SomeAccount]
           /\ \A a : \A n \in TokensFor(server, a) :
                n = 0 \/ (n \in 1..server.issued /\ server.owner[n] = a)
BY SessionAssumption DEF SessionInv, Types, SharedTypes, Service, Tokens, TokensFor

LEMMA IssuesOneMore ==
    ASSUME SessionInv, NEW a \in Accounts, NEW from \in 0..server.issued, Issue(a, from),
           from # 0 => server.owner[from] = a
    PROVE  OneMore
<1>1. server \in Service /\ MaxTokens \in Nat /\ server.issued \in 0..MaxTokens
  BY ServiceFacts DEF SessionInv, Types, SharedTypes
<1> DEFINE n == server.issued + 1
           next == IF from = 0 THEN server.next ELSE [server.next EXCEPT ![from] = n]
<1>2. n \in 1..MaxTokens
  BY <1>1 DEF Issue
<1>3. server' = [server EXCEPT !.issued = n, !.valid = (@ \ {from}) \cup {n},
                     !.owner = [@ EXCEPT ![n] = a], !.next = next]
  BY <1>1 DEF Issue
<1> HIDE DEF next
<1>4. /\ server'.issued = n /\ server'.next = next
      /\ server'.owner = [server.owner EXCEPT ![n] = a]
  BY <1>1, <1>3 DEF Service
<1> QED BY <1>2, <1>4 DEF OneMore, next

LEMMA Chains ==
    ASSUME SessionInv, ChainInv, SameTokens \/ OneMore,
           \A s \in Threads : thread'[s].pc = "request" =>
               \/ thread'[s] = thread[s] /\ RingKept(thread[s].account)
               \/ MayPresent(thread'[s], server', keyring'),
           \A s \in Threads : thread'[s].pc = "save" =>
               thread'[s] = thread[s] \/ FromLogin(server', thread'[s].session)
    PROVE  ChainInv'
<1> DEFINE n == server.issued + 1
<1>0. /\ MaxTokens \in Nat \ {0} /\ server.issued \in 0..MaxTokens
      /\ server.next \in [1..MaxTokens -> 0..MaxTokens]
      /\ server.owner \in [1..MaxTokens -> SomeAccount]
  BY ServiceFacts
<1>1. /\ \A k \in 1..MaxTokens : server'.next[k] # server.next[k] =>
            /\ server'.next[k] = n /\ n \in 1..MaxTokens /\ server'.issued = n
            /\ k \in 1..server.issued /\ server'.owner[n] = server.owner[k]
      /\ \A k \in 1..server.issued : server'.owner[k] = server.owner[k]
      /\ server'.issued \in {server.issued, n}
  <2>1. CASE SameTokens BY <2>1, <1>0 DEF SameTokens
  <2>2. CASE OneMore
    <3>1. PICK a \in Accounts, from \in 0..server.issued :
            /\ server'.issued = n /\ n \in 1..MaxTokens
            /\ server'.owner = [server.owner EXCEPT ![n] = a]
            /\ server'.next = IF from = 0 THEN server.next ELSE [server.next EXCEPT ![from] = n]
            /\ from # 0 => server.owner[from] = a
      BY <2>2 DEF OneMore
    <3>2. server'.owner[n] = a /\ \A k \in 1..server.issued : server'.owner[k] = server.owner[k]
      BY <1>0, <3>1
    <3>3. ASSUME NEW k \in 1..MaxTokens, server'.next[k] # server.next[k]
          PROVE  server'.next[k] = n /\ k = from /\ from # 0
      BY <1>0, <3>1, <3>3
    <3> QED BY <1>0, <3>1, <3>2, <3>3
  <2> QED BY <2>1, <2>2
<1>2. ASSUME NEW k \in 1..MaxTokens PROVE Follows(server', k)
  <2>0. Follows(server, k) /\ server.next[k] \in 0..MaxTokens
    BY <1>0 DEF ChainInv
  <2>1. CASE server'.next[k] = server.next[k]
    BY <1>0, <1>1, <2>0, <2>1 DEF Follows
  <2>2. CASE server'.next[k] # server.next[k]
    BY <1>0, <1>1, <2>2 DEF Follows
  <2> QED BY <2>1, <2>2
<1>3. ASSUME NEW s \in Threads, thread'[s].pc = "request", thread'[s] = thread[s],
             RingKept(thread[s].account)
      PROVE  MayPresent(thread[s], server', keyring')
  <2> DEFINE k == thread[s].token a == thread[s].account
  <2>1. /\ thread[s].session = 0 /\ k \in 1..server.issued /\ server.owner[k] = a
        /\ server.next[k] # 0 => keyring[a].token # server.next[k]
        /\ a \in Accounts
    BY <1>3, Current DEF ChainInv, MayPresent, RefreshSteps
  <2>2. k \in 1..MaxTokens /\ k \in 1..server'.issued /\ server'.owner[k] = a
    BY <1>0, <1>1, <2>1
  <2>3. keyring[a].token \in 0..server.issued
    BY <1>0, <2>1, ServiceFacts DEF SessionInv, TokensInv
  <2>4. server'.next[k] # 0 => keyring'[a].token # server'.next[k]
    <3>1. CASE keyring'[a].token = keyring[a].token
      <4>1. n # keyring[a].token
        BY <1>0, <2>3
      <4>2. server'.next[k] = server.next[k] \/ server'.next[k] = n
        BY <1>1, <2>2
      <4> QED BY <2>1, <3>1, <4>1, <4>2
    <3>2. CASE keyring'[a].token = 0
      BY <3>2
    <3>3. CASE FromLogin(server', keyring'[a].token)
      BY <2>2, <3>3 DEF FromLogin
    <3> QED BY <1>3, <3>1, <3>2, <3>3 DEF RingKept
  <2> QED BY <2>1, <2>2, <2>4 DEF MayPresent
<1>4. ASSUME NEW s \in Threads, thread'[s].pc = "save", thread'[s] = thread[s]
      PROVE  FromLogin(server', thread[s].session)
  <2>1. FromLogin(server, thread[s].session) /\ thread[s].session \in 1..server.issued
    BY <1>4, Facts, StaysWithMem, ServiceFacts DEF ChainInv, ThreadFits
  <2>2. n # thread[s].session
    BY <1>0, <2>1
  <2>3. ASSUME NEW k \in 1..MaxTokens PROVE server'.next[k] # thread[s].session
    <3>1. server'.next[k] = server.next[k] \/ server'.next[k] = n
      BY <1>1
    <3> QED BY <2>1, <2>2, <3>1 DEF FromLogin
  <2> QED BY <2>3 DEF FromLogin
<1> QED BY <1>2, <1>3, <1>4 DEF ChainInv

\* A step that no thread begins to present a token or to save a login with,
\* and that leaves service and keyring alone.
LEMMA ChainsAlone ==
    ASSUME SessionInv, ChainInv, SameTokens, UNCHANGED keyring,
           \A s \in Threads : thread'[s].pc \in {"request", "save"} => thread'[s] = thread[s]
    PROVE  ChainInv'
BY Chains DEF RingKept

LEMMA ServiceAlone ==
    ASSUME SessionInv
    PROVE  UNCHANGED server => SameTokens
BY DEF SameTokens

LEMMA RevokesNoToken ==
    ASSUME SessionInv, NEW a, Revoke(a)
    PROVE  SameTokens
BY DEF Revoke, SameTokens, SessionInv, Types, SharedTypes, Service

\* One thread moves on, and not to a request or to the saving of a login.
LEMMA ChainsStep ==
    ASSUME SessionInv, ChainInv, SameTokens, UNCHANGED keyring, NEW t \in Threads, NEW th,
           thread' = [thread EXCEPT ![t] = th], th.pc \notin {"request", "save"}
    PROVE  ChainInv'
<1>1. \A s \in Threads : thread'[s].pc \in {"request", "save"} => thread'[s] = thread[s]
  BY DEF SessionInv, Types
<1> QED BY <1>1, ChainsAlone

LEMMA ChainsMove ==
    ASSUME SessionInv, ChainInv, SameTokens, UNCHANGED keyring, NEW t \in Threads,
           Done(t) \/ \E pc \in Steps \ {"request", "save"} : Step(t, pc)
    PROVE  ChainInv'
<1>1. ASSUME NEW pc \in Steps \ {"request", "save"}, Step(t, pc) PROVE ChainInv'
  <2> DEFINE th == [thread[t] EXCEPT !.pc = pc]
  <2>1. th.pc = pc
    BY StaysWithMem DEF Thread
  <2>2. thread' = [thread EXCEPT ![t] = th]
    BY <1>1 DEF Step, SessionInv, Types
  <2> HIDE DEF th
  <2> QED BY <2>1, <2>2, ChainsStep
<1>2. CASE Done(t)
  BY <1>2, ChainsStep DEF Done, Idle
<1> QED BY <1>1, <1>2

LEMMA AskChains ==
    ASSUME SessionInv, ChainInv, NEW t \in Threads, Want(t) \/ Ask(t) \/ Wait(t)
    PROVE  ChainInv'
<1>0. SameTokens /\ UNCHANGED keyring /\ thread[t] \in Thread /\ thread \in [Threads -> Thread]
  BY ServiceAlone, StaysWithMem DEF Want, Ask, Wait, SessionInv, Types
<1>1. CASE Done(t)
  BY <1>0, <1>1, ChainsMove
<1>2. CASE Begin(t)
  <2> DEFINE th == thread'[t]
  <2>1. thread' = [thread EXCEPT ![t] = th] /\ th.pc \in {"settle", "enter"}
    BY <1>0, <1>2 DEF Begin, Thread
  <2> HIDE DEF th
  <2> QED BY <1>0, <2>1, ChainsStep
<1>3. CASE thread' = [thread EXCEPT ![t].pc = "wait",
                          ![t].same = Mgr(t).refreshing = thread[t].account]
  <2> DEFINE th == thread'[t]
  <2>1. thread' = [thread EXCEPT ![t] = th] /\ th.pc = "wait"
    BY <1>0, <1>3 DEF Thread
  <2> HIDE DEF th
  <2> QED BY <1>0, <2>1, ChainsStep
<1>4. CASE Want(t)
  <2> DEFINE th == thread'[t]
  <2>1. thread' = [thread EXCEPT ![t] = th] /\ th.pc = "ask"
    BY <1>0, <1>4 DEF Want, Thread
  <2> HIDE DEF th
  <2> QED BY <1>0, <2>1, ChainsStep
<1> QED BY <1>1, <1>2, <1>3, <1>4 DEF Ask, Wait, Decide

LEMMA LoadChains ==
    ASSUME SessionInv, ChainInv, NEW t \in Threads, Load(t)
    PROVE  ChainInv'
<1> DEFINE a == thread[t].account token == keyring[a].token
<1>0. /\ SameTokens /\ UNCHANGED <<server, keyring>> /\ thread[t] \in Thread
      /\ thread \in [Threads -> Thread] /\ a \in Accounts
  BY ServiceAlone, StaysWithMem, Current DEF Load, RefreshSteps, SessionInv, Types
<1>1. CASE Done(t) \/ Step(t, "failed")
  BY <1>0, <1>1, ChainsMove DEF Steps
<1>2. CASE /\ token # 0
           /\ thread' = [thread EXCEPT ![t].token = token,
                  ![t].pc = IF thread[t].session = 0 THEN "request" ELSE "settle"]
  <2> DEFINE th == [thread[t] EXCEPT !.token = token,
                        !.pc = IF thread[t].session = 0 THEN "request" ELSE "settle"]
  <2>1. /\ th.token = token /\ th.account = a /\ th.session = thread[t].session
        /\ th.pc = IF thread[t].session = 0 THEN "request" ELSE "settle"
    BY <1>0 DEF Thread
  <2>2. thread' = [thread EXCEPT ![t] = th]
    BY <1>0, <1>2
  <2> HIDE DEF th
  <2>3. th.pc = "request" => MayPresent(th, server', keyring')
    <3>1. token \in 1..server.issued /\ server.owner[token] = a /\ token \in 1..MaxTokens
      BY <1>0, <1>2, ServiceFacts DEF SessionInv, TokensInv
    <3>2. server.next[token] # 0 => server.next[token] # token
      BY <3>1, ServiceFacts DEF ChainInv, Follows
    <3> QED BY <1>0, <2>1, <3>1, <3>2 DEF MayPresent
  <2>4. \A s \in Threads : thread'[s] = IF s = t THEN th ELSE thread[s]
    BY <1>0, <2>2
  <2>5. \A b : RingKept(b)
    BY <1>0 DEF RingKept
  <2>6. th.pc # "save"
    BY <2>1
  <2> QED BY <1>0, <2>3, <2>4, <2>5, <2>6, Chains
<1> QED BY <1>1, <1>2 DEF Load, Proceed, End

LEMMA RequestChains ==
    ASSUME SessionInv, ChainInv, NEW t \in Threads, Request(t) \/ CutOff(t)
    PROVE  ChainInv'
<1> DEFINE a == thread[t].account token == thread[t].token th == thread'[t]
<1>0. /\ UNCHANGED keyring /\ thread[t] \in Thread /\ thread \in [Threads -> Thread]
      /\ a \in Accounts /\ thread[t].pc = "request"
      /\ token \in 1..server.issued /\ server.owner[token] = a
  BY StaysWithMem, Current
  DEF Request, CutOff, RefreshSteps, SessionInv, Types, ChainInv, MayPresent
<1>1. thread' = [thread EXCEPT ![t] = th] /\ th.pc \in {"settle", "idle"}
  <2>1. CASE Request(t)
    BY <1>0, <2>1 DEF Request, Step, Thread
  <2>2. CASE CutOff(t)
    BY <1>0, <2>2 DEF CutOff, End, Done, Idle
  <2> QED BY <2>1, <2>2
<1>2. SameTokens \/ OneMore
  <2>1. CASE Issue(a, token)
    <3>1. token \in 0..server.issued
      BY <1>0, ServiceFacts
    <3> QED BY <1>0, <2>1, <3>1, IssuesOneMore
  <2>2. CASE Revoke(a) \/ UNCHANGED server
    BY <2>2, RevokesNoToken, ServiceAlone
  <2> QED BY <2>1, <2>2 DEF Request, CutOff
<1> HIDE DEF th
<1>3. \A s \in Threads : thread'[s].pc \in {"request", "save"} => thread'[s] = thread[s]
  BY <1>0, <1>1
<1>4. \A b : RingKept(b)
  BY <1>0 DEF RingKept
<1> QED BY <1>2, <1>3, <1>4, Chains

\* The thread that may store a refreshed token is the only one that presents
\* one for its account: the others do not have the lease.
LEMMA AloneWithLease ==
    ASSUME SessionInv, LeaseInv, NEW t \in Threads, Leased(thread[t]),
           NEW s \in Threads, thread[s].pc = "request", thread[s].account = thread[t].account
    PROVE  s = t
<1>1. Working(thread[t]) /\ Working(thread[s]) /\ Leased(thread[s])
  BY DEF Leased, Working
<1>2. WindowOf[s] = WindowOf[t]
  BY <1>1 DEF LeaseInv
<1> QED BY <1>1, <1>2 DEF LeaseInv

LEMMA SettleChains ==
    ASSUME SessionInv, LeaseInv, ChainInv, NEW t \in Threads, Settle(t)
    PROVE  ChainInv'
<1> DEFINE a == thread[t].account
<1>0. /\ SameTokens /\ thread[t].pc = "settle" /\ Leased(thread[t]) /\ thread[t] \in Thread
      /\ keyring \in [Accounts -> Entry] /\ thread \in [Threads -> Thread]
  BY ServiceAlone, StaysWithMem DEF Settle, Leased, SessionInv, Types
<1>1. \A b \in Accounts \ {a} : keyring'[b] = keyring[b]
  BY <1>0 DEF Settle, Stored
<1>2. Step(t, "failed") \/ Done(t)
  BY DEF Settle, End
<1>3. \A s \in Threads : thread'[s].pc \in {"request", "save"} => thread'[s] = thread[s]
  BY <1>0, <1>2 DEF Step, Done, Idle, Thread
<1>4. \A s \in Threads : thread'[s].pc = "request" => RingKept(thread[s].account)
  <2> SUFFICES ASSUME NEW s \in Threads, thread'[s].pc = "request"
               PROVE  RingKept(thread[s].account)
    OBVIOUS
  <2>1. s # t /\ thread[s].pc = "request"
    BY <1>0, <1>3
  <2>2. thread[s].account \in Accounts /\ thread[s].account # a
    BY <1>0, <2>1, AloneWithLease, Current DEF RefreshSteps
  <2> QED BY <1>1, <2>2 DEF RingKept
<1> QED BY <1>0, <1>3, <1>4, Chains

LEMMA SaveChains ==
    ASSUME SessionInv, ChainInv, NEW t \in Threads, ActivateSave(t)
    PROVE  ChainInv'
<1> DEFINE a == thread[t].account
<1>0. /\ SameTokens /\ UNCHANGED server /\ thread[t].pc = "save" /\ thread[t] \in Thread
      /\ keyring \in [Accounts -> Entry] /\ thread \in [Threads -> Thread]
      /\ FromLogin(server, thread[t].session)
  BY ServiceAlone, StaysWithMem DEF ActivateSave, SessionInv, Types, ChainInv
<1>1. PICK pc \in {"cancelled", "commit", "unsaved"} : Step(t, pc)
  BY DEF ActivateSave
<1>2. \A s \in Threads : thread'[s].pc \in {"request", "save"} => thread'[s] = thread[s]
  BY <1>0, <1>1 DEF Step, Thread
<1>3. \A b \in Accounts : RingKept(b)
  <2>1. keyring' = keyring \/ keyring' = Stored(t, a, thread[t].session)
    BY DEF ActivateSave
  <2> QED BY <1>0, <2>1 DEF RingKept, Stored
<1>4. \A s \in Threads : thread'[s].pc = "request" => thread[s].account \in Accounts
  BY <1>2, Current DEF RefreshSteps
<1> QED BY <1>0, <1>2, <1>3, <1>4, Chains

LEMMA EraseChains ==
    ASSUME SessionInv, ChainInv, NEW t \in Threads, Erase(t)
    PROVE  ChainInv'
<1>0. /\ SameTokens /\ thread[t].pc = "erase" /\ thread[t] \in Thread
      /\ keyring \in [Accounts -> Entry] /\ thread \in [Threads -> Thread]
  BY ServiceAlone, StaysWithMem DEF Erase, SessionInv, Types
<1>1. Step(t, "logout") \/ Done(t)
  BY DEF Erase
<1>2. \A s \in Threads : thread'[s].pc \in {"request", "save"} => thread'[s] = thread[s]
  BY <1>0, <1>1 DEF Step, Done, Idle, Thread
<1>3. \A b \in Accounts : RingKept(b)
  BY <1>0 DEF Erase, RingKept, Stored
<1>4. \A s \in Threads : thread'[s].pc = "request" => thread[s].account \in Accounts
  BY <1>2, Current DEF RefreshSteps
<1> QED BY <1>0, <1>2, <1>3, <1>4, Chains

LEMMA SignInChains ==
    ASSUME SessionInv, ChainInv, NEW t \in Threads, SignIn(t)
    PROVE  ChainInv'
<1> DEFINE n == server.issued + 1 th == thread'[t]
<1>0. /\ UNCHANGED keyring /\ thread \in [Threads -> Thread] /\ 0 \in 0..server.issued
  BY ServiceFacts DEF SignIn, SessionInv, Types
<1>1. PICK a \in Accounts : Issue(a, 0)
  BY DEF SignIn
<1>2. OneMore
  BY <1>0, <1>1, IssuesOneMore
<1>3. thread' = [thread EXCEPT ![t] = th] /\ th.pc = "save" /\ th.session = n
  BY <1>0 DEF SignIn, Idle
<1>4. FromLogin(server', n)
  <2>1. server' = [server EXCEPT !.issued = n, !.valid = (@ \ {0}) \cup {n}, !.owner[n] = a,
                       !.next = @]
    BY <1>1 DEF Issue
  <2>2. server'.next = server.next
    BY <2>1 DEF SessionInv, Types, SharedTypes, Service
  <2>3. ASSUME NEW k \in 1..MaxTokens PROVE server.next[k] # n
    BY ServiceFacts DEF ChainInv, Follows
  <2> QED BY <2>2, <2>3 DEF FromLogin
<1> HIDE DEF th
<1>5. \A s \in Threads : thread'[s] = IF s = t THEN th ELSE thread[s]
  BY <1>0, <1>3
<1>6. \A b : RingKept(b)
  BY <1>0 DEF RingKept
<1>7. \A s \in Threads : thread'[s].pc = "request" => thread'[s] = thread[s]
  BY <1>3, <1>5
<1>8. \A s \in Threads : thread'[s].pc = "save" =>
          thread'[s] = thread[s] \/ FromLogin(server', thread'[s].session)
  BY <1>3, <1>4, <1>5
<1> QED BY <1>2, <1>6, <1>7, <1>8, Chains

LEMMA OtherChains ==
    ASSUME SessionInv, ChainInv, NEW t \in Threads,
           \/ Enter(t) \/ Failed(t) \/ ActivateCommit(t) \/ Opened(t) \/ NotOpened(t)
           \/ AllSignedOut(t) \/ Logout(t)
    PROVE  ChainInv'
<1>1. UNCHANGED keyring
  BY DEF Enter, Failed, ActivateCommit, Opened, NotOpened, AllSignedOut, Logout
<1>2. SameTokens
  <2>1. UNCHANGED server \/ \E a : Revoke(a)
    BY DEF Enter, Failed, ActivateCommit, Opened, NotOpened, AllSignedOut, Logout
  <2> QED BY <2>1, ServiceAlone, RevokesNoToken
<1>3. Done(t) \/ \E pc \in {"load", "busy", "cancelled", "opened", "erase"} : Step(t, pc)
  BY DEF Enter, Failed, End, ActivateCommit, Opened, NotOpened, AllSignedOut, Logout
<1>4. Done(t) \/ \E pc \in Steps \ {"request", "save"} : Step(t, pc)
  BY <1>3 DEF Steps
<1> QED BY <1>1, <1>2, <1>4, ChainsMove

LEMMA ActChains ==
    ASSUME SessionInv, ChainInv, NEW t \in Threads, SignOut(t) \/ SignOutAll(t) \/ Restore(t)
    PROVE  ChainInv'
<1> DEFINE th == thread'[t]
<1>1. UNCHANGED keyring /\ thread \in [Threads -> Thread]
  BY DEF SignOut, SignOutAll, Restore, SessionInv, Types
<1>2. SameTokens
  <2>1. UNCHANGED server \/ \E a : Revoke(a)
    BY DEF SignOut, SignOutAll, Restore
  <2> QED BY <2>1, ServiceAlone, RevokesNoToken
<1>3. thread' = [thread EXCEPT ![t] = th] /\ th.pc \in {"erase", "end", "ask"}
  <2>1. CASE SignOut(t)
    <3>1. PICK r : /\ thread' = [thread EXCEPT ![t] = r] /\ r.pc = "erase"
      <4>1. \A a, session :
              [Idle EXCEPT !.pc = "erase", !.account = a, !.session = session].pc = "erase"
        BY DEF Idle
      <4> QED BY <2>1, <4>1 DEF SignOut
    <3> QED BY <1>1, <3>1
  <2>2. CASE SignOutAll(t)
    <3>1. PICK r : /\ thread' = [thread EXCEPT ![t] = r] /\ r.pc = "end"
      <4>1. \A a : [Idle EXCEPT !.pc = "end", !.account = a].pc = "end"
        BY DEF Idle
      <4> QED BY <2>2, <4>1 DEF SignOutAll
    <3> QED BY <1>1, <3>1
  <2>3. CASE Restore(t)
    <3> DEFINE m == Mgr(t) a == profile[WindowOf[t]].account
               changed == [Discard(m) EXCEPT !.logouts = @ + 1, !.account = a,
                              !.state = "offline", !.session = 0, !.backoff = FALSE]
               n == IF m.account = a THEN m ELSE changed
               r == [Idle EXCEPT !.pc = "ask", !.account = a, !.logouts = n.logouts]
    <3>1. thread' = [thread EXCEPT ![t] = r]
      BY <2>3 DEF Restore
    <3>2. r.pc = "ask"
      BY DEF Idle
    <3> HIDE DEF r
    <3> QED BY <1>1, <3>1, <3>2
  <2> QED BY <2>1, <2>2, <2>3
<1> HIDE DEF th
<1> QED BY <1>1, <1>2, <1>3, ChainsStep

LEMMA WindowChains ==
    ASSUME SessionInv, ChainInv, NEW w \in Windows, BackoffEnds(w) \/ Crash(w)
    PROVE  ChainInv'
<1>1. UNCHANGED <<server, keyring>> /\ SameTokens
  BY ServiceAlone DEF BackoffEnds, Crash
<1>2. \A s \in Threads : thread'[s] = thread[s] \/ thread'[s] = Idle
  BY DEF BackoffEnds, Crash
<1>3. \A s \in Threads : thread'[s].pc \in {"request", "save"} => thread'[s] = thread[s]
  BY <1>2 DEF Idle
<1> QED BY <1>1, <1>3, ChainsAlone

LEMMA ChainNext == SessionInv /\ LeaseInv /\ ChainInv /\ [Next]_vars => ChainInv'
<1> SUFFICES ASSUME SessionInv, LeaseInv, ChainInv, [Next]_vars PROVE ChainInv'
  OBVIOUS
<1>1. ASSUME NEW t \in Threads, Want(t) \/ Refresh(t) PROVE ChainInv'
  BY <1>1, AskChains, LoadChains, RequestChains, SettleChains, OtherChains DEF Refresh
<1>2. ASSUME NEW t \in Threads, Login(t) PROVE ChainInv'
  BY <1>2, SaveChains, EraseChains, OtherChains DEF Login
<1>3. ASSUME NEW t \in Threads, Act(t) PROVE ChainInv'
  BY <1>3, SignInChains, ActChains DEF Act
<1>4. ASSUME NEW w \in Windows, BackoffEnds(w) \/ Crash(w) PROVE ChainInv'
  BY <1>4, WindowChains
<1>5. CASE UNCHANGED vars
  <2>1. UNCHANGED <<server, keyring, thread>> /\ SameTokens
    BY <1>5, ServiceAlone DEF vars
  <2> QED BY <2>1, ChainsAlone
<1> QED BY <1>1, <1>2, <1>3, <1>4, <1>5 DEF Next

LEMMA PresentInit == Init => PresentInv
<1> SUFFICES ASSUME Init PROVE PresentInv
  OBVIOUS
<1>1. \A t \in Threads : thread[t] = Idle /\ WindowOf[t] \in Windows
  BY SessionAssumption DEF Init
<1>2. \A w \in Windows : mem[w] = FreshManager
  BY DEF Init
<1>3. LeaseInv
  BY <1>1, <1>2 DEF LeaseInv, Working, Leased, Idle, FreshManager
<1>4. \A k \in 1..MaxTokens : server.next[k] = 0
  BY DEF Init
<1>5. ChainInv
  BY <1>1, <1>4 DEF ChainInv, Follows, Idle
<1> QED BY <1>3, <1>5, SessionInit DEF PresentInv

\* The lease of an account, with the refresh flag of each window, keeps the
\* refreshes of the account apart, in every state.
THEOREM PresentInvariance == Spec => []PresentInv
<1>1. PresentInv /\ [Next]_vars => PresentInv'
  BY SessionNext, LeaseNext, ChainNext DEF PresentInv
<1> QED BY <1>1, PresentInit, PTL DEF Spec

\* No window presents a refresh token whose successor somebody holds: the
\* service never sees a used token from a program that could know better.
THEOREM PresentedIsNewest == Spec => []TokenPresentedIsNewest
<1>1. PresentInv => TokenPresentedIsNewest
  <2> SUFFICES ASSUME PresentInv, NEW t \in Threads, thread[t].pc = "request",
                      server.next[thread[t].token] # 0,
                      server.next[thread[t].token] \in Held(thread[t].account)
               PROVE  FALSE
    BY DEF TokenPresentedIsNewest
  <2> DEFINE a == thread[t].account x == server.next[thread[t].token]
  <2>0. SessionInv /\ LeaseInv /\ ChainInv
    BY DEF PresentInv
  <2>1. Working(thread[t]) /\ Leased(thread[t])
    BY DEF Working, Leased
  <2>2. /\ thread[t].token \in 1..server.issued /\ server.owner[thread[t].token] = a
        /\ keyring[a].token # x
    BY <2>0 DEF ChainInv, MayPresent
  <2>3. thread[t].token \in 1..MaxTokens /\ x \in 1..server.issued /\ server.owner[x] = a
    BY <2>0, <2>2, ServiceFacts DEF ChainInv, Follows
  <2>4. ASSUME NEW b, x \in TokensFor(server, b) PROVE b = a
    BY <2>0, <2>3, <2>4, ServiceFacts
  <2>5. ASSUME NEW w \in Windows, x = mem[w].rotation.session PROVE FALSE
    <3>1. mem[w].account = a
      BY <2>0, <2>4, <2>5 DEF SessionInv, TokensInv
    <3>2. mem[w].rotation # NoRotation
      BY <2>3, <2>5 DEF NoRotation
    <3>3. lease[a] = w /\ lease[a] = WindowOf[t]
      BY <2>0, <2>1, <3>1, <3>2 DEF LeaseInv
    <3> QED BY <2>0, <2>1, <3>2, <3>3 DEF LeaseInv, Mgr
  <2>6. ASSUME NEW s \in Threads, thread[s].pc \in {"settle", "failed"}, x = thread[s].session
        PROVE  FALSE
    <3>1. thread[s].account = a /\ Leased(thread[s])
      BY <2>0, <2>4, <2>6 DEF SessionInv, TokensInv, Leased
    <3> QED BY <2>0, <2>6, <3>1, AloneWithLease
  <2> QED BY <2>2, <2>5, <2>6 DEF Held
<1> QED BY <1>1, PresentInvariance, PTL

=============================================================================
