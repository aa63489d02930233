---------------------------- MODULE RouterProofs ----------------------------
(***************************************************************************)
(* Theorems about ProfileRouter: whichever way a profile is opened, left,  *)
(* deleted or reset, and wherever the program ends, profile, state file,   *)
(* keyring, session and questions belong together.                         *)
(***************************************************************************)
EXTENDS ProfileRouter, SequenceTheorems, TLAPS

USE RouterAssumption

-----------------------------------------------------------------------------
(* The inductive invariant.                                                *)

\* Frames that only run as the last one.
Finishing == {"open", "activate", "signed", "restore"}

\* Frames after which a profile that was opened too early is left again.
Leaving == {"activate", "restore", "return"}

\* The questions of the settings window.
Questions == {"reset", "everywhere", "delete"}

\* A program that does not run has nothing open.
OffIsClosed ==
    ~app.on =>
        /\ stack = <<>> /\ profile = Nobody /\ session = NoSession
        /\ auth = ClosedAuth /\ ~app.update /\ ~app.sealed
        /\ \A r \in Requests : pending[r] = NothingAsked

\* What may be under way while an update is installed.
UpdateIsQuiet ==
    app.update =>
        /\ \A r \in Requests : pending[r] = NothingAsked
        /\ \A i \in 1..Len(stack) : stack[i].what \in {"settings", "reset"}

\* Where a frame may stand in the stack s.
Fits(s, i) ==
    /\ s[i].what \in Finishing => i = Len(s)
    /\ s[i].what = "settings" => i = 1
    /\ s[i].what \in Questions => i = 2 /\ s[1].what = "settings"
    /\ s[i].what = "restore" => i > 1 /\ s[i - 1].what = "show"

StackFits == \A i \in 1..Len(stack) : Fits(stack, i)

\* An account that may be opened without a login.
MayReopen(a) ==
    a \in Accounts => a \in confirmed /\ session.account \in {a, Nobody}

\* What a frame may rely on when it runs.
Relies(f) ==
    /\ f.what \in {"enter", "activate", "signed", "choice"} =>
         f.account \in Accounts /\ store.mem.consent
    /\ f.what \in {"open", "consent"} => f.account \in Accounts \cup {Guest}
    /\ f.what = "open" => store.mem.consent /\ MayReopen(f.account)
    /\ f.what \in {"activate", "restore"} =>
         MayReopen(f.previous) /\ (f.previous # Nobody => store.mem.consent)
    /\ f.what = "activate" =>
         /\ f.account \in store.disk.known \cap store.mem.known
         /\ profile = f.account /\ store.mem.last = f.account
    /\ f.what = "signed" =>
         /\ f.account \in confirmed
         /\ profile = f.account /\ store.mem.last = f.account
         /\ session.account = f.account
    /\ f.what = "seal" => app.sealed
    /\ f.what \in OfMain /\ f.alive => f.account = profile

StackRelies == \A i \in 1..Len(stack) : Relies(stack[i])

\* After a reset beyond recovery only what is dead is on the screen.
SealedIsDead ==
    app.sealed =>
        /\ profile = Nobody
        /\ \A r \in Requests : ~pending[r].current
        /\ \A i \in 1..Len(stack) :
             /\ stack[i].what \in {"settings", "seal", "notice"}
             /\ stack[i].what = "settings" => ~stack[i].alive
        /\ \/ \E i \in 1..Len(stack) : stack[i].what = "seal"
           \/ auth.busy /\ auth.page = "login"

\* A state file, or its copy, as a start may find it.
Startable(s) ==
    /\ s.last # Nobody => s.consent
    /\ s.last \in Accounts /\ ~s.out => s.last \in confirmed

StoreIsStartable ==
    /\ Startable(store.disk) /\ Startable(store.mem)
    /\ profile # Nobody => store.mem.consent

\* A profile that is open and whose sign-in is not confirmed is about to be
\* confirmed or left.
ProfileIsConfirmed ==
    profile \in Accounts =>
        \/ stack # <<>> /\ Top.what \in Leaving
        \/ profile \in confirmed /\ session.account \in {profile, Nobody}

RouterInv ==
    /\ RouterTypeOK /\ OffIsClosed /\ UpdateIsQuiet /\ StackFits /\ StackRelies
    /\ SealedIsDead /\ TokensAreKnown /\ StoreIsStartable
    /\ ProfileIsConfirmed /\ BusyMeansARequest

-----------------------------------------------------------------------------
(* Stacks.                                                                 *)

LEMMA PrefixOfStack ==
    ASSUME NEW S, NEW s \in Seq(S), NEW n \in 0..Len(s)
    PROVE  /\ SubSeq(s, 1, n) \in Seq(S)
           /\ Len(SubSeq(s, 1, n)) = n
           /\ \A i \in 1..n : SubSeq(s, 1, n)[i] = s[i]
  <1>1. Len(s) \in Nat /\ n \in Int /\ 1 \in Int
    BY LenProperties
  <1>2. \A i \in 1..n : s[i] \in S
    BY <1>1, ElementOfSeq
  <1>3. /\ SubSeq(s, 1, n) \in Seq(S)
        /\ Len(SubSeq(s, 1, n)) = IF 1 <= n THEN n - 1 + 1 ELSE 0
        /\ \A i \in 1..n - 1 + 1 : SubSeq(s, 1, n)[i] = s[1 + i - 1]
    BY <1>1, <1>2, SubSeqProperties
  <1> QED BY <1>1, <1>3

LEMMA CutStack ==
    ASSUME NEW S, NEW s \in Seq(S), s # <<>>
    PROVE  /\ Len(s) \in Nat /\ Len(s) > 0
           /\ s[Len(s)] \in S
           /\ SubSeq(s, 1, Len(s) - 1) \in Seq(S)
           /\ Len(SubSeq(s, 1, Len(s) - 1)) = Len(s) - 1
           /\ \A i \in 1..Len(s) - 1 : SubSeq(s, 1, Len(s) - 1)[i] = s[i]
  <1>1. Len(s) \in Nat /\ Len(s) > 0
    BY EmptySeq
  <1>2. s[Len(s)] \in S
    BY <1>1, ElementOfSeq
  <1>3. Len(s) - 1 \in 0..Len(s)
    BY <1>1
  <1> QED BY <1>1, <1>2, <1>3, PrefixOfStack

LEMMA PutOne ==
    ASSUME NEW S, NEW s \in Seq(S), NEW x \in S
    PROVE  /\ Append(s, x) = s \o <<x>>
           /\ s \o <<x>> \in Seq(S)
           /\ Len(s \o <<x>>) = Len(s) + 1
           /\ \A i \in 1..Len(s) : (s \o <<x>>)[i] = s[i]
           /\ (s \o <<x>>)[Len(s) + 1] = x
  <1>1. Append(s, x) = s \o <<x>>
    BY AppendIsConcat
  <1> QED BY <1>1, AppendProperties

LEMMA PutTwo ==
    ASSUME NEW S, NEW s \in Seq(S), NEW x \in S, NEW y \in S
    PROVE  /\ s \o <<x, y>> \in Seq(S)
           /\ Len(s \o <<x, y>>) = Len(s) + 2
           /\ \A i \in 1..Len(s) : (s \o <<x, y>>)[i] = s[i]
           /\ (s \o <<x, y>>)[Len(s) + 1] = x
           /\ (s \o <<x, y>>)[Len(s) + 2] = y
  <1>1. /\ <<x, y>> \in Seq(S) /\ Len(<<x, y>>) = 2
        /\ <<x, y>>[1] = x /\ <<x, y>>[2] = y
    OBVIOUS
  <1>2. Len(s) \in Nat
    BY LenProperties
  <1>3. /\ s \o <<x, y>> \in Seq(S)
        /\ Len(s \o <<x, y>>) = Len(s) + 2
        /\ \A i \in 1..Len(s) + 2 : (s \o <<x, y>>)[i] =
                     IF i <= Len(s) THEN s[i] ELSE <<x, y>>[i - Len(s)]
    BY <1>1, ConcatProperties
  <1> QED BY <1>1, <1>2, <1>3

LEMMA OrphanedStack ==
    ASSUME NEW s \in Seq(Frames)
    PROVE  /\ Orphaned(s) \in Seq(Frames)
           /\ Len(Orphaned(s)) = Len(s)
           /\ \A i \in 1..Len(s) :
                /\ Orphaned(s)[i].what = s[i].what
                /\ Orphaned(s)[i].account = s[i].account
                /\ Orphaned(s)[i].previous = s[i].previous
                /\ Orphaned(s)[i].alive => s[i].alive /\ s[i].what \notin OfMain
  <1>1. ASSUME NEW i \in 1..Len(s)
        PROVE  /\ Orphaned(s)[i] \in Frames
               /\ Orphaned(s)[i].what = s[i].what
               /\ Orphaned(s)[i].account = s[i].account
               /\ Orphaned(s)[i].previous = s[i].previous
               /\ Orphaned(s)[i].alive => s[i].alive /\ s[i].what \notin OfMain
    <2>1. s[i] \in Frames /\ i \in DOMAIN s
      BY ElementOfSeq, LenProperties
    <2>2. Orphaned(s)[i] = IF s[i].what \in OfMain THEN [s[i] EXCEPT !.alive = FALSE]
                           ELSE s[i]
      BY <2>1 DEF Orphaned
    <2> QED BY <2>1, <2>2 DEF Frames
  <1>2. DOMAIN Orphaned(s) = 1..Len(s) /\ Len(s) \in Nat
    BY LenProperties DEF Orphaned
  <1>3. Orphaned(s) = [i \in 1..Len(s) |-> Orphaned(s)[i]]
    BY <1>2 DEF Orphaned
  <1>4. Orphaned(s) \in [1..Len(s) -> Frames]
    BY <1>1, <1>3
  <1>5. Orphaned(s) \in Seq(Frames)
    BY <1>2, <1>4, SeqDef
  <1>6. Len(Orphaned(s)) = Len(s)
    BY <1>2, <1>5, LenProperties
  <1> QED BY <1>1, <1>5, <1>6

\* The stack s keeps the first k frames, though they may have died.
KeepsFirst(s, k) ==
    /\ s \in Seq(Frames) /\ k \in Nat /\ k <= Len(stack) /\ k <= Len(s)
    /\ \A i \in 1..k :
         /\ s[i].what = stack[i].what
         /\ s[i].account = stack[i].account
         /\ s[i].previous = stack[i].previous
         /\ s[i].alive => stack[i].alive

LEMMA KeepsBelow ==
    ASSUME RouterTypeOK, stack # <<>>
    PROVE  /\ Len(stack) \in Nat /\ Len(stack) > 0 /\ Top \in Frames
           /\ KeepsFirst(Below, Len(stack) - 1) /\ Len(Below) = Len(stack) - 1
           /\ KeepsFirst(Orphaned(Below), Len(stack) - 1)
           /\ Len(Orphaned(Below)) = Len(stack) - 1
           /\ \A i \in 1..Len(stack) - 1 :
                stack[i].what \in OfMain => ~Orphaned(Below)[i].alive
  <1>1. stack \in Seq(Frames)
    BY DEF RouterTypeOK
  <1>2. /\ Len(stack) \in Nat /\ Len(stack) > 0 /\ Top \in Frames
        /\ Below \in Seq(Frames) /\ Len(Below) = Len(stack) - 1
        /\ \A i \in 1..Len(stack) - 1 : Below[i] = stack[i]
    BY <1>1, CutStack DEF Top, Below
  <1>3. KeepsFirst(Below, Len(stack) - 1)
    BY <1>2 DEF KeepsFirst
  <1>4. /\ Orphaned(Below) \in Seq(Frames)
        /\ Len(Orphaned(Below)) = Len(stack) - 1
        /\ \A i \in 1..Len(stack) - 1 :
                /\ Orphaned(Below)[i].what = stack[i].what
                /\ Orphaned(Below)[i].account = stack[i].account
                /\ Orphaned(Below)[i].previous = stack[i].previous
                /\ Orphaned(Below)[i].alive => stack[i].alive /\ stack[i].what \notin OfMain
    BY <1>2, OrphanedStack
  <1>5. KeepsFirst(Orphaned(Below), Len(stack) - 1)
    BY <1>2, <1>4 DEF KeepsFirst
  <1> QED BY <1>2, <1>3, <1>4, <1>5

LEMMA KeepsAll ==
    ASSUME RouterTypeOK
    PROVE  KeepsFirst(stack, Len(stack)) /\ Len(stack) \in Nat
  BY LenProperties DEF RouterTypeOK, KeepsFirst

LEMMA KeepsAndOne ==
    ASSUME NEW s, NEW k, KeepsFirst(s, k), Len(s) = k, NEW x \in Frames
    PROVE  /\ KeepsFirst(s \o <<x>>, k) /\ Append(s, x) = s \o <<x>>
           /\ Len(s \o <<x>>) = k + 1 /\ (s \o <<x>>)[k + 1] = x
  <1>1. s \in Seq(Frames) /\ k \in Nat
    BY DEF KeepsFirst
  <1>2. /\ Append(s, x) = s \o <<x>> /\ s \o <<x>> \in Seq(Frames)
        /\ Len(s \o <<x>>) = k + 1 /\ (s \o <<x>>)[k + 1] = x
        /\ \A i \in 1..k : (s \o <<x>>)[i] = s[i]
    BY <1>1, PutOne
  <1>3. KeepsFirst(s \o <<x>>, k)
    BY <1>1, <1>2 DEF KeepsFirst
  <1> QED BY <1>2, <1>3

LEMMA KeepsAndTwo ==
    ASSUME NEW s, NEW k, KeepsFirst(s, k), Len(s) = k,
           NEW x \in Frames, NEW y \in Frames
    PROVE  /\ KeepsFirst(s \o <<x, y>>, k)
           /\ Len(s \o <<x, y>>) = k + 2
           /\ (s \o <<x, y>>)[k + 1] = x /\ (s \o <<x, y>>)[k + 2] = y
  <1>1. s \in Seq(Frames) /\ k \in Nat
    BY DEF KeepsFirst
  <1>2. /\ s \o <<x, y>> \in Seq(Frames) /\ Len(s \o <<x, y>>) = k + 2
        /\ (s \o <<x, y>>)[k + 1] = x /\ (s \o <<x, y>>)[k + 2] = y
        /\ \A i \in 1..k : (s \o <<x, y>>)[i] = s[i]
    BY <1>1, PutTwo
  <1>3. KeepsFirst(s \o <<x, y>>, k)
    BY <1>1, <1>2 DEF KeepsFirst
  <1> QED BY <1>2, <1>3

LEMMA KeepsAndNone ==
    ASSUME NEW s, NEW k, KeepsFirst(s, k)
    PROVE  s \o <<>> = s
  BY ConcatEmptySeq DEF KeepsFirst

LEMMA NewFrame ==
    ASSUME NEW what \in Whats, NEW a \in Profiles
    PROVE  /\ Frame(what, a) \in Frames
           /\ Frame(what, a).what = what /\ Frame(what, a).account = a
           /\ Frame(what, a).previous = Nobody /\ Frame(what, a).alive
  BY DEF Frame, Frames, Profiles

LEMMA FrameFields ==
    ASSUME NEW what \in Whats, NEW a \in Profiles, NEW p \in Profiles
    PROVE  /\ Frame(what, a) \in Frames
           /\ Frame(what, a).what = what /\ Frame(what, a).account = a
           /\ Frame(what, a).previous = Nobody /\ Frame(what, a).alive
           /\ [Frame(what, a) EXCEPT !.previous = p] \in Frames
           /\ [Frame(what, a) EXCEPT !.previous = p].what = what
           /\ [Frame(what, a) EXCEPT !.previous = p].account = a
           /\ [Frame(what, a) EXCEPT !.previous = p].previous = p
           /\ [Frame(what, a) EXCEPT !.previous = p].alive
  BY DEF Frame, Frames, Profiles

\* A step that keeps the first k frames, none of which finishes, and puts
\* frames on them that fit and may rely on what they do.
LEMMA StackStep ==
    ASSUME StackFits, StackRelies, NEW k, KeepsFirst(stack', k),
           Len(stack) \in Nat,
           k < Len(stack) \/ stack = <<>> \/ Top.what \notin Finishing,
           \A i \in 1..Len(stack') : i > k => Fits(stack', i) /\ Relies(stack[i])',
           \A i \in 1..k : stack[i].what \in {"enter", "choice"} => store'.mem.consent,
           app.sealed => app'.sealed,
           \/ profile' = profile
           \/ \A i \in 1..k : stack[i].what \in OfMain => ~stack'[i].alive
    PROVE  StackFits' /\ StackRelies'
  <1>1. /\ k \in Nat /\ k <= Len(stack) /\ Len(stack') \in Nat /\ k <= Len(stack')
        /\ \A i \in 1..k : /\ stack'[i].what = stack[i].what
                           /\ stack'[i].account = stack[i].account
                           /\ stack'[i].alive => stack[i].alive
    BY LenProperties DEF KeepsFirst
  <1>2. ASSUME NEW i \in 1..k
        PROVE  stack[i].what \notin Finishing
    BY <1>1 DEF StackFits, Fits, Top
  <1>3. ASSUME NEW i \in 1..k
        PROVE  Fits(stack', i)
    <2>1. i \in 1..Len(stack) /\ Fits(stack, i) /\ 1 \in 1..k
      BY <1>1 DEF StackFits
    <2>2. stack[i].what \notin Finishing /\ stack'[i].what = stack[i].what
      BY <1>1, <1>2
    <2>3. stack'[1].what = stack[1].what
      BY <1>1, <2>1
    <2> QED BY <2>1, <2>2, <2>3 DEF Fits, Finishing
  <1>4. ASSUME NEW i \in 1..k
        PROVE  Relies(stack[i])'
    <2>1. Relies(stack[i])
      BY <1>1 DEF StackRelies
    <2> QED BY <1>1, <1>2, <2>1 DEF Relies, Finishing, OfMain
  <1>5. ASSUME NEW i \in 1..Len(stack')
        PROVE  Fits(stack', i) /\ Relies(stack[i])'
    <2>1. CASE i \in 1..k
      BY <1>3, <1>4, <2>1
    <2>2. CASE i > k
      BY <2>2
    <2> QED BY <1>1, <2>1, <2>2
  <1> QED BY <1>5 DEF StackFits, StackRelies, Fits

\* A step that leaves the stack and what its frames rely on.
LEMMA StackStays ==
    ASSUME StackFits, StackRelies, stack' = stack, profile' = profile,
           store' = store, session'.account = session.account,
           confirmed' = confirmed, app.sealed => app'.sealed
    PROVE  StackFits' /\ StackRelies'
  <1>1. \A i \in 1..Len(stack) : Relies(stack[i])' 
    BY DEF StackRelies, Relies, MayReopen
  <1> QED BY <1>1 DEF StackFits, StackRelies, Fits

\* Who is on, and not held by an update or sealed, when a frame runs.
LEMMA Awake ==
    ASSUME RouterInv, stack # <<>>
    PROVE  /\ app.on
           /\ Top.what \notin {"settings", "reset"} => ~app.update
           /\ Top.what \notin {"settings", "seal", "notice"} => ~app.sealed
           /\ Top.what = "settings" /\ Top.alive => ~app.sealed
           /\ Fits(stack, Len(stack)) /\ Relies(Top)
           /\ Len(stack) \in 1..Len(stack)
  <1>1. Len(stack) \in Nat /\ Len(stack) > 0
    BY KeepsBelow DEF RouterInv
  <1>2. Len(stack) \in 1..Len(stack)
    BY <1>1
  <1> QED BY <1>2 DEF RouterInv, OffIsClosed, UpdateIsQuiet, SealedIsDead, StackFits,
                      StackRelies, Top

LEMMA Ordinary ==
    ASSUME app' = app, app.on, ~app.update, ~app.sealed
    PROVE  OffIsClosed' /\ UpdateIsQuiet' /\ SealedIsDead'
  BY DEF OffIsClosed, UpdateIsQuiet, SealedIsDead

\* The frames after which the login is shown anew.
Showing == {"show", "restore", "return", "seal"}

\* A form stays disabled: its request goes on, or the frame that shows the
\* login anew is kept, or there is a new one.
LEMMA BusyStep ==
    ASSUME RouterTypeOK, RouterTypeOK', BusyMeansARequest, NEW k, KeepsFirst(stack', k),
           auth'.visible /\ auth'.busy => auth.visible /\ auth.busy,
           pending' = pending, app.sealed => app'.sealed,
           \/ k = Len(stack)
           \/ k = Len(stack) - 1 /\ Top.what \notin Showing
           \/ \E i \in 1..Len(stack') : stack'[i].what \in Showing
    PROVE  BusyMeansARequest'
  <1>1. /\ DOMAIN stack = 1..Len(stack) /\ DOMAIN stack' = 1..Len(stack')
        /\ Len(stack) \in Nat /\ Len(stack') \in Nat
    BY LenProperties DEF RouterTypeOK
  <1>2. CASE \E i \in 1..Len(stack') : stack'[i].what \in Showing
    BY <1>1, <1>2 DEF BusyMeansARequest, Showing
  <1>3. CASE \/ k = Len(stack)
             \/ k = Len(stack) - 1 /\ Top.what \notin Showing
    <2>1. ASSUME NEW i \in 1..Len(stack), stack[i].what \in Showing
          PROVE  i \in 1..Len(stack') /\ stack'[i].what \in Showing
      <3>1. i \in 1..k
        <4>1. CASE k = Len(stack)
          BY <2>1, <4>1
        <4>2. CASE k = Len(stack) - 1 /\ Top.what \notin Showing
          <5>1. i # Len(stack)
            BY <2>1, <4>2 DEF Top
          <5>2. i \in 1..Len(stack) /\ Len(stack) \in Nat
            BY <1>1
          <5> QED BY <4>2, <5>1, <5>2
        <4> QED BY <1>3, <4>1, <4>2
      <3>2. k \in Nat /\ k <= Len(stack') /\ stack'[i].what = stack[i].what
        BY <3>1 DEF KeepsFirst
      <3>3. i \in 1..Len(stack')
        <4>1. Len(stack') \in Nat
          BY <1>1
        <4> QED BY <3>1, <3>2, <4>1
      <3> QED BY <2>1, <3>2, <3>3
    <2> QED BY <1>1, <2>1 DEF BusyMeansARequest, Showing
  <1> QED BY <1>2, <1>3

LEMMA RememberedFields ==
    ASSUME RouterTypeOK, NEW p \in Profiles, NEW out \in BOOLEAN
    PROVE  /\ Remembered(p, out) \in States
           /\ Remembered(p, out).consent = store.mem.consent
           /\ Remembered(p, out).last = p
           /\ Remembered(p, out).out = out
           /\ Remembered(p, out).known = store.mem.known \cup (Accounts \cap {p})
  BY DEF Remembered, RouterTypeOK, States

\* What either way to write the state file leaves in it and in its copy.
LEMMA SavedFields ==
    ASSUME RouterTypeOK, NEW s \in States, Saves(s) \/ SaveFails(s)
    PROVE  /\ store' \in [disk : States, mem : States]
           /\ store'.disk \in {store.disk, s} /\ store'.mem \in {store.mem, s}
           /\ Saves(s) => store'.disk = s /\ store'.mem = s
           /\ store'.mem = s => Saves(s) \/ store.mem = s
  BY DEF Saves, SaveFails, RouterTypeOK

\* What a handler that has begun may rely on.
LEMMA Begun ==
    ASSUME RouterInv, stack # <<>>
    PROVE  /\ Len(stack) \in Nat /\ Len(stack) > 0
           /\ Top \in Frames /\ Top.account \in Profiles /\ Top.previous \in Profiles
           /\ KeepsFirst(Below, Len(stack) - 1) /\ Len(Below) = Len(stack) - 1
           /\ KeepsFirst(Orphaned(Below), Len(stack) - 1)
           /\ Len(Orphaned(Below)) = Len(stack) - 1
           /\ \A i \in 1..Len(stack) - 1 :
                stack[i].what \in OfMain => ~Orphaned(Below)[i].alive
           /\ Len(stack) - 1 < Len(stack)
  BY KeepsBelow DEF RouterInv, Frames

\* The three ways a stack changes: frames go, and none, one or two are put.
LEMMA PutNothing ==
    ASSUME RouterInv, NEW s, NEW k, KeepsFirst(s, k), Len(s) = k, stack' = s,
           k < Len(stack) \/ stack = <<>> \/ Top.what \notin Finishing,
           \A i \in 1..k : stack[i].what \in {"enter", "choice"} => store'.mem.consent,
           app.sealed => app'.sealed,
           profile' = profile \/ \A i \in 1..k : stack[i].what \in OfMain => ~s[i].alive
    PROVE  /\ stack' \in Seq(Frames) /\ KeepsFirst(stack', k) /\ Len(stack') = k
           /\ StackFits' /\ StackRelies'
  <1>1. StackFits /\ StackRelies /\ Len(stack) \in Nat
    BY LenProperties DEF RouterInv, RouterTypeOK
  <1>2. KeepsFirst(stack', k) /\ Len(stack') = k /\ stack' \in Seq(Frames) /\ k \in Nat
    BY DEF KeepsFirst
  <1>3. \A i \in 1..Len(stack') : ~(i > k)
    BY <1>2
  <1> QED BY <1>1, <1>2, <1>3, StackStep

LEMMA PutFitting ==
    ASSUME RouterInv, NEW s, NEW k, KeepsFirst(s, k), Len(s) = k,
           NEW x \in Frames, stack' = s \o <<x>>,
           Fits(stack', k + 1), Relies(x)',
           k < Len(stack) \/ stack = <<>> \/ Top.what \notin Finishing,
           \A i \in 1..k : stack[i].what \in {"enter", "choice"} => store'.mem.consent,
           app.sealed => app'.sealed,
           profile' = profile \/ \A i \in 1..k : stack[i].what \in OfMain => ~s[i].alive
    PROVE  /\ stack' \in Seq(Frames) /\ KeepsFirst(stack', k) /\ Len(stack') = k + 1
           /\ stack' # <<>> /\ Top' = x
           /\ StackFits' /\ StackRelies'
  <1>1. StackFits /\ StackRelies /\ Len(stack) \in Nat
    BY LenProperties DEF RouterInv, RouterTypeOK
  <1>2. /\ KeepsFirst(stack', k) /\ Len(stack') = k + 1 /\ stack'[k + 1] = x
        /\ s \in Seq(Frames) /\ stack' \in Seq(Frames) /\ k \in Nat
    BY KeepsAndOne DEF KeepsFirst
  <1>3. stack' # <<>> /\ Top' = x
    BY <1>2 DEF Top
  <1>4. ASSUME NEW i \in 1..Len(stack'), i > k
        PROVE  Fits(stack', i) /\ Relies(stack[i])'
    <2>1. i = k + 1 /\ stack'[i] = x
      BY <1>2, <1>4
    <2>2. Relies(stack[i])'
      BY <2>1 DEF Relies
    <2> QED BY <2>1, <2>2
  <1>5. profile' = profile \/ \A i \in 1..k : stack[i].what \in OfMain => ~stack'[i].alive
    <2>1. \A i \in 1..k : stack'[i] = s[i]
      BY <1>2, PutOne
    <2> QED BY <2>1
  <1>6. StackFits' /\ StackRelies'
    BY <1>1, <1>2, <1>4, <1>5, StackStep
  <1> QED BY <1>2, <1>3, <1>6

LEMMA PutFrame ==
    ASSUME RouterInv, NEW s, NEW k, KeepsFirst(s, k), Len(s) = k,
           NEW x \in Frames, stack' = s \o <<x>>,
           x.what \notin {"settings", "restore"} \cup Questions, Relies(x)',
           k < Len(stack) \/ stack = <<>> \/ Top.what \notin Finishing,
           \A i \in 1..k : stack[i].what \in {"enter", "choice"} => store'.mem.consent,
           app.sealed => app'.sealed,
           profile' = profile \/ \A i \in 1..k : stack[i].what \in OfMain => ~s[i].alive
    PROVE  /\ stack' \in Seq(Frames) /\ KeepsFirst(stack', k) /\ Len(stack') = k + 1
           /\ stack' # <<>> /\ Top' = x
           /\ StackFits' /\ StackRelies'
  <1>1. /\ Len(stack') = k + 1 /\ stack'[k + 1] = x /\ k \in Nat
    BY KeepsAndOne DEF KeepsFirst
  <1>2. Fits(stack', k + 1)
    BY <1>1 DEF Fits
  <1> QED BY <1>2, PutFitting

LEMMA PutFrames ==
    ASSUME RouterInv, NEW s, NEW k, KeepsFirst(s, k), Len(s) = k,
           NEW x \in Frames, NEW y \in Frames, stack' = s \o <<x, y>>,
           x.what \notin {"settings"} \cup Finishing \cup Questions, Relies(x)',
           y.what \notin {"settings"} \cup Questions, Relies(y)',
           y.what = "restore" => x.what = "show",
           k < Len(stack) \/ stack = <<>> \/ Top.what \notin Finishing,
           \A i \in 1..k : stack[i].what \in {"enter", "choice"} => store'.mem.consent,
           app.sealed => app'.sealed,
           profile' = profile \/ \A i \in 1..k : stack[i].what \in OfMain => ~s[i].alive
    PROVE  /\ stack' \in Seq(Frames) /\ KeepsFirst(stack', k) /\ Len(stack') = k + 2
           /\ stack' # <<>> /\ Top' = y /\ stack'[k + 1] = x
           /\ StackFits' /\ StackRelies'
  <1>1. StackFits /\ StackRelies /\ Len(stack) \in Nat
    BY LenProperties DEF RouterInv, RouterTypeOK
  <1>2. /\ KeepsFirst(stack', k) /\ Len(stack') = k + 2
        /\ stack'[k + 1] = x /\ stack'[k + 2] = y
        /\ s \in Seq(Frames) /\ stack' \in Seq(Frames) /\ k \in Nat
    BY KeepsAndTwo DEF KeepsFirst
  <1>3. stack' # <<>> /\ Top' = y
    BY <1>2 DEF Top
  <1>4. ASSUME NEW i \in 1..Len(stack'), i > k
        PROVE  Fits(stack', i) /\ Relies(stack[i])'
    <2>1. CASE i = k + 1
      <3>1. stack'[i] = x
        BY <1>2, <2>1
      <3>2. Fits(stack', i)
        BY <3>1 DEF Fits, Finishing
      <3>3. Relies(stack[i])'
        BY <3>1 DEF Relies
      <3> QED BY <3>2, <3>3
    <2>2. CASE i = k + 2
      <3>1. i = Len(stack') /\ stack'[i] = y /\ stack'[i - 1] = x /\ i > 1
        BY <1>2, <2>2
      <3>2. Fits(stack', i)
        BY <3>1 DEF Fits
      <3>3. Relies(stack[i])'
        BY <3>1 DEF Relies
      <3> QED BY <3>2, <3>3
    <2> QED BY <1>2, <1>4, <2>1, <2>2
  <1>5. profile' = profile \/ \A i \in 1..k : stack[i].what \in OfMain => ~stack'[i].alive
    <2>1. \A i \in 1..k : stack'[i] = s[i]
      BY <1>2, PutTwo
    <2> QED BY <2>1
  <1>6. StackFits' /\ StackRelies'
    BY <1>1, <1>2, <1>4, <1>5, StackStep
  <1> QED BY <1>2, <1>3, <1>6

\* Frames that rely on nothing.
LEMMA PlainFrames ==
    /\ Show \in Frames /\ Show.what = "show" /\ Relies(Show)'
    /\ Notice \in Frames /\ Notice.what = "notice" /\ Relies(Notice)'
    /\ /\ Frame("return", Nobody) \in Frames /\ Frame("return", Nobody).what = "return"
       /\ Relies(Frame("return", Nobody))'
  <1>1. /\ {"show", "notice", "return"} \subseteq Whats /\ Nobody \in Profiles
    BY DEF Whats, Code, Profiles
  <1>2. ASSUME NEW x \in Frames, x.what \in {"show", "notice", "return"}
        PROVE  Relies(x)'
    BY <1>2 DEF Relies, OfMain
  <1>7. ASSUME NEW what \in {"show", "notice", "return"}
        PROVE  Frame(what, Nobody) \in Frames /\ Frame(what, Nobody).what = what
    BY <1>1, FrameFields
  <1>3. /\ Show \in Frames /\ Show.what = "show"
        /\ Notice \in Frames /\ Notice.what = "notice"
        /\ Frame("return", Nobody) \in Frames /\ Frame("return", Nobody).what = "return"
    BY <1>7 DEF Show, Notice
  <1>4. Relies(Show)'
    BY <1>3 DEF Relies, OfMain
  <1>5. Relies(Notice)'
    BY <1>3 DEF Relies, OfMain
  <1>6. Relies(Frame("return", Nobody))'
    BY <1>3 DEF Relies, OfMain
  <1> QED BY <1>3, <1>4, <1>5, <1>6

LEMMA BackFrame ==
    ASSUME NEW p \in Profiles
    PROVE  LET back == [Frame("restore", Nobody) EXCEPT !.previous = p] IN
           back \in Frames /\ back.what = "restore" /\ back.previous = p
  <1>1. "restore" \in Whats /\ Nobody \in Profiles
    BY DEF Whats, Code, Profiles
  <1> QED BY <1>1, FrameFields

LEMMA ForgottenType ==
    ASSUME RouterTypeOK
    PROVE  /\ Forgotten \in [Requests -> [kind : {"none", "sign", "mail", "resend"},
                                         current : BOOLEAN]]
           /\ \A r \in Requests : ~Forgotten[r].current
           /\ \A r \in Requests : pending[r] = NothingAsked => Forgotten[r] = NothingAsked
  <1>1. ASSUME NEW r \in Requests
        PROVE  /\ Forgotten[r] = [pending[r] EXCEPT !.current = FALSE]
               /\ pending[r] \in [kind : {"none", "sign", "mail", "resend"}, current : BOOLEAN]
    BY DEF RouterTypeOK, Forgotten
  <1>2. ASSUME NEW r \in Requests
        PROVE  /\ Forgotten[r] \in [kind : {"none", "sign", "mail", "resend"}, current : BOOLEAN]
               /\ ~Forgotten[r].current
               /\ pending[r] = NothingAsked => Forgotten[r] = NothingAsked
    <2>1. Forgotten[r] \in [kind : {"none", "sign", "mail", "resend"}, current : BOOLEAN]
      BY <1>1
    <2>2. ~Forgotten[r].current
      BY <1>1
    <2>3. pending[r] = NothingAsked => Forgotten[r] = NothingAsked
      BY <1>1 DEF NothingAsked
    <2> QED BY <2>1, <2>2, <2>3
  <1> QED BY <1>2 DEF Forgotten

\* How opening a profile fails: before or after the old one is closed.
LEMMA SwitchFailed ==
    ASSUME RouterInv, NEW p \in Profiles, NEW out \in BOOLEAN, NEW then,
           SwitchFails(p, out, then)
    PROVE  /\ store' \in [disk : States, mem : States]
           /\ store'.disk \in {store.disk, Remembered(p, out)}
           /\ store'.mem \in {store.mem, Remembered(p, out)}
           /\ \/ /\ stack' = Below \o then /\ profile' = profile /\ store' = store
              \/ /\ stack' = Orphaned(Below) \o then /\ profile' = Nobody
  <1>1. RouterTypeOK /\ Remembered(p, out) \in States
    BY RememberedFields DEF RouterInv
  <1>2. CASE stack' = Below \o then /\ UNCHANGED <<profile, store>>
    BY <1>1, <1>2 DEF RouterTypeOK
  <1>3. CASE /\ profile' = Nobody
             /\ Saves(Remembered(p, out)) \/ SaveFails(Remembered(p, out))
             /\ stack' = Orphaned(Below) \o then
    BY <1>1, <1>3, SavedFields
  <1> QED BY <1>2, <1>3 DEF SwitchFails

\* The state file may say p once p may be opened.
LEMMA StoreStep ==
    ASSUME RouterInv, NEW p \in Profiles, NEW out \in BOOLEAN,
           store.mem.consent, p \in Accounts /\ ~out => p \in confirmed,
           store'.disk \in {store.disk, Remembered(p, out)},
           store'.mem \in {store.mem, Remembered(p, out)},
           keyring' = keyring, confirmed' = confirmed
    PROVE  TokensAreKnown' /\ StoreIsStartable' /\ store'.mem.consent
  <1>1. /\ Remembered(p, out).consent = store.mem.consent
        /\ Remembered(p, out).last = p /\ Remembered(p, out).out = out
        /\ Remembered(p, out).known = store.mem.known \cup (Accounts \cap {p})
    BY RememberedFields DEF RouterInv
  <1>2. TokensAreKnown'
    BY <1>1 DEF RouterInv, TokensAreKnown
  <1>3. StoreIsStartable' /\ store'.mem.consent
    BY <1>1 DEF RouterInv, StoreIsStartable, Startable
  <1> QED BY <1>2, <1>3

LEMMA SwitchStep ==
    ASSUME RouterInv, stack # <<>>, NEW p \in Profiles, NEW out \in BOOLEAN, NEW then,
           SwitchTo(p, out, then)
    PROVE  /\ profile' = p /\ store' \in [disk : States, mem : States]
           /\ store'.disk \in {store.disk, Remembered(p, out)}
           /\ store'.mem \in {store.mem, Remembered(p, out)}
           /\ store'.disk.known = store.mem.known \cup (Accounts \cap {p})
           /\ store'.mem.known = store.mem.known \cup (Accounts \cap {p})
           /\ store'.mem.last = p
           /\ stack' = Orphaned(Below) \o then
  BY RememberedFields DEF RouterInv, RouterTypeOK, SwitchTo, Saves

-----------------------------------------------------------------------------
(* Code that runs.                                                         *)

\* A profile that cannot be opened: the login is shown, and the one that was
\* open before comes back.
LEMMA SwitchFailedStep ==
    ASSUME RouterInv, stack # <<>>, Top.what \in {"open", "enter"},
           UNCHANGED <<app, keyring, session, auth, pending, confirmed>>,
           NEW p \in Profiles, NEW out \in BOOLEAN,
           store.mem.consent, p \in Accounts /\ ~out => p \in confirmed,
           SwitchFails(p, out, <<Show, [Frame("restore", Nobody) EXCEPT !.previous = profile]>>)
    PROVE  RouterInv'
  <1> DEFINE n == Len(stack) - 1
             Back == [Frame("restore", Nobody) EXCEPT !.previous = profile]
  <1>1. app.on /\ ~app.update /\ ~app.sealed
    BY Awake
  <1>2. /\ KeepsFirst(Below, n) /\ Len(Below) = n
        /\ KeepsFirst(Orphaned(Below), n) /\ Len(Orphaned(Below)) = n
        /\ \A i \in 1..n : stack[i].what \in OfMain => ~Orphaned(Below)[i].alive
        /\ n < Len(stack)
    BY Begun
  <1>3. OffIsClosed' /\ UpdateIsQuiet' /\ SealedIsDead'
    BY <1>1, Ordinary
  <1>4. RouterTypeOK /\ profile \in Profiles
    BY DEF RouterInv, RouterTypeOK
  <1>5. /\ store' \in [disk : States, mem : States]
        /\ store'.disk \in {store.disk, Remembered(p, out)}
        /\ store'.mem \in {store.mem, Remembered(p, out)}
        /\ \/ stack' = Below \o <<Show, Back>> /\ profile' = profile
           \/ stack' = Orphaned(Below) \o <<Show, Back>> /\ profile' = Nobody
    BY SwitchFailed
  <1>6. TokensAreKnown' /\ StoreIsStartable' /\ store'.mem.consent
    BY <1>5, StoreStep
  <1>7. PICK x \in Frames : x = Back /\ x.what = "restore" /\ x.previous = profile
    BY <1>4, BackFrame
  <1>8. Relies(x)'
    BY <1>6, <1>7 DEF RouterInv, ProfileIsConfirmed, Leaving, Relies, OfMain, MayReopen
  <1>9. PICK s : /\ KeepsFirst(s, n) /\ Len(s) = n /\ stack' = s \o <<Show, x>>
                 /\ profile' = profile \/ \A i \in 1..n : stack[i].what \in OfMain => ~s[i].alive
    BY <1>2, <1>5, <1>7
  <1>10. /\ stack' \in Seq(Frames) /\ KeepsFirst(stack', n) /\ Len(stack') = n + 2
         /\ stack' # <<>> /\ Top' = x
         /\ StackFits' /\ StackRelies'
    <2>1. Show.what \notin {"settings"} \cup Finishing \cup Questions
      BY PlainFrames DEF Finishing, Questions
    <2>2. x.what \notin {"settings"} \cup Questions
      BY <1>7 DEF Questions
    <2>3. app.sealed => app'.sealed
      OBVIOUS
    <2>4. n < Len(stack) \/ stack = <<>> \/ Top.what \notin Finishing
      BY <1>2
    <2>5. \A i \in 1..n : stack[i].what \in {"enter", "choice"} => store'.mem.consent
      BY <1>6
    <2>6. Show \in Frames /\ Show.what = "show" /\ Relies(Show)'
      BY PlainFrames
    <2> QED BY <1>8, <1>9, <2>1, <2>2, <2>3, <2>4, <2>5, <2>6, PutFrames
  <1>11. RouterTypeOK' /\ ProfileIsConfirmed'
    BY <1>4, <1>5, <1>7, <1>10 DEF RouterTypeOK, ProfileIsConfirmed, Leaving, Profiles
  <1>12. BusyMeansARequest'
    BY <1>10, <1>11, BusyStep DEF RouterInv, Showing
  <1> QED BY <1>3, <1>6, <1>10, <1>11, <1>12 DEF RouterInv

LEMMA OpenStep ==
    ASSUME RouterInv, Open
    PROVE  RouterInv'
  <1> DEFINE n == Len(stack) - 1
  <1>1. /\ stack # <<>> /\ Top.what = "open"
        /\ UNCHANGED <<app, keyring, session, auth, pending, confirmed>>
    BY DEF Open, Runs
  <1>2. /\ app.on /\ ~app.update /\ ~app.sealed /\ Relies(Top)
    BY <1>1, Awake
  <1>3. /\ Top.account \in Profiles
        /\ KeepsFirst(Orphaned(Below), n) /\ Len(Orphaned(Below)) = n
        /\ \A i \in 1..n : stack[i].what \in OfMain => ~Orphaned(Below)[i].alive
        /\ n < Len(stack)
    BY <1>1, Begun
  <1>4. /\ Top.account \in Accounts \cup {Guest} /\ store.mem.consent
        /\ MayReopen(Top.account)
    BY <1>1, <1>2 DEF Relies
  <1>5. CASE SwitchTo(Top.account, FALSE, <<>>)
    <2>1. /\ profile' = Top.account /\ store' \in [disk : States, mem : States]
          /\ store'.disk \in {store.disk, Remembered(Top.account, FALSE)}
          /\ store'.mem \in {store.mem, Remembered(Top.account, FALSE)}
          /\ stack' = Orphaned(Below)
      BY <1>1, <1>3, <1>5, SwitchStep, KeepsAndNone
    <2>2. TokensAreKnown' /\ StoreIsStartable' /\ store'.mem.consent
      BY <1>1, <1>3, <1>4, <2>1, StoreStep DEF MayReopen
    <2>3. /\ stack' \in Seq(Frames) /\ KeepsFirst(stack', n)
          /\ StackFits' /\ StackRelies'
      BY <1>1, <1>3, <2>1, <2>2, PutNothing
    <2>4. RouterTypeOK'
      BY <1>1, <1>3, <2>1, <2>3 DEF RouterInv, RouterTypeOK
    <2>5. ProfileIsConfirmed'
      BY <1>1, <1>4, <2>1 DEF ProfileIsConfirmed, MayReopen
    <2>6. BusyMeansARequest'
      BY <1>1, <2>3, <2>4, BusyStep DEF RouterInv, Showing
    <2>7. OffIsClosed' /\ UpdateIsQuiet' /\ SealedIsDead'
      BY <1>1, <1>2, Ordinary
    <2> QED BY <2>2, <2>3, <2>4, <2>5, <2>6, <2>7 DEF RouterInv
  <1>6. CASE SwitchFails(Top.account, FALSE,
                <<Show, [Frame("restore", Nobody) EXCEPT !.previous = profile]>>)
    BY <1>1, <1>3, <1>4, <1>6, SwitchFailedStep DEF MayReopen
  <1> QED BY <1>5, <1>6 DEF Open

LEMMA EnterStep ==
    ASSUME RouterInv, Enter
    PROVE  RouterInv'
  <1> DEFINE n == Len(stack) - 1
             Activation == [Frame("activate", Top.account) EXCEPT !.previous = profile]
  <1>1. /\ stack # <<>> /\ Top.what = "enter"
        /\ UNCHANGED <<app, keyring, session, auth, pending, confirmed>>
    BY DEF Enter, Runs
  <1>2. /\ app.on /\ ~app.update /\ ~app.sealed /\ Relies(Top)
    BY <1>1, Awake
  <1>3. /\ Top.account \in Profiles
        /\ KeepsFirst(Orphaned(Below), n) /\ Len(Orphaned(Below)) = n
        /\ \A i \in 1..n : stack[i].what \in OfMain => ~Orphaned(Below)[i].alive
        /\ n < Len(stack)
    BY <1>1, Begun
  <1>4. Top.account \in Accounts /\ store.mem.consent
    BY <1>1, <1>2 DEF Relies
  <1>5. CASE SwitchTo(Top.account, TRUE, <<Activation>>)
    <2>1. /\ profile' = Top.account /\ store' \in [disk : States, mem : States]
          /\ store'.disk \in {store.disk, Remembered(Top.account, TRUE)}
          /\ store'.mem \in {store.mem, Remembered(Top.account, TRUE)}
          /\ Top.account \in store'.disk.known \cap store'.mem.known
          /\ store'.mem.last = Top.account
          /\ stack' = Orphaned(Below) \o <<Activation>>
      BY <1>1, <1>3, <1>4, <1>5, SwitchStep
    <2>2. TokensAreKnown' /\ StoreIsStartable' /\ store'.mem.consent
      BY <1>1, <1>3, <1>4, <2>1, StoreStep
    <2>3. PICK x \in Frames : /\ x = Activation /\ x.what = "activate"
                              /\ x.account = Top.account /\ x.previous = profile
      <3>1. "activate" \in Whats /\ profile \in Profiles
        BY DEF Whats, Code, RouterInv, RouterTypeOK
      <3>2. /\ Activation \in Frames /\ Activation.what = "activate"
            /\ Activation.account = Top.account /\ Activation.previous = profile
        BY <1>3, <3>1, FrameFields
      <3> QED BY <3>2
    <2>4. Relies(x)'
      <3>1. MayReopen(x.previous)'
        BY <1>1, <2>3 DEF RouterInv, ProfileIsConfirmed, Leaving, MayReopen
      <3> QED BY <1>4, <2>1, <2>2, <2>3, <3>1 DEF Relies, OfMain
    <2>5. /\ stack' \in Seq(Frames) /\ KeepsFirst(stack', n)
          /\ stack' # <<>> /\ Top' = x /\ StackFits' /\ StackRelies'
      <3>1. x.what \notin {"settings", "restore"} \cup Questions
        BY <2>3 DEF Questions
      <3>2. stack' = Orphaned(Below) \o <<x>>
        BY <2>1, <2>3
      <3> QED BY <1>1, <1>3, <2>2, <2>4, <3>1, <3>2, PutFrame
    <2>6. RouterTypeOK' /\ ProfileIsConfirmed'
      BY <1>1, <1>3, <2>1, <2>3, <2>5 DEF RouterInv, RouterTypeOK, ProfileIsConfirmed, Leaving
    <2>7. BusyMeansARequest'
      BY <1>1, <2>5, <2>6, BusyStep DEF RouterInv, Showing
    <2>8. OffIsClosed' /\ UpdateIsQuiet' /\ SealedIsDead'
      BY <1>1, <1>2, Ordinary
    <2> QED BY <2>2, <2>5, <2>6, <2>7, <2>8 DEF RouterInv
  <1>6. CASE SwitchFails(Top.account, TRUE,
                <<Show, [Frame("restore", Nobody) EXCEPT !.previous = profile]>>)
    BY <1>1, <1>3, <1>4, <1>6, SwitchFailedStep
  <1> QED BY <1>5, <1>6 DEF Enter

LEMMA ActivateStep ==
    ASSUME RouterInv, Activate
    PROVE  RouterInv'
  <1> DEFINE n == Len(stack) - 1
  <1>1. /\ stack # <<>> /\ Top.what = "activate"
        /\ UNCHANGED <<app, profile, store, auth, pending>>
    BY DEF Activate, Runs
  <1>2. /\ app.on /\ ~app.update /\ ~app.sealed /\ Relies(Top)
    BY <1>1, Awake
  <1>3. /\ Top.account \in Profiles /\ Top.previous \in Profiles
        /\ KeepsFirst(Below, n) /\ Len(Below) = n /\ n < Len(stack)
    BY <1>1, Begun
  <1>4. /\ Top.account \in Accounts /\ store.mem.consent /\ MayReopen(Top.previous)
        /\ Top.account \in store.disk.known \cap store.mem.known
        /\ profile = Top.account /\ store.mem.last = Top.account
    BY <1>1, <1>2 DEF Relies
  <1>5. OffIsClosed' /\ UpdateIsQuiet' /\ SealedIsDead'
    BY <1>1, <1>2, Ordinary
  <1>6. /\ store'.mem.consent /\ profile' = profile /\ (app.sealed => app'.sealed)
        /\ \A i \in 1..n : stack[i].what \in {"enter", "choice"} => store'.mem.consent
    BY <1>1, <1>4
  <1>7. CASE /\ keyring' = keyring \cup {Top.account}
             /\ session' = [account |-> Top.account, live |-> TRUE]
             /\ confirmed' = confirmed \cup {Top.account}
             /\ stack' = Append(Below, Frame("signed", Top.account))
    <2>1. TokensAreKnown' /\ StoreIsStartable'
      BY <1>1, <1>4, <1>7 DEF RouterInv, TokensAreKnown, StoreIsStartable, Startable
    <2>2. PICK x \in Frames : /\ x = Frame("signed", Top.account) /\ x.what = "signed"
                              /\ x.account = Top.account
      <3>1. "signed" \in Whats /\ Nobody \in Profiles
        BY DEF Whats, Code, Profiles
      <3>2. /\ Frame("signed", Top.account) \in Frames
            /\ Frame("signed", Top.account).what = "signed"
            /\ Frame("signed", Top.account).account = Top.account
        BY <1>3, <3>1, NewFrame
      <3> QED BY <3>2
    <2>3. Relies(x)'
      BY <1>1, <1>4, <1>7, <2>2 DEF Relies, OfMain
    <2>4. /\ stack' \in Seq(Frames) /\ KeepsFirst(stack', n)
          /\ stack' # <<>> /\ Top' = x /\ StackFits' /\ StackRelies'
      <3>1. x.what \notin {"settings", "restore"} \cup Questions
        BY <2>2 DEF Questions
      <3>2. stack' = Below \o <<x>>
        BY <1>3, <1>7, <2>2, KeepsAndOne
      <3> QED BY <1>3, <1>6, <2>3, <3>1, <3>2, PutFrame
    <2>5. RouterTypeOK' /\ ProfileIsConfirmed'
      BY <1>1, <1>4, <1>7, <2>4 DEF RouterInv, RouterTypeOK, ProfileIsConfirmed
    <2>6. BusyMeansARequest'
      BY <1>1, <2>4, <2>5, BusyStep DEF RouterInv, Showing
    <2> QED BY <1>5, <2>1, <2>4, <2>5, <2>6 DEF RouterInv
  <1>8. CASE /\ keyring' \in {keyring, keyring \cup {Top.account}}
             /\ stack' = Below \o
                <<Show, [Frame("restore", Nobody) EXCEPT !.previous = Top.previous]>>
             /\ UNCHANGED <<session, confirmed>>
    <2>1. TokensAreKnown' /\ StoreIsStartable'
      BY <1>1, <1>4, <1>8 DEF RouterInv, TokensAreKnown, StoreIsStartable, Startable
    <2>2. PICK x \in Frames :
            /\ x = [Frame("restore", Nobody) EXCEPT !.previous = Top.previous]
            /\ x.what = "restore" /\ x.previous = Top.previous
      BY <1>3, BackFrame
    <2>3. Relies(x)'
      <3>1. MayReopen(x.previous)'
        BY <1>4, <1>8, <2>2 DEF MayReopen
      <3> QED BY <1>6, <2>2, <3>1 DEF Relies, OfMain
    <2>4. /\ stack' \in Seq(Frames) /\ KeepsFirst(stack', n) /\ Len(stack') = n + 2
          /\ stack' # <<>> /\ Top' = x /\ StackFits' /\ StackRelies'
      <3>1. /\ Show \in Frames /\ Show.what = "show" /\ Relies(Show)'
            /\ Show.what \notin {"settings"} \cup Finishing \cup Questions
        BY PlainFrames DEF Finishing, Questions
      <3>2. x.what \notin {"settings"} \cup Questions
        BY <2>2 DEF Questions
      <3>3. stack' = Below \o <<Show, x>>
        BY <1>8, <2>2
      <3> QED BY <1>3, <1>6, <2>3, <3>1, <3>2, <3>3, PutFrames
    <2>5. RouterTypeOK' /\ ProfileIsConfirmed'
      BY <1>1, <1>4, <1>8, <2>2, <2>4 DEF RouterInv, RouterTypeOK, ProfileIsConfirmed, Leaving
    <2>6. BusyMeansARequest'
      BY <1>1, <2>4, <2>5, BusyStep DEF RouterInv, Showing
    <2> QED BY <1>5, <2>1, <2>4, <2>5, <2>6 DEF RouterInv
  <1> QED BY <1>7, <1>8 DEF Activate

LEMMA SignedStep ==
    ASSUME RouterInv, Signed
    PROVE  RouterInv'
  <1> DEFINE n == Len(stack) - 1
             t == [store.mem EXCEPT !.out = FALSE]
  <1>1. /\ stack # <<>> /\ Top.what = "signed"
        /\ auth' = [auth EXCEPT !.visible = FALSE]
        /\ UNCHANGED <<app, profile, keyring, session, pending, confirmed>>
    BY DEF Signed, Runs
  <1>2. /\ app.on /\ ~app.update /\ ~app.sealed /\ Relies(Top)
    BY <1>1, Awake
  <1>3. KeepsFirst(Below, n) /\ Len(Below) = n /\ n < Len(stack)
    BY <1>1, Begun
  <1>4. /\ Top.account \in Accounts /\ store.mem.consent /\ Top.account \in confirmed
        /\ profile = Top.account /\ store.mem.last = Top.account
        /\ session.account = Top.account
    BY <1>1, <1>2 DEF Relies
  <1>5. OffIsClosed' /\ UpdateIsQuiet' /\ SealedIsDead'
    BY <1>1, <1>2, Ordinary
  <1>6. /\ t \in States /\ t.consent = store.mem.consent /\ t.last = store.mem.last
        /\ t.known = store.mem.known
    BY DEF RouterInv, RouterTypeOK, States
  <1>7. /\ store' \in [disk : States, mem : States]
        /\ store'.disk \in {store.disk, t} /\ store'.mem \in {store.mem, t}
        /\ stack' = Below \/ stack' = Append(Below, Notice)
    <2>1. Saves(t) \/ SaveFails(t)
      BY DEF Signed
    <2>2. stack' = Below \/ stack' = Append(Below, Notice)
      BY DEF Signed
    <2> QED BY <1>6, <2>1, <2>2, SavedFields DEF RouterInv
  <1>8. TokensAreKnown'
    BY <1>1, <1>6, <1>7 DEF RouterInv, TokensAreKnown
  <1>9. StoreIsStartable' /\ store'.mem.consent
    BY <1>1, <1>4, <1>6, <1>7 DEF RouterInv, StoreIsStartable, Startable
  <1>10. /\ profile' = profile /\ (app.sealed => app'.sealed)
         /\ \A i \in 1..n : stack[i].what \in {"enter", "choice"} => store'.mem.consent
    BY <1>1, <1>9
  <1>11. stack' \in Seq(Frames) /\ StackFits' /\ StackRelies'
    <2>1. CASE stack' = Below
      BY <1>3, <1>10, <2>1, PutNothing
    <2>2. CASE stack' = Append(Below, Notice)
      <3>1. /\ Notice \in Frames /\ Relies(Notice)'
            /\ Notice.what \notin {"settings", "restore"} \cup Questions
        BY PlainFrames DEF Questions
      <3>2. stack' = Below \o <<Notice>>
        BY <1>3, <2>2, <3>1, KeepsAndOne
      <3> QED BY <1>3, <1>10, <3>1, <3>2, PutFrame
    <2> QED BY <1>7, <2>1, <2>2
  <1>12. RouterTypeOK' /\ ProfileIsConfirmed' /\ BusyMeansARequest'
    BY <1>1, <1>4, <1>7, <1>11
    DEF RouterInv, RouterTypeOK, ProfileIsConfirmed, BusyMeansARequest
  <1> QED BY <1>5, <1>8, <1>9, <1>11, <1>12 DEF RouterInv

LEMMA RestoreStep ==
    ASSUME RouterInv, Restore
    PROVE  RouterInv'
  <1> DEFINE n == Len(stack) - 1
             p == Top.previous
             r == Frame("return", Nobody)
  <1>1. /\ stack # <<>> /\ Top.what = "restore"
        /\ UNCHANGED <<app, keyring, session, auth, pending, confirmed>>
    BY DEF Restore, Runs
  <1>2. /\ app.on /\ ~app.update /\ ~app.sealed /\ Relies(Top)
        /\ Fits(stack, Len(stack))
    BY <1>1, Awake
  <1>3. /\ Len(stack) \in Nat /\ p \in Profiles
        /\ KeepsFirst(Below, n) /\ Len(Below) = n
        /\ KeepsFirst(Orphaned(Below), n) /\ Len(Orphaned(Below)) = n
        /\ \A i \in 1..n : stack[i].what \in OfMain => ~Orphaned(Below)[i].alive
        /\ n < Len(stack)
    BY <1>1, Begun
  <1>4. MayReopen(p) /\ (p # Nobody => store.mem.consent)
    BY <1>1, <1>2 DEF Relies
  <1>5. OffIsClosed' /\ UpdateIsQuiet' /\ SealedIsDead'
    BY <1>1, <1>2, Ordinary
  <1>6. /\ r \in Frames /\ r.what = "return" /\ Relies(r)'
        /\ r.what \notin {"settings", "restore"} \cup Questions
    BY PlainFrames DEF Questions
  <1>7. app.sealed => app'.sealed
    BY <1>1
  <1>8. ASSUME p # Nobody, SwitchTo(p, FALSE, <<>>)
        PROVE  RouterInv'
    <2>1. /\ profile' = p /\ store' \in [disk : States, mem : States]
          /\ store'.disk \in {store.disk, Remembered(p, FALSE)}
          /\ store'.mem \in {store.mem, Remembered(p, FALSE)}
          /\ stack' = Orphaned(Below)
      BY <1>1, <1>3, <1>8, SwitchStep, KeepsAndNone
    <2>2. TokensAreKnown' /\ StoreIsStartable' /\ store'.mem.consent
      BY <1>1, <1>3, <1>4, <1>8, <2>1, StoreStep DEF MayReopen
    <2>3. /\ stack' \in Seq(Frames) /\ KeepsFirst(stack', n) /\ Len(stack') = n
          /\ StackFits' /\ StackRelies'
      BY <1>1, <1>3, <2>1, <2>2, PutNothing
    <2>4. RouterTypeOK' /\ ProfileIsConfirmed'
      BY <1>1, <1>3, <1>4, <2>1, <2>3
      DEF RouterInv, RouterTypeOK, ProfileIsConfirmed, MayReopen
    <2>5. BusyMeansARequest'
      <3>1. n \in 1..n /\ n > 0 /\ stack[n].what = "show"
        BY <1>1, <1>2, <1>3 DEF Fits, Top
      <3>2. n \in 1..Len(stack') /\ stack'[n].what \in Showing
        BY <2>3, <3>1 DEF KeepsFirst, Showing
      <3> QED BY <1>1, <2>3, <2>4, <3>2, BusyStep DEF RouterInv
    <2> QED BY <1>5, <2>2, <2>3, <2>4, <2>5 DEF RouterInv
  <1>9. ASSUME NEW s, KeepsFirst(s, n), Len(s) = n, stack' = s \o <<r>>,
               \/ profile' = profile /\ store' = store
               \/ /\ profile' = Nobody /\ store' \in [disk : States, mem : States]
                  /\ p # Nobody /\ TokensAreKnown' /\ StoreIsStartable'
                  /\ store'.mem.consent
                  /\ \A i \in 1..n : stack[i].what \in OfMain => ~s[i].alive
        PROVE  RouterInv'
    <2>1. TokensAreKnown' /\ StoreIsStartable'
      BY <1>1, <1>9 DEF RouterInv, TokensAreKnown, StoreIsStartable, Startable
    <2>2. \A i \in 1..n : stack[i].what \in {"enter", "choice"} => store'.mem.consent
      <3>1. \A i \in 1..n : stack[i].what \in {"enter", "choice"} => store.mem.consent
        BY <1>3 DEF RouterInv, StackRelies, Relies
      <3> QED BY <1>9, <3>1
    <2>3. /\ stack' \in Seq(Frames) /\ KeepsFirst(stack', n)
          /\ stack' # <<>> /\ Top' = r /\ StackFits' /\ StackRelies'
      BY <1>3, <1>6, <1>7, <1>9, <2>2, PutFrame
    <2>4. RouterTypeOK' /\ ProfileIsConfirmed'
      BY <1>1, <1>6, <1>9, <2>3
      DEF RouterInv, RouterTypeOK, ProfileIsConfirmed, Leaving, Profiles
    <2>5. BusyMeansARequest'
      <3>1. Len(stack') \in 1..Len(stack') /\ stack'[Len(stack')].what \in Showing
        BY <1>6, <2>3, CutStack DEF Top, Showing
      <3> QED BY <1>1, <2>3, <2>4, <3>1, BusyStep DEF RouterInv
    <2> QED BY <1>5, <2>1, <2>3, <2>4, <2>5 DEF RouterInv
  <1>10. ASSUME p # Nobody, SwitchFails(p, FALSE, <<r>>)
         PROVE  RouterInv'
    <2>1. /\ store' \in [disk : States, mem : States]
          /\ store'.disk \in {store.disk, Remembered(p, FALSE)}
          /\ store'.mem \in {store.mem, Remembered(p, FALSE)}
          /\ \/ stack' = Below \o <<r>> /\ profile' = profile /\ store' = store
             \/ stack' = Orphaned(Below) \o <<r>> /\ profile' = Nobody
      BY <1>3, <1>10, SwitchFailed
    <2>2. TokensAreKnown' /\ StoreIsStartable' /\ store'.mem.consent
      BY <1>1, <1>3, <1>4, <1>10, <2>1, StoreStep DEF MayReopen
    <2> QED BY <1>3, <1>9, <1>10, <2>1, <2>2
  <1>11. CASE p = Nobody
    <2>1. stack' = Below \o <<r>> /\ UNCHANGED <<profile, store>>
      BY <1>11 DEF Restore
    <2> QED BY <1>3, <1>9, <2>1
  <1>12. CASE p # Nobody
    <2>1. SwitchTo(p, FALSE, <<>>) \/ SwitchFails(p, FALSE, <<r>>)
      BY <1>12 DEF Restore
    <2> QED BY <1>8, <1>10, <1>12, <2>1
  <1> QED BY <1>11, <1>12

\* What show_auth does when no update is being installed.
LEMMA Shown ==
    ASSUME RouterTypeOK, ~app.update, ShowAuth
    PROVE  /\ auth' \in [visible : BOOLEAN, page : {"login", "signup", "verify"},
                         busy : BOOLEAN, resending : BOOLEAN]
           /\ ~auth'.busy
           /\ pending' \in [Requests -> [kind : {"none", "sign", "mail", "resend"},
                                         current : BOOLEAN]]
  BY ForgottenType DEF RouterTypeOK, ShowAuth

LEMMA ReturnStep ==
    ASSUME RouterInv, Return
    PROVE  RouterInv'
  <1> DEFINE n == Len(stack) - 1
             t == [store.mem EXCEPT !.out = TRUE]
  <1>1. /\ stack # <<>> /\ Top.what = "return" /\ profile' = Nobody
        /\ Saves(t) \/ SaveFails(t)
        /\ stack' = Orphaned(Below) /\ ShowAuth
        /\ UNCHANGED <<app, keyring, session, confirmed>>
    BY DEF Return, Runs
  <1>2. app.on /\ ~app.update /\ ~app.sealed
    BY <1>1, Awake
  <1>3. /\ KeepsFirst(Orphaned(Below), n) /\ Len(Orphaned(Below)) = n
        /\ \A i \in 1..n : stack[i].what \in OfMain => ~Orphaned(Below)[i].alive
        /\ n < Len(stack)
    BY <1>1, Begun
  <1>4. OffIsClosed' /\ UpdateIsQuiet' /\ SealedIsDead'
    BY <1>1, <1>2, Ordinary
  <1>5. /\ t \in States /\ t.consent = store.mem.consent /\ t.last = store.mem.last
        /\ t.known = store.mem.known /\ t.out
    BY DEF RouterInv, RouterTypeOK, States
  <1>6. /\ store' \in [disk : States, mem : States]
        /\ store'.disk \in {store.disk, t} /\ store'.mem \in {store.mem, t}
    BY <1>1, <1>5, SavedFields DEF RouterInv
  <1>7. TokensAreKnown'
    BY <1>1, <1>5, <1>6 DEF RouterInv, TokensAreKnown
  <1>8. StoreIsStartable' /\ store'.mem.consent = store.mem.consent
    BY <1>1, <1>5, <1>6 DEF RouterInv, StoreIsStartable, Startable
  <1>9. \A i \in 1..n : stack[i].what \in {"enter", "choice"} => store'.mem.consent
    BY <1>3, <1>8 DEF RouterInv, StackRelies, Relies, KeepsFirst
  <1>10. stack' \in Seq(Frames) /\ StackFits' /\ StackRelies'
    BY <1>1, <1>3, <1>9, PutNothing
  <1>11. RouterTypeOK'
    BY <1>1, <1>2, <1>6, <1>10, Shown DEF RouterInv, RouterTypeOK, Profiles
  <1>12. ProfileIsConfirmed' /\ BusyMeansARequest'
    BY <1>1, <1>2, Shown DEF RouterInv, ProfileIsConfirmed, BusyMeansARequest
  <1> QED BY <1>4, <1>7, <1>8, <1>10, <1>11, <1>12 DEF RouterInv

\* What leaves profile, state file, keyring and session alone.
LEMMA Elsewhere ==
    ASSUME RouterInv, UNCHANGED <<profile, store, keyring, session, confirmed>>
    PROVE  /\ TokensAreKnown' /\ StoreIsStartable'
           /\ (stack = <<>> \/ Top.what \notin Leaving) => ProfileIsConfirmed'
  BY DEF RouterInv, TokensAreKnown, StoreIsStartable, Startable, ProfileIsConfirmed

LEMMA ConsentKept ==
    ASSUME RouterInv, store' = store, NEW k \in Nat, k <= Len(stack)
    PROVE  \A i \in 1..k : stack[i].what \in {"enter", "choice"} => store'.mem.consent
  <1>1. Len(stack) \in Nat
    BY LenProperties DEF RouterInv, RouterTypeOK
  <1> QED BY <1>1 DEF RouterInv, StackRelies, Relies

LEMMA ShowLoginStep ==
    ASSUME RouterInv, ShowLogin
    PROVE  RouterInv'
  <1> DEFINE n == Len(stack) - 1
  <1>1. /\ stack # <<>> /\ Top.what = "show" /\ stack' = Below /\ ShowAuth
        /\ UNCHANGED <<app, profile, store, keyring, session, confirmed>>
    BY DEF ShowLogin, Runs
  <1>2. app.on /\ ~app.update /\ ~app.sealed
    BY <1>1, Awake
  <1>3. n \in Nat /\ KeepsFirst(Below, n) /\ Len(Below) = n /\ n < Len(stack)
    BY <1>1, Begun
  <1>4. OffIsClosed' /\ UpdateIsQuiet' /\ SealedIsDead'
    BY <1>1, <1>2, Ordinary
  <1>5. TokensAreKnown' /\ StoreIsStartable' /\ ProfileIsConfirmed'
    BY <1>1, Elsewhere DEF Leaving
  <1>6. stack' \in Seq(Frames) /\ StackFits' /\ StackRelies'
    BY <1>1, <1>3, ConsentKept, PutNothing
  <1>7. RouterTypeOK' /\ BusyMeansARequest'
    BY <1>1, <1>2, <1>6, Shown DEF RouterInv, RouterTypeOK, BusyMeansARequest
  <1> QED BY <1>4, <1>5, <1>6, <1>7 DEF RouterInv

LEMMA SealStep ==
    ASSUME RouterInv, Seal
    PROVE  RouterInv'
  <1> DEFINE n == Len(stack) - 1
  <1>1. /\ stack # <<>> /\ Top.what = "seal" /\ stack' = Below /\ pending' = Forgotten
        /\ auth' = [auth EXCEPT !.visible = TRUE, !.page = "login", !.busy = TRUE]
        /\ UNCHANGED <<app, profile, store, keyring, session, confirmed>>
    BY DEF Seal, Runs
  <1>2. app.on /\ ~app.update /\ app.sealed
    BY <1>1, Awake DEF Relies
  <1>3. n \in Nat /\ KeepsFirst(Below, n) /\ Len(Below) = n /\ n < Len(stack)
    BY <1>1, Begun
  <1>4. OffIsClosed' /\ UpdateIsQuiet'
    BY <1>1, <1>2 DEF OffIsClosed, UpdateIsQuiet
  <1>5. TokensAreKnown' /\ StoreIsStartable' /\ ProfileIsConfirmed'
    BY <1>1, Elsewhere DEF Leaving
  <1>6. /\ stack' \in Seq(Frames) /\ KeepsFirst(stack', n) /\ Len(stack') = n
        /\ StackFits' /\ StackRelies'
    BY <1>1, <1>3, ConsentKept, PutNothing
  <1>7. RouterTypeOK' /\ BusyMeansARequest'
    BY <1>1, <1>2, <1>6, ForgottenType DEF RouterInv, RouterTypeOK, BusyMeansARequest
  <1>8. SealedIsDead'
    <2>1. /\ profile' = Nobody /\ auth'.busy /\ auth'.page = "login"
      BY <1>1, <1>2 DEF RouterInv, RouterTypeOK, SealedIsDead
    <2>2. \A r \in Requests : ~pending'[r].current
      BY <1>1, ForgottenType DEF RouterInv
    <2>3. ASSUME NEW i \in 1..Len(stack')
          PROVE  /\ stack'[i].what \in {"settings", "seal", "notice"}
                 /\ stack'[i].what = "settings" => ~stack'[i].alive
      <3>1. i \in 1..Len(stack) /\ i \in 1..n
        BY <1>3, <1>6
      <3> QED BY <1>2, <1>6, <3>1 DEF RouterInv, SealedIsDead, KeepsFirst
    <2> QED BY <2>1, <2>2, <2>3 DEF SealedIsDead
  <1> QED BY <1>4, <1>5, <1>6, <1>7, <1>8 DEF RouterInv

LEMMA RunningStep ==
    ASSUME RouterInv, Running
    PROVE  RouterInv'
  BY OpenStep, EnterStep, ActivateStep, SignedStep, RestoreStep, ReturnStep, ShowLoginStep,
     SealStep DEF Running

-----------------------------------------------------------------------------
(* The login window.                                                       *)

\* With a form that is enabled, or a page that can be turned, nothing is
\* sealed: the login page of a sealed program stays disabled.
LEMMA SealedForm ==
    ASSUME RouterInv, stack = <<>>, app.sealed
    PROVE  auth.busy /\ auth.page = "login" /\ profile = Nobody
  <1>1. Len(stack) = 0
    BY EmptySeq
  <1> QED BY <1>1 DEF RouterInv, SealedIsDead

\* Steps that leave the stack, the profile, its files and its session alone.
LEMMA WindowStep ==
    ASSUME RouterInv, UNCHANGED <<app, profile, store, keyring, session, stack, confirmed>>
    PROVE  /\ StackFits' /\ StackRelies' /\ TokensAreKnown' /\ StoreIsStartable'
           /\ ProfileIsConfirmed'
           /\ stack' \in Seq(Frames) /\ KeepsFirst(stack', Len(stack))
  <1>1. StackFits' /\ StackRelies'
    BY StackStays DEF RouterInv
  <1>2. TokensAreKnown' /\ StoreIsStartable' /\ ProfileIsConfirmed'
    BY DEF RouterInv, TokensAreKnown, StoreIsStartable, Startable, ProfileIsConfirmed, Top
  <1>3. stack' \in Seq(Frames) /\ KeepsFirst(stack', Len(stack))
    BY KeepsAll DEF RouterInv, RouterTypeOK
  <1> QED BY <1>1, <1>2, <1>3

LEMMA SubmitStep ==
    ASSUME RouterInv, NEW r \in Requests, Submit(r)
    PROVE  RouterInv'
  <1>1. /\ app.on /\ stack = <<>> /\ ~auth.busy /\ ~app.update
        /\ UNCHANGED <<app, profile, store, keyring, session, stack, confirmed>>
        /\ auth' = [auth EXCEPT !.busy = TRUE]
        /\ \E kind \in {"sign", "mail"} :
             pending' = [pending EXCEPT ![r] = [kind |-> kind, current |-> TRUE]]
    BY DEF Submit, FormEnabled, MayUse
  <1>2. ~app.sealed
    BY <1>1, SealedForm
  <1>3. OffIsClosed' /\ UpdateIsQuiet' /\ SealedIsDead'
    BY <1>1, <1>2, Ordinary
  <1>4. /\ StackFits' /\ StackRelies' /\ TokensAreKnown' /\ StoreIsStartable'
        /\ ProfileIsConfirmed' /\ stack' \in Seq(Frames)
    BY <1>1, WindowStep
  <1>5. RouterTypeOK'
    <2>1. \A kind \in {"sign", "mail"} : [kind |-> kind, current |-> TRUE] \in
            [kind : {"none", "sign", "mail", "resend"}, current : BOOLEAN]
      OBVIOUS
    <2>2. pending' \in [Requests -> [kind : {"none", "sign", "mail", "resend"},
                                    current : BOOLEAN]]
      BY <1>1, <2>1 DEF RouterInv, RouterTypeOK
    <2> QED BY <1>1, <1>4, <2>2 DEF RouterInv, RouterTypeOK
  <1>6. BusyMeansARequest'
    BY <1>1 DEF RouterInv, RouterTypeOK, BusyMeansARequest
  <1> QED BY <1>3, <1>4, <1>5, <1>6 DEF RouterInv

LEMMA ResendStep ==
    ASSUME RouterInv, NEW r \in Requests, Resend(r)
    PROVE  RouterInv'
  <1>1. /\ app.on /\ stack = <<>> /\ auth.page = "verify" /\ ~app.update
        /\ pending[r] = NothingAsked
        /\ UNCHANGED <<app, profile, store, keyring, session, stack, confirmed>>
        /\ auth' = [auth EXCEPT !.resending = TRUE]
        /\ pending' = [pending EXCEPT ![r] = [kind |-> "resend", current |-> TRUE]]
    BY DEF Resend, MayUse
  <1>2. ~app.sealed
    BY <1>1, SealedForm
  <1>3. OffIsClosed' /\ UpdateIsQuiet' /\ SealedIsDead'
    BY <1>1, <1>2, Ordinary
  <1>4. /\ StackFits' /\ StackRelies' /\ TokensAreKnown' /\ StoreIsStartable'
        /\ ProfileIsConfirmed' /\ stack' \in Seq(Frames)
    BY <1>1, WindowStep
  <1>5. RouterTypeOK'
    <2>1. [kind |-> "resend", current |-> TRUE] \in
            [kind : {"none", "sign", "mail", "resend"}, current : BOOLEAN]
      OBVIOUS
    <2>2. pending' \in [Requests -> [kind : {"none", "sign", "mail", "resend"},
                                    current : BOOLEAN]]
      BY <1>1, <2>1 DEF RouterInv, RouterTypeOK
    <2> QED BY <1>1, <1>4, <2>2 DEF RouterInv, RouterTypeOK
  <1>6. BusyMeansARequest'
    <2>1. \A q \in Requests : pending[q].kind \in {"sign", "mail"} => pending'[q] = pending[q]
      BY <1>1 DEF RouterInv, RouterTypeOK, NothingAsked
    <2> QED BY <1>1, <2>1 DEF RouterInv, RouterTypeOK, BusyMeansARequest
  <1> QED BY <1>3, <1>4, <1>5, <1>6 DEF RouterInv

LEMMA TurnStep ==
    ASSUME RouterInv, Turn
    PROVE  RouterInv'
  <1>1. /\ app.on /\ stack = <<>> /\ ~app.sealed
        /\ UNCHANGED <<app, profile, store, keyring, session, stack, pending, confirmed>>
        /\ \E page \in {"login", "signup"} : auth' = [auth EXCEPT !.page = page]
    BY DEF Turn, MayUse
  <1>2. OffIsClosed' /\ UpdateIsQuiet' /\ SealedIsDead'
    BY <1>1 DEF RouterInv, OffIsClosed, UpdateIsQuiet, SealedIsDead
  <1>3. /\ StackFits' /\ StackRelies' /\ TokensAreKnown' /\ StoreIsStartable'
        /\ ProfileIsConfirmed' /\ stack' \in Seq(Frames)
    BY <1>1, WindowStep
  <1>4. RouterTypeOK' /\ BusyMeansARequest'
    BY <1>1, <1>3 DEF RouterInv, RouterTypeOK, BusyMeansARequest
  <1> QED BY <1>2, <1>3, <1>4 DEF RouterInv

LEMMA CloseAuthStep ==
    ASSUME RouterInv, CloseAuth
    PROVE  RouterInv'
  <1>1. /\ app.on /\ stack = <<>> /\ profile # Nobody
        /\ UNCHANGED <<app, profile, store, keyring, session, stack, confirmed>>
        /\ auth' = [auth EXCEPT !.visible = FALSE] /\ pending' = Forgotten
    BY DEF CloseAuth, MayUse
  <1>2. ~app.sealed
    BY <1>1, SealedForm
  <1>3. OffIsClosed' /\ SealedIsDead'
    BY <1>1, <1>2 DEF OffIsClosed, SealedIsDead
  <1>4. UpdateIsQuiet'
    BY <1>1, ForgottenType DEF RouterInv, UpdateIsQuiet
  <1>5. /\ StackFits' /\ StackRelies' /\ TokensAreKnown' /\ StoreIsStartable'
        /\ ProfileIsConfirmed' /\ stack' \in Seq(Frames)
    BY <1>1, WindowStep
  <1>6. RouterTypeOK' /\ BusyMeansARequest'
    BY <1>1, <1>5, ForgottenType DEF RouterInv, RouterTypeOK, BusyMeansARequest
  <1> QED BY <1>3, <1>4, <1>5, <1>6 DEF RouterInv

\* A window or a question goes, and nothing comes in its place.
LEMMA DropStep ==
    ASSUME RouterInv, stack # <<>>, stack' = Below, Top.what \notin Leaving \cup {"seal"},
           UNCHANGED <<app, profile, store, keyring, session, confirmed>>,
           \A r \in Requests : pending[r] = NothingAsked => pending'[r] = NothingAsked,
           \A r \in Requests : ~pending[r].current => ~pending'[r].current,
           app.sealed => auth' = auth
    PROVE  /\ OffIsClosed' /\ UpdateIsQuiet' /\ SealedIsDead' /\ StackFits' /\ StackRelies'
           /\ TokensAreKnown' /\ StoreIsStartable' /\ ProfileIsConfirmed'
           /\ stack' \in Seq(Frames) /\ KeepsFirst(stack', Len(stack) - 1)
  <1> DEFINE n == Len(stack) - 1
  <1>1. app.on
    BY Awake
  <1>2. /\ n \in Nat /\ Len(stack) \in Nat /\ n < Len(stack)
        /\ KeepsFirst(Below, n) /\ Len(Below) = n
    BY Begun
  <1>3. /\ stack' \in Seq(Frames) /\ KeepsFirst(stack', n) /\ Len(stack') = n
        /\ StackFits' /\ StackRelies'
    BY <1>2, ConsentKept, PutNothing
  <1>4. \A i \in 1..Len(stack') : /\ i \in 1..Len(stack)
                                  /\ stack'[i].what = stack[i].what
                                  /\ stack'[i].alive => stack[i].alive
    BY <1>2, <1>3 DEF KeepsFirst
  <1>5. OffIsClosed' /\ UpdateIsQuiet'
    BY <1>1, <1>4 DEF RouterInv, OffIsClosed, UpdateIsQuiet
  <1>6. ASSUME app'.sealed
        PROVE  /\ profile' = Nobody
               /\ \A r \in Requests : ~pending'[r].current
               /\ \A i \in 1..Len(stack') :
                    /\ stack'[i].what \in {"settings", "seal", "notice"}
                    /\ stack'[i].what = "settings" => ~stack'[i].alive
               /\ \/ \E i \in 1..Len(stack') : stack'[i].what = "seal"
                  \/ auth'.busy /\ auth'.page = "login"
    <2>1. app.sealed
      BY <1>6
    <2>2. /\ profile' = Nobody
          /\ \A r \in Requests : ~pending'[r].current
          /\ \A i \in 1..Len(stack') :
               /\ stack'[i].what \in {"settings", "seal", "notice"}
               /\ stack'[i].what = "settings" => ~stack'[i].alive
      BY <1>4, <2>1 DEF RouterInv, SealedIsDead
    <2>3. ASSUME NEW i \in 1..Len(stack), stack[i].what = "seal"
          PROVE  i \in 1..Len(stack') /\ stack'[i].what = "seal"
      <3>1. i # Len(stack)
        BY <2>3 DEF Top
      <3>2. i \in 1..n
        BY <1>2, <3>1
      <3> QED BY <1>2, <1>3, <2>3, <3>2 DEF KeepsFirst
    <2>4. \/ \E i \in 1..Len(stack) : stack[i].what = "seal"
          \/ auth.busy /\ auth.page = "login"
      BY <2>1 DEF RouterInv, SealedIsDead
    <2> QED BY <2>1, <2>2, <2>3, <2>4
  <1>7. SealedIsDead'
    BY <1>6 DEF SealedIsDead
  <1>8. TokensAreKnown' /\ StoreIsStartable' /\ ProfileIsConfirmed'
    BY Elsewhere
  <1> QED BY <1>3, <1>5, <1>7, <1>8

\* A question is asked, or the next step of a handler begins.
LEMMA PutStep ==
    ASSUME RouterInv, app.on, ~app.update, ~app.sealed,
           UNCHANGED <<app, profile, store, keyring, session, confirmed>>,
           NEW s, NEW k, KeepsFirst(s, k), Len(s) = k,
           NEW x \in Frames, stack' = s \o <<x>>,
           x.what \notin {"settings", "restore"} \cup Questions, Relies(x)',
           stack = <<>> \/ Top.what \notin Finishing \cup Leaving
    PROVE  /\ OffIsClosed' /\ UpdateIsQuiet' /\ SealedIsDead' /\ StackFits' /\ StackRelies'
           /\ TokensAreKnown' /\ StoreIsStartable' /\ ProfileIsConfirmed'
           /\ stack' \in Seq(Frames) /\ KeepsFirst(stack', k)
  <1>1. k \in Nat /\ k <= Len(stack)
    BY DEF KeepsFirst
  <1>2. /\ stack' \in Seq(Frames) /\ KeepsFirst(stack', k)
        /\ StackFits' /\ StackRelies'
    BY <1>1, ConsentKept, PutFrame
  <1>3. OffIsClosed' /\ UpdateIsQuiet' /\ SealedIsDead'
    BY Ordinary
  <1>4. TokensAreKnown' /\ StoreIsStartable' /\ ProfileIsConfirmed'
    BY Elsewhere
  <1> QED BY <1>2, <1>3, <1>4

\* The frame that follows the consent to a sign-in.
LEMMA Chooses ==
    ASSUME NEW s, NEW k, KeepsFirst(s, k), NEW a \in Accounts, Choose(s, a),
           store'.mem.consent
    PROVE  \E x \in Frames : /\ stack' = s \o <<x>> /\ x.what \in {"choice", "enter"}
                             /\ Relies(x)'
  <1>1. {"choice", "enter"} \subseteq Whats /\ a \in Profiles
    BY DEF Whats, Code, Profiles
  <1>2. PICK what \in {"choice", "enter"} : stack' = Append(s, Frame(what, a))
    BY DEF Choose
  <1>3. PICK x \in Frames : x = Frame(what, a) /\ x.what = what /\ x.account = a
    BY <1>1, NewFrame
  <1>4. Relies(x)'
    BY <1>3 DEF Relies, OfMain
  <1>5. stack' = s \o <<x>>
    BY <1>2, <1>3, PutOne DEF KeepsFirst
  <1> QED BY <1>3, <1>4, <1>5

LEMMA Proceeds ==
    ASSUME NEW s, NEW k, KeepsFirst(s, k), NEW a \in Accounts, Proceed(s, a),
           store' = store
    PROVE  \E x \in Frames : /\ stack' = s \o <<x>>
                             /\ x.what \in {"choice", "enter", "consent"}
                             /\ Relies(x)'
  <1>1. CASE store.mem.consent
    BY <1>1, Chooses DEF Proceed
  <1>2. CASE ~store.mem.consent
    <2>1. "consent" \in Whats /\ a \in Profiles
      BY DEF Whats, Code, Profiles
    <2>2. stack' = Append(s, Frame("consent", a))
      BY <1>2 DEF Proceed
    <2>3. PICK x \in Frames : x = Frame("consent", a) /\ x.what = "consent" /\ x.account = a
      BY <2>1, NewFrame
    <2>4. Relies(x)'
      BY <2>3 DEF Relies, OfMain
    <2>5. stack' = s \o <<x>>
      BY <2>2, <2>3, PutOne DEF KeepsFirst
    <2> QED BY <2>3, <2>4, <2>5
  <1> QED BY <1>1, <1>2

LEMMA CompleteStep ==
    ASSUME RouterInv, NEW r \in Requests, Complete(r)
    PROVE  RouterInv'
  <1>1. /\ Looping /\ pending[r] # NothingAsked
        /\ pending' = [pending EXCEPT ![r] = NothingAsked]
        /\ UNCHANGED <<app, profile, store, keyring, session, confirmed>>
    BY DEF Complete
  <1>2. /\ app.on /\ ~app.update /\ (stack = <<>> \/ Top.what \notin Finishing \cup Leaving)
    BY <1>1 DEF Looping, RouterInv, UpdateIsQuiet, Code, Finishing, Leaving
  <1>3. /\ pending' \in [Requests -> [kind : {"none", "sign", "mail", "resend"},
                                      current : BOOLEAN]]
        /\ ~pending'[r].current
        /\ \A q \in Requests : q # r => pending'[q] = pending[q]
    BY <1>1 DEF RouterInv, RouterTypeOK, NothingAsked
  <1>4. OffIsClosed' /\ UpdateIsQuiet'
    BY <1>1, <1>2 DEF OffIsClosed, UpdateIsQuiet
  <1>5. CASE stack' = stack
    <2>1. /\ StackFits' /\ StackRelies' /\ TokensAreKnown' /\ StoreIsStartable'
          /\ ProfileIsConfirmed' /\ stack' \in Seq(Frames)
      BY <1>1, <1>5, WindowStep
    <2>2. /\ auth' \in [visible : BOOLEAN, page : {"login", "signup", "verify"},
                        busy : BOOLEAN, resending : BOOLEAN]
          /\ ~pending[r].current => auth' = auth
      BY <1>5 DEF Complete, RouterInv, RouterTypeOK
    <2>3. RouterTypeOK'
      BY <1>1, <1>3, <2>1, <2>2 DEF RouterInv, RouterTypeOK
    <2>4. SealedIsDead'
      <3>1. app.sealed => ~pending[r].current /\ auth' = auth
        BY <2>2 DEF RouterInv, SealedIsDead
      <3> QED BY <1>1, <1>3, <1>5, <3>1 DEF RouterInv, SealedIsDead
    <2>5. BusyMeansARequest'
      <3>1. \/ ~auth'.busy
            \/ /\ auth'.busy = auth.busy /\ auth'.visible = auth.visible
               /\ ~pending[r].current \/ pending[r].kind = "resend"
        BY <1>1 DEF Complete, RouterInv, RouterTypeOK
      <3> QED BY <1>1, <1>3, <1>5, <3>1 DEF RouterInv, BusyMeansARequest
    <2> QED BY <1>4, <2>1, <2>3, <2>4, <2>5 DEF RouterInv
  <1>6. CASE stack' # stack
    <2>1. /\ pending[r].current /\ auth' = [auth EXCEPT !.busy = FALSE]
          /\ \E a \in Accounts : Proceed(stack, a)
      BY <1>6 DEF Complete
    <2>2. ~app.sealed
      BY <2>1 DEF RouterInv, SealedIsDead
    <2>3. KeepsFirst(stack, Len(stack))
      BY KeepsAll DEF RouterInv
    <2>4. PICK x \in Frames : /\ stack' = stack \o <<x>>
                              /\ x.what \in {"choice", "enter", "consent"}
                              /\ Relies(x)'
      BY <1>1, <2>1, <2>3, Proceeds
    <2>5. x.what \notin {"settings", "restore"} \cup Questions
      BY <2>4 DEF Questions
    <2>6. /\ OffIsClosed' /\ UpdateIsQuiet' /\ SealedIsDead' /\ StackFits' /\ StackRelies'
          /\ TokensAreKnown' /\ StoreIsStartable' /\ ProfileIsConfirmed'
          /\ stack' \in Seq(Frames)
      BY <1>1, <1>2, <2>2, <2>3, <2>4, <2>5, PutStep
    <2>7. RouterTypeOK' /\ BusyMeansARequest'
      BY <1>1, <1>3, <2>1, <2>6 DEF RouterInv, RouterTypeOK, BusyMeansARequest
    <2> QED BY <2>6, <2>7 DEF RouterInv
  <1> QED BY <1>5, <1>6

\* request_guest: the frame that opens the guest profile.
LEMMA GuestAgrees ==
    ASSUME NEW s, NEW k, KeepsFirst(s, k), GuestAgreed(s), store'.mem.consent
    PROVE  \E x \in Frames : stack' = s \o <<x>> /\ x.what = "open" /\ Relies(x)'
  <1>1. "open" \in Whats /\ Guest \in Profiles /\ Guest \notin Accounts
    BY DEF Whats, Code, Profiles, RouterAssumption
  <1>2. PICK x \in Frames : x = Frame("open", Guest) /\ x.what = "open" /\ x.account = Guest
    BY <1>1, NewFrame
  <1>3. Relies(x)'
    BY <1>1, <1>2 DEF Relies, OfMain, MayReopen
  <1>4. stack' = s \o <<x>>
    BY <1>2, PutOne DEF GuestAgreed, KeepsFirst
  <1> QED BY <1>2, <1>3, <1>4

LEMMA ContinueAsGuestStep ==
    ASSUME RouterInv, ContinueAsGuest
    PROVE  RouterInv'
  <1>1. /\ app.on /\ stack = <<>> /\ ~auth.busy /\ ~app.update
        /\ UNCHANGED <<app, profile, store, keyring, session, pending, confirmed>>
    BY DEF ContinueAsGuest, FormEnabled, MayUse
  <1>2. ~app.sealed
    BY <1>1, SealedForm
  <1>3. KeepsFirst(stack, Len(stack))
    BY KeepsAll DEF RouterInv
  <1>4. PICK x \in Frames : /\ stack' = stack \o <<x>> /\ x.what \in {"open", "consent"}
                            /\ Relies(x)'
    <2>1. CASE store.mem.consent
      BY <1>1, <1>3, <2>1, GuestAgrees DEF ContinueAsGuest
    <2>2. CASE ~store.mem.consent
      <3>1. "consent" \in Whats /\ Guest \in Profiles
        BY DEF Whats, Code, Profiles
      <3>2. PICK x \in Frames : /\ x = Frame("consent", Guest) /\ x.what = "consent"
                                /\ x.account = Guest
        BY <3>1, NewFrame
      <3>3. Relies(x)'
        BY <3>2 DEF Relies, OfMain
      <3>4. stack' = stack \o <<x>>
        BY <1>3, <2>2, <3>2, PutOne DEF ContinueAsGuest, KeepsFirst
      <3> QED BY <3>2, <3>3, <3>4
    <2> QED BY <2>1, <2>2
  <1>5. x.what \notin {"settings", "restore"} \cup Questions
    BY <1>4 DEF Questions
  <1>6. /\ OffIsClosed' /\ UpdateIsQuiet' /\ SealedIsDead' /\ StackFits' /\ StackRelies'
        /\ TokensAreKnown' /\ StoreIsStartable' /\ ProfileIsConfirmed'
        /\ stack' \in Seq(Frames)
    BY <1>1, <1>2, <1>3, <1>4, <1>5, PutStep
  <1>7. auth' \in [visible : BOOLEAN, page : {"login", "signup", "verify"},
                   busy : BOOLEAN, resending : BOOLEAN] /\ ~auth'.busy
    BY <1>1 DEF ContinueAsGuest, GuestAgreed, RouterInv, RouterTypeOK
  <1>8. RouterTypeOK' /\ BusyMeansARequest'
    BY <1>1, <1>6, <1>7 DEF RouterInv, RouterTypeOK, BusyMeansARequest
  <1> QED BY <1>6, <1>8 DEF RouterInv

\* A consent that was given is written, or not.
LEMMA ConsentStep ==
    ASSUME RouterInv, Consent
    PROVE  RouterInv'
  <1> DEFINE n == Len(stack) - 1
             t == [store.mem EXCEPT !.consent = TRUE]
  <1>1. /\ stack # <<>> /\ Top.what = "consent"
        /\ UNCHANGED <<app, profile, keyring, session, pending, confirmed>>
    BY DEF Consent, Waits, Runs
  <1>2. app.on /\ ~app.update /\ ~app.sealed /\ Relies(Top)
    BY <1>1, Awake
  <1>3. n \in Nat /\ KeepsFirst(Below, n) /\ Len(Below) = n /\ n < Len(stack)
    BY <1>1, Begun
  <1>4. Top.account \in Accounts \cup {Guest}
    BY <1>1, <1>2 DEF Relies
  <1>5. OffIsClosed' /\ UpdateIsQuiet' /\ SealedIsDead'
    BY <1>1, <1>2, Ordinary
  <1>6. /\ t \in States /\ t.consent /\ t.last = store.mem.last
        /\ t.known = store.mem.known /\ t.out = store.mem.out
    BY DEF RouterInv, RouterTypeOK, States
  <1>7. /\ store' \in [disk : States, mem : States]
        /\ store'.disk \in {store.disk, t} /\ store'.mem \in {store.mem, t}
        /\ Saves(t) => store'.mem.consent
    <2>1. Saves(t) => store'.mem.consent
      <3>1. Saves(t) => store'.mem = t
        BY DEF Saves
      <3> QED BY <1>6, <3>1
    <2>2. CASE store' = store
      BY <2>1, <2>2 DEF RouterInv, RouterTypeOK
    <2>3. CASE Saves(t) \/ SaveFails(t)
      BY <1>6, <2>1, <2>3, SavedFields DEF RouterInv
    <2> QED BY <2>2, <2>3 DEF Consent
  <1>8. TokensAreKnown' /\ StoreIsStartable'
    BY <1>1, <1>6, <1>7 DEF RouterInv, TokensAreKnown, StoreIsStartable, Startable
  <1>9. ProfileIsConfirmed'
    BY <1>1 DEF RouterInv, ProfileIsConfirmed, Leaving
  <1>10. \A i \in 1..n : stack[i].what \in {"enter", "choice"} => store'.mem.consent
    <2>1. \A i \in 1..n : stack[i].what \in {"enter", "choice"} => store.mem.consent
      BY <1>3 DEF RouterInv, StackRelies, Relies
    <2>2. store.mem.consent => store'.mem.consent
      BY <1>6, <1>7
    <2> QED BY <2>1, <2>2
  <1>11. profile' = profile /\ (app.sealed => app'.sealed)
    BY <1>1
  <1>12. CASE stack' = Below /\ UNCHANGED auth
    <2>1. /\ stack' \in Seq(Frames) /\ KeepsFirst(stack', n)
          /\ StackFits' /\ StackRelies'
      BY <1>3, <1>10, <1>11, <1>12, PutNothing
    <2>2. RouterTypeOK'
      BY <1>1, <1>7, <1>12, <2>1 DEF RouterInv, RouterTypeOK
    <2>3. BusyMeansARequest'
      BY <1>1, <1>12, <2>1, <2>2, BusyStep DEF RouterInv, Showing
    <2> QED BY <1>5, <1>8, <1>9, <2>1, <2>2, <2>3 DEF RouterInv
  <1>13. CASE /\ Saves(t)
              /\ IF Top.account = Guest THEN GuestAgreed(Below)
                 ELSE Choose(Below, Top.account) /\ UNCHANGED auth
    <2>1. PICK x \in Frames : /\ stack' = Below \o <<x>> /\ x.what \in {"open", "choice", "enter"}
                              /\ Relies(x)'
      <3>1. CASE Top.account = Guest
        BY <1>3, <1>7, <1>13, <3>1, GuestAgrees
      <3>2. CASE Top.account # Guest
        BY <1>3, <1>4, <1>7, <1>13, <3>2, Chooses
      <3> QED BY <3>1, <3>2
    <2>2. x.what \notin {"settings", "restore"} \cup Questions
      BY <2>1 DEF Questions
    <2>3. /\ stack' \in Seq(Frames) /\ KeepsFirst(stack', n)
          /\ StackFits' /\ StackRelies'
      BY <1>3, <1>10, <1>11, <2>1, <2>2, PutFrame
    <2>4. /\ auth' \in [visible : BOOLEAN, page : {"login", "signup", "verify"},
                        busy : BOOLEAN, resending : BOOLEAN]
          /\ auth'.visible /\ auth'.busy => auth.visible /\ auth.busy
      BY <1>13 DEF GuestAgreed, RouterInv, RouterTypeOK
    <2>5. RouterTypeOK'
      BY <1>1, <1>7, <2>3, <2>4 DEF RouterInv, RouterTypeOK
    <2>6. BusyMeansARequest'
      BY <1>1, <2>3, <2>4, <2>5, BusyStep DEF RouterInv, Showing
    <2> QED BY <1>5, <1>8, <1>9, <2>3, <2>5, <2>6 DEF RouterInv
  <1> QED BY <1>12, <1>13 DEF Consent

LEMMA ChoiceStep ==
    ASSUME RouterInv, Choice
    PROVE  RouterInv'
  <1> DEFINE n == Len(stack) - 1
             e == Frame("enter", Top.account)
  <1>1. /\ stack # <<>> /\ Top.what = "choice"
        /\ stack' \in {Below, Append(Below, e), Append(Below, Notice), Below \o <<e, Notice>>}
        /\ UNCHANGED <<app, profile, store, keyring, session, auth, pending, confirmed>>
    BY DEF Choice, Waits, Runs
  <1>2. app.on /\ ~app.update /\ ~app.sealed /\ Relies(Top)
    BY <1>1, Awake
  <1>3. /\ n \in Nat /\ KeepsFirst(Below, n) /\ Len(Below) = n /\ n < Len(stack)
        /\ Top.account \in Profiles
    BY <1>1, Begun
  <1>4. Top.account \in Accounts /\ store.mem.consent
    BY <1>1, <1>2 DEF Relies
  <1>5. PICK x \in Frames : x = e /\ x.what = "enter" /\ x.account = Top.account
    <2>1. "enter" \in Whats
      BY DEF Whats, Code
    <2> QED BY <1>3, <2>1, NewFrame
  <1>6. Relies(x)'
    BY <1>1, <1>4, <1>5 DEF Relies, OfMain
  <1>7. /\ x.what \notin {"settings"} \cup Finishing \cup Questions
        /\ x.what \notin {"settings", "restore"} \cup Questions
        /\ Notice \in Frames /\ Relies(Notice)'
        /\ Notice.what \notin {"settings"} \cup Questions /\ Notice.what # "restore"
        /\ Notice.what \notin {"settings", "restore"} \cup Questions
    BY <1>5, PlainFrames DEF Finishing, Questions
  <1>8. /\ profile' = profile /\ (app.sealed => app'.sealed)
        /\ \A i \in 1..n : stack[i].what \in {"enter", "choice"} => store'.mem.consent
    BY <1>1, <1>4
  <1>9. /\ stack' \in Seq(Frames) /\ KeepsFirst(stack', n)
        /\ StackFits' /\ StackRelies'
    <2>1. CASE stack' = Below
      BY <1>3, <1>8, <2>1, PutNothing
    <2>2. CASE stack' = Append(Below, e)
      <3>1. stack' = Below \o <<x>>
        BY <1>3, <1>5, <2>2, KeepsAndOne
      <3> QED BY <1>3, <1>6, <1>7, <1>8, <3>1, PutFrame
    <2>3. CASE stack' = Append(Below, Notice)
      <3>1. stack' = Below \o <<Notice>>
        BY <1>3, <1>7, <2>3, KeepsAndOne
      <3> QED BY <1>3, <1>7, <1>8, <3>1, PutFrame
    <2>4. CASE stack' = Below \o <<e, Notice>>
      <3>1. stack' = Below \o <<x, Notice>>
        BY <1>5, <2>4
      <3> QED BY <1>3, <1>6, <1>7, <1>8, <3>1, PutFrames
    <2> QED BY <1>1, <2>1, <2>2, <2>3, <2>4
  <1>10. OffIsClosed' /\ UpdateIsQuiet' /\ SealedIsDead'
    BY <1>1, <1>2, Ordinary
  <1>11. TokensAreKnown' /\ StoreIsStartable' /\ ProfileIsConfirmed'
    BY <1>1, Elsewhere DEF Leaving
  <1>12. RouterTypeOK'
    BY <1>1, <1>9 DEF RouterInv, RouterTypeOK
  <1>13. BusyMeansARequest'
    BY <1>1, <1>9, <1>12, BusyStep DEF RouterInv, Showing
  <1> QED BY <1>9, <1>10, <1>11, <1>12, <1>13 DEF RouterInv

-----------------------------------------------------------------------------
(* The settings window.                                                    *)

\* The frames of the settings window and of its questions.
LEMMA OfMainFrame ==
    ASSUME RouterInv, NEW what \in OfMain, NEW a \in Profiles, a = profile, profile' = profile
    PROVE  \E x \in Frames : /\ x = Frame(what, a) /\ x.what = what /\ x.account = a
                             /\ Relies(x)'
  <1>1. what \in Whats
    BY DEF Whats
  <1>2. PICK x \in Frames : /\ x = Frame(what, a) /\ x.what = what /\ x.account = a
    BY <1>1, NewFrame
  <1>3. Relies(x)'
    BY <1>2 DEF Relies, OfMain
  <1> QED BY <1>2, <1>3

LEMMA OpenSettingsStep ==
    ASSUME RouterInv, OpenSettings
    PROVE  RouterInv'
  <1>1. /\ app.on /\ stack = <<>> /\ profile # Nobody /\ ~app.update
        /\ stack' = <<Frame("settings", profile)>>
        /\ UNCHANGED <<app, profile, store, keyring, session, auth, pending, confirmed>>
    BY DEF OpenSettings, MayUse
  <1>2. ~app.sealed
    BY <1>1, SealedForm
  <1>3. KeepsFirst(stack, 0) /\ Len(stack) = 0
    BY <1>1, KeepsAll DEF RouterInv
  <1>4. PICK x \in Frames : /\ x = Frame("settings", profile) /\ x.what = "settings"
                            /\ Relies(x)'
    BY <1>1, OfMainFrame DEF OfMain, RouterInv, RouterTypeOK
  <1>5. stack' = stack \o <<x>>
    <2>1. <<x>> \in Seq(Frames)
      OBVIOUS
    <2> QED BY <1>1, <1>4, <2>1, ConcatEmptySeq
  <1>6. Fits(stack', 0 + 1)
    <2>1. stack'[1] = x
      BY <1>1, <1>4
    <2> QED BY <1>4, <2>1 DEF Fits, Finishing, Questions
  <1>7. stack' \in Seq(Frames) /\ StackFits' /\ StackRelies'
    BY <1>1, <1>3, <1>4, <1>5, <1>6, PutFitting
  <1>8. OffIsClosed' /\ UpdateIsQuiet' /\ SealedIsDead'
    BY <1>1, <1>2, Ordinary
  <1>9. TokensAreKnown' /\ StoreIsStartable' /\ ProfileIsConfirmed'
    BY <1>1, Elsewhere
  <1>10. RouterTypeOK'
    BY <1>1, <1>7 DEF RouterInv, RouterTypeOK
  <1>11. BusyMeansARequest'
    <2>1. DOMAIN stack = {}
      BY <1>1
    <2> QED BY <1>1, <2>1 DEF RouterInv, BusyMeansARequest
  <1> QED BY <1>7, <1>8, <1>9, <1>10, <1>11 DEF RouterInv

LEMMA DismissStep ==
    ASSUME RouterInv, Dismiss
    PROVE  RouterInv'
  <1>1. /\ stack # <<>> /\ Top.what \notin Code /\ stack' = Below
        /\ UNCHANGED <<app, profile, store, keyring, session, auth, pending, confirmed>>
    BY DEF Dismiss, Code
  <1>2. Top.what \notin Leaving \cup {"seal"} /\ Top.what \notin Showing
    BY <1>1 DEF Code, Leaving, Showing
  <1>3. /\ OffIsClosed' /\ UpdateIsQuiet' /\ SealedIsDead' /\ StackFits' /\ StackRelies'
        /\ TokensAreKnown' /\ StoreIsStartable' /\ ProfileIsConfirmed'
        /\ stack' \in Seq(Frames) /\ KeepsFirst(stack', Len(stack) - 1)
    BY <1>1, <1>2, DropStep
  <1>4. RouterTypeOK'
    BY <1>1, <1>3 DEF RouterInv, RouterTypeOK
  <1>5. BusyMeansARequest'
    BY <1>1, <1>2, <1>3, <1>4, BusyStep DEF RouterInv
  <1> QED BY <1>3, <1>4, <1>5 DEF RouterInv

LEMMA LoginStep ==
    ASSUME RouterInv, Login
    PROVE  RouterInv'
  <1>1. /\ stack # <<>> /\ Top.what = "settings" /\ Top.alive /\ stack' = Below /\ ShowAuth
        /\ UNCHANGED <<app, profile, store, keyring, session, confirmed>>
    BY DEF Login, Waits, Runs
  <1>2. ~app.sealed
    BY <1>1, Awake
  <1>3. /\ \A r \in Requests : pending[r] = NothingAsked => pending'[r] = NothingAsked
        /\ \A r \in Requests : ~pending[r].current => ~pending'[r].current
    BY <1>1, ForgottenType DEF ShowAuth, RouterInv
  <1>4. /\ OffIsClosed' /\ UpdateIsQuiet' /\ SealedIsDead' /\ StackFits' /\ StackRelies'
        /\ TokensAreKnown' /\ StoreIsStartable' /\ ProfileIsConfirmed'
        /\ stack' \in Seq(Frames) /\ KeepsFirst(stack', Len(stack) - 1)
    BY <1>1, <1>2, <1>3, DropStep DEF Leaving
  <1>5. CASE app.update
    <2>1. UNCHANGED <<auth, pending>>
      BY <1>1, <1>5 DEF ShowAuth
    <2>2. RouterTypeOK'
      BY <1>1, <1>4, <2>1 DEF RouterInv, RouterTypeOK
    <2>3. BusyMeansARequest'
      BY <1>1, <1>4, <2>1, <2>2, BusyStep DEF RouterInv, Showing
    <2> QED BY <1>4, <2>2, <2>3 DEF RouterInv
  <1>6. CASE ~app.update
    <2>1. RouterTypeOK' /\ BusyMeansARequest'
      BY <1>1, <1>4, <1>6, Shown DEF RouterInv, RouterTypeOK, BusyMeansARequest
    <2> QED BY <1>4, <2>1 DEF RouterInv
  <1> QED BY <1>5, <1>6

\* A question over the settings window.
LEMMA AskStep ==
    ASSUME RouterInv, Waits("settings"), NEW what \in Questions,
           app.update => what = "reset",
           stack' = Append(stack, Frame(what, Top.account)),
           UNCHANGED <<app, profile, store, keyring, session, auth, pending, confirmed>>
    PROVE  RouterInv'
  <1>1. stack # <<>> /\ Top.what = "settings" /\ Top.alive
    BY DEF Waits, Runs
  <1>2. app.on /\ ~app.sealed /\ Fits(stack, Len(stack)) /\ Relies(Top)
    BY <1>1, Awake
  <1>3. Len(stack) = 1 /\ stack[1] = Top
    BY <1>1, <1>2 DEF Fits, Top
  <1>4. KeepsFirst(stack, Len(stack))
    BY KeepsAll DEF RouterInv
  <1>5. Top.account = profile /\ Top.account \in Profiles
    BY <1>1, <1>2, Begun DEF Relies, OfMain
  <1>6. PICK x \in Frames : x = Frame(what, Top.account) /\ x.what = what /\ Relies(x)'
    BY <1>5, OfMainFrame DEF OfMain, Questions
  <1>7. stack' = stack \o <<x>> /\ Len(stack') = 2 /\ stack'[2] = x /\ stack'[1] = stack[1]
    <2>1. stack \in Seq(Frames)
      BY DEF RouterInv, RouterTypeOK
    <2>2. stack' = stack \o <<x>>
      BY <1>6, <2>1, PutOne
    <2>3. 1 \in 1..Len(stack)
      BY <1>3
    <2>4. /\ Len(stack') = Len(stack) + 1 /\ stack'[Len(stack) + 1] = x
          /\ \A i \in 1..Len(stack) : stack'[i] = stack[i]
      BY <2>1, <2>2, PutOne
    <2> QED BY <1>3, <2>2, <2>3, <2>4
  <1>8. Fits(stack', 1 + 1)
    BY <1>1, <1>3, <1>6, <1>7 DEF Fits, Finishing, Questions
  <1>9. /\ stack' \in Seq(Frames) /\ KeepsFirst(stack', Len(stack))
        /\ StackFits' /\ StackRelies'
    <2>1. /\ stack = <<>> \/ Top.what \notin Finishing
          /\ \A i \in 1..1 : stack[i].what \in {"enter", "choice"} => store'.mem.consent
      BY <1>1, <1>3 DEF Finishing
    <2> QED BY <1>3, <1>4, <1>6, <1>7, <1>8, <2>1, PutFitting
  <1>10. OffIsClosed' /\ SealedIsDead'
    BY <1>2 DEF OffIsClosed, SealedIsDead
  <1>11. UpdateIsQuiet'
    <2>1. ASSUME app.update, NEW i \in 1..Len(stack')
          PROVE  stack'[i].what \in {"settings", "reset"}
      <3>1. i = 1 \/ i = 2
        BY <1>7
      <3> QED BY <1>1, <1>3, <1>6, <1>7, <2>1, <3>1
    <2> QED BY <2>1 DEF RouterInv, UpdateIsQuiet
  <1>12. TokensAreKnown' /\ StoreIsStartable' /\ ProfileIsConfirmed'
    BY <1>1, Elsewhere DEF Leaving
  <1>13. RouterTypeOK'
    BY <1>9 DEF RouterInv, RouterTypeOK
  <1>14. BusyMeansARequest'
    BY <1>9, <1>13, BusyStep DEF RouterInv
  <1> QED BY <1>9, <1>10, <1>11, <1>12, <1>13, <1>14 DEF RouterInv

\* What the end of a session leaves.
LEMMA EndedSession ==
    ASSUME RouterTypeOK, NEW a
    PROVE  /\ Ended(a) \in {NoSession, session}
           /\ Ended(a) \in [account : Accounts \cup {Nobody}, live : BOOLEAN]
           /\ Ended(a).account \in {session.account, Nobody}
  BY DEF RouterTypeOK, Ended, NoSession

\* A session that ends, and tokens that go, are missed by nobody.
LEMMA SessionEnds ==
    ASSUME RouterInv, keyring' \subseteq keyring, stack # <<>>, Top.what \notin Leaving,
           session'.account \in {session.account, Nobody},
           UNCHANGED <<profile, store, confirmed>>
    PROVE  TokensAreKnown' /\ StoreIsStartable' /\ ProfileIsConfirmed'
  BY DEF RouterInv, TokensAreKnown, StoreIsStartable, Startable, ProfileIsConfirmed

LEMMA LogoutStep ==
    ASSUME RouterInv, Logout
    PROVE  RouterInv'
  <1> DEFINE n == Len(stack) - 1
             r == Frame("return", Nobody)
  <1>1. /\ stack # <<>> /\ Top.what = "settings" /\ Top.alive /\ ~app.update
        /\ UNCHANGED <<app, profile, store, auth, pending, confirmed>>
        /\ session' \in {session, Ended(profile)} /\ keyring' \subseteq keyring
        /\ stack' = Append(Below, r) \/ stack' = Append(stack, Notice)
    BY DEF Logout, Waits, Runs
  <1>2. app.on /\ ~app.sealed
    BY <1>1, Awake
  <1>3. /\ n \in Nat /\ KeepsFirst(Below, n) /\ Len(Below) = n /\ n < Len(stack)
        /\ KeepsFirst(stack, Len(stack))
    BY <1>1, Begun, KeepsAll DEF RouterInv
  <1>4. /\ session' \in [account : Accounts \cup {Nobody}, live : BOOLEAN]
        /\ session'.account \in {session.account, Nobody}
    BY <1>1, EndedSession DEF RouterInv, RouterTypeOK
  <1>5. TokensAreKnown' /\ StoreIsStartable' /\ ProfileIsConfirmed'
    BY <1>1, <1>4, SessionEnds DEF Leaving
  <1>6. OffIsClosed' /\ UpdateIsQuiet' /\ SealedIsDead'
    BY <1>1, <1>2, Ordinary
  <1>7. /\ profile' = profile /\ (app.sealed => app'.sealed) /\ store' = store
        /\ Top.what \notin Finishing
    BY <1>1 DEF Finishing
  <1>8. \E k \in {n, Len(stack)} : /\ stack' \in Seq(Frames) /\ KeepsFirst(stack', k)
                                   /\ StackFits' /\ StackRelies'
    <2>1. CASE stack' = Append(Below, r)
      <3>1. /\ r \in Frames /\ Relies(r)' /\ r.what \notin {"settings", "restore"} \cup Questions
        BY PlainFrames DEF Questions
      <3>2. stack' = Below \o <<r>>
        BY <1>3, <2>1, <3>1, KeepsAndOne
      <3>3. \A i \in 1..n : stack[i].what \in {"enter", "choice"} => store'.mem.consent
        BY <1>3, <1>7, ConsentKept
      <3> QED BY <1>3, <1>7, <3>1, <3>2, <3>3, PutFrame
    <2>2. CASE stack' = Append(stack, Notice)
      <3>1. /\ Notice \in Frames /\ Relies(Notice)'
            /\ Notice.what \notin {"settings", "restore"} \cup Questions
        BY PlainFrames DEF Questions
      <3>2. stack' = stack \o <<Notice>>
        BY <1>3, <2>2, <3>1, KeepsAndOne
      <3>3. \A i \in 1..Len(stack) : stack[i].what \in {"enter", "choice"} => store'.mem.consent
        BY <1>3, <1>7, ConsentKept
      <3> QED BY <1>3, <1>7, <3>1, <3>2, <3>3, PutFrame
    <2> QED BY <1>1, <2>1, <2>2
  <1>9. RouterTypeOK'
    BY <1>1, <1>4, <1>8 DEF RouterInv, RouterTypeOK
  <1>10. BusyMeansARequest'
    BY <1>1, <1>8, <1>9, BusyStep DEF RouterInv, Showing
  <1> QED BY <1>5, <1>6, <1>8, <1>9, <1>10 DEF RouterInv

\* The answer to a question that ends the session everywhere: then is what is
\* put in the place of question and settings window.
LEMMA EndEverywhereStep ==
    ASSUME RouterInv, Waits("everywhere") \/ Waits("delete"),
           NEW then \in {<<Notice, Frame("return", Nobody)>>, <<Frame("return", Nobody), Notice>>},
           EndEverywhere(then),
           UNCHANGED <<app, profile, store, auth, pending, confirmed>>
    PROVE  RouterInv'
  <1> DEFINE n == Len(stack) - 1
             r == Frame("return", Nobody)
  <1>1. /\ stack # <<>> /\ Top.what \in {"everywhere", "delete"}
        /\ session' \in {session, NoSession} /\ keyring' \subseteq keyring
        /\ \/ stack' \in {Below, Append(Below, Notice)}
           \/ stack' = UnderSettings \o then
    BY DEF Waits, Runs, EndEverywhere
  <1>2. app.on /\ ~app.update /\ ~app.sealed /\ Fits(stack, Len(stack))
    BY <1>1, Awake
  <1>3. Len(stack) = 2
    BY <1>1, <1>2 DEF Fits, Questions, Top
  <1>4. /\ n = 1 /\ KeepsFirst(Below, 1) /\ Len(Below) = 1
        /\ KeepsFirst(UnderSettings, 0) /\ Len(UnderSettings) = 0
    <2>1. KeepsFirst(Below, 1) /\ Len(Below) = 1
      BY <1>1, <1>3, Begun
    <2>2. stack \in Seq(Frames)
      BY DEF RouterInv, RouterTypeOK
    <2>3. UnderSettings \in Seq(Frames) /\ Len(UnderSettings) = 0
      BY <1>3, <2>2, PrefixOfStack DEF UnderSettings
    <2>4. KeepsFirst(UnderSettings, 0)
      BY <1>3, <2>3 DEF KeepsFirst
    <2> QED BY <1>3, <2>1, <2>3, <2>4
  <1>5. /\ session' \in [account : Accounts \cup {Nobody}, live : BOOLEAN]
        /\ session'.account \in {session.account, Nobody}
    <2>1. /\ NoSession \in [account : Accounts \cup {Nobody}, live : BOOLEAN]
          /\ NoSession.account = Nobody
      BY DEF NoSession
    <2>2. session \in [account : Accounts \cup {Nobody}, live : BOOLEAN]
      BY DEF RouterInv, RouterTypeOK
    <2> QED BY <1>1, <2>1, <2>2
  <1>6. TokensAreKnown' /\ StoreIsStartable' /\ ProfileIsConfirmed'
    BY <1>1, <1>5, SessionEnds DEF Leaving
  <1>7. OffIsClosed' /\ UpdateIsQuiet' /\ SealedIsDead'
    BY <1>1, <1>2, Ordinary
  <1>8. /\ profile' = profile /\ (app.sealed => app'.sealed) /\ store' = store
        /\ \A i \in 1..1 : stack[i].what \in {"enter", "choice"} => store'.mem.consent
        /\ \A i \in 1..0 : stack[i].what \in {"enter", "choice"} => store'.mem.consent
    BY <1>3, ConsentKept
  <1>9. /\ r \in Frames /\ Relies(r)' /\ r.what = "return"
        /\ r.what \notin {"settings"} \cup Finishing \cup Questions
        /\ Notice \in Frames /\ Relies(Notice)' /\ Notice.what = "notice"
        /\ Notice.what \notin {"settings"} \cup Finishing \cup Questions
        /\ Notice.what \notin {"settings", "restore"} \cup Questions
    BY PlainFrames DEF Questions, Finishing
  <1>10. /\ stack' \in Seq(Frames) /\ StackFits' /\ StackRelies'
         /\ \/ KeepsFirst(stack', 1)
            \/ /\ KeepsFirst(stack', 0)
               /\ \E i \in 1..Len(stack') : stack'[i].what \in Showing
    <2>1. CASE stack' = Below
      <3>1. 1 < Len(stack)
        BY <1>3
      <3> QED BY <1>4, <1>8, <2>1, <3>1, PutNothing
    <2>2. CASE stack' = Append(Below, Notice)
      <3>1. stack' = Below \o <<Notice>>
        BY <1>4, <1>9, <2>2, KeepsAndOne
      <3> QED BY <1>3, <1>4, <1>8, <1>9, <3>1, PutFrame
    <2>3. CASE stack' = UnderSettings \o <<Notice, r>>
      <3>1. /\ stack' \in Seq(Frames) /\ KeepsFirst(stack', 0) /\ Len(stack') = 0 + 2
            /\ Top' = r /\ StackFits' /\ StackRelies'
        BY <1>3, <1>4, <1>8, <1>9, <2>3, PutFrames
      <3>2. stack'[2] = r /\ 2 \in 1..Len(stack')
        BY <3>1 DEF Top
      <3> QED BY <1>9, <3>1, <3>2 DEF Showing
    <2>4. CASE stack' = UnderSettings \o <<r, Notice>>
      <3>1. /\ stack' \in Seq(Frames) /\ KeepsFirst(stack', 0) /\ Len(stack') = 0 + 2
            /\ stack'[0 + 1] = r /\ StackFits' /\ StackRelies'
        BY <1>3, <1>4, <1>8, <1>9, <2>4, PutFrames
      <3>2. stack'[1] = r /\ 1 \in 1..Len(stack')
        BY <3>1
      <3> QED BY <1>9, <3>1, <3>2 DEF Showing
    <2> QED BY <1>1, <2>1, <2>2, <2>3, <2>4
  <1>11. RouterTypeOK'
    BY <1>1, <1>5, <1>10 DEF RouterInv, RouterTypeOK
  <1>12. BusyMeansARequest'
    BY <1>1, <1>3, <1>10, <1>11, BusyStep DEF RouterInv, Showing
  <1> QED BY <1>6, <1>7, <1>10, <1>11, <1>12 DEF RouterInv

-----------------------------------------------------------------------------
(* Resets, the start and the end of the program, updates.                  *)

\* What a question about a reset stands on.
LEMMA ResetStands ==
    ASSUME RouterInv, Waits("reset")
    PROVE  /\ stack # <<>> /\ Top.what = "reset" /\ Len(stack) = 2 /\ app.on /\ ~app.sealed
           /\ KeepsFirst(Below, 1) /\ Len(Below) = 1
           /\ KeepsFirst(Orphaned(Below), 1) /\ Len(Orphaned(Below)) = 1
           /\ stack[1].what = "settings" /\ ~Orphaned(Below)[1].alive
  <1>1. stack # <<>> /\ Top.what = "reset"
    BY DEF Waits, Runs
  <1>2. app.on /\ ~app.sealed /\ Fits(stack, Len(stack))
    BY <1>1, Awake
  <1>3. Len(stack) = 2 /\ stack[1].what = "settings"
    BY <1>1, <1>2 DEF Fits, Questions, Top
  <1>4. /\ KeepsFirst(Below, 1) /\ Len(Below) = 1
        /\ KeepsFirst(Orphaned(Below), 1) /\ Len(Orphaned(Below)) = 1
        /\ \A i \in 1..1 : stack[i].what \in OfMain => ~Orphaned(Below)[i].alive
    BY <1>1, <1>3, Begun
  <1>5. ~Orphaned(Below)[1].alive
    BY <1>3, <1>4 DEF OfMain
  <1> QED BY <1>1, <1>2, <1>3, <1>4, <1>5

LEMMA ResetHeldStep ==
    ASSUME RouterInv, ResetHeld
    PROVE  RouterInv'
  <1>1. /\ Waits("reset") /\ ~app.update
        /\ UNCHANGED <<app, store, keyring, session, auth, pending, confirmed>>
        /\ \/ stack' = Append(Below, Notice) /\ profile' = profile
           \/ stack' = Append(Orphaned(Below), Notice) /\ profile' = Nobody
    BY DEF ResetHeld
  <1>2. /\ stack # <<>> /\ Top.what = "reset" /\ Len(stack) = 2 /\ app.on /\ ~app.sealed
        /\ KeepsFirst(Below, 1) /\ Len(Below) = 1
        /\ KeepsFirst(Orphaned(Below), 1) /\ Len(Orphaned(Below)) = 1
        /\ stack[1].what = "settings" /\ ~Orphaned(Below)[1].alive
    BY <1>1, ResetStands
  <1>3. /\ Notice \in Frames /\ Relies(Notice)'
        /\ Notice.what \notin {"settings", "restore"} \cup Questions
    BY PlainFrames DEF Questions
  <1>4. PICK s : /\ KeepsFirst(s, 1) /\ Len(s) = 1 /\ stack' = s \o <<Notice>>
                 /\ profile' = profile \/ (~s[1].alive /\ profile' = Nobody)
    BY <1>1, <1>2, <1>3, KeepsAndOne
  <1>5. /\ stack' \in Seq(Frames) /\ KeepsFirst(stack', 1)
        /\ StackFits' /\ StackRelies'
    <2>1. /\ 1 < Len(stack) /\ (app.sealed => app'.sealed)
          /\ \A i \in 1..1 : stack[i].what \in {"enter", "choice"} => store'.mem.consent
          /\ profile' = profile \/ \A i \in 1..1 : stack[i].what \in OfMain => ~s[i].alive
      BY <1>1, <1>2, <1>4
    <2> QED BY <1>3, <1>4, <2>1, PutFrame
  <1>6. OffIsClosed' /\ UpdateIsQuiet' /\ SealedIsDead'
    BY <1>1, <1>2, Ordinary
  <1>7. TokensAreKnown' /\ StoreIsStartable' /\ ProfileIsConfirmed'
    BY <1>1, <1>2, <1>4
    DEF RouterInv, TokensAreKnown, StoreIsStartable, Startable, ProfileIsConfirmed, Leaving,
        RouterAssumption
  <1>8. RouterTypeOK'
    BY <1>1, <1>4, <1>5 DEF RouterInv, RouterTypeOK, Profiles
  <1>9. BusyMeansARequest'
    BY <1>1, <1>2, <1>5, <1>8, BusyStep DEF RouterInv, Showing
  <1> QED BY <1>5, <1>6, <1>7, <1>8, <1>9 DEF RouterInv

\* Two frames are put on the settings window.
LEMMA PutOnSettings ==
    ASSUME RouterInv, NEW k, k = 1, NEW s, KeepsFirst(s, k), Len(s) = k,
           NEW x \in Frames, NEW y \in Frames, stack' = s \o <<x, y>>,
           x.what \in {"show", "seal"}, Relies(x)', y.what = "notice", Relies(y)',
           k < Len(stack), stack[1].what = "settings", ~s[1].alive,
           app.sealed => app'.sealed
    PROVE  /\ stack' \in Seq(Frames) /\ KeepsFirst(stack', k) /\ Len(stack') = k + 2
           /\ stack'[k + 1] = x /\ Top' = y /\ StackFits' /\ StackRelies'
  <1>1. /\ x.what \notin {"settings"} \cup Finishing \cup Questions
        /\ y.what \notin {"settings"} \cup Questions
        /\ y.what = "restore" => x.what = "show"
    BY DEF Finishing, Questions
  <1>2. \A i \in 1..k : stack[i].what \in {"enter", "choice"} => store'.mem.consent
    OBVIOUS
  <1>3. \A i \in 1..k : stack[i].what \in OfMain => ~s[i].alive
    OBVIOUS
  <1>4. k < Len(stack) \/ stack = <<>> \/ Top.what \notin Finishing
    OBVIOUS
  <1>5. profile' = profile \/ \A i \in 1..k : stack[i].what \in OfMain => ~s[i].alive
    BY <1>3
  <1> QED BY <1>1, <1>2, <1>4, <1>5, PutFrames

\* A reset closed the profile: frames are put on what is left.
LEMMA ResetClosedStep ==
    ASSUME RouterInv, ResetClosed,
           NEW x \in Frames, stack' = Orphaned(Below) \o <<x, Notice>>,
           app'.on, ~app'.update, x.what \in {"show", "seal"}, x.what = "seal" <=> app'.sealed,
           app' \in [on : BOOLEAN, online : BOOLEAN, update : BOOLEAN, sealed : BOOLEAN],
           TokensAreKnown', StoreIsStartable', store' \in [disk : States, mem : States],
           keyring' \subseteq Accounts
    PROVE  RouterInv'
  <1>1. /\ Waits("reset") /\ profile' = Nobody /\ pending' = Forgotten
        /\ session' = Ended(profile) /\ UNCHANGED <<auth, confirmed>>
    BY DEF ResetClosed
  <1>2. /\ Len(stack) = 2 /\ ~app.sealed
        /\ KeepsFirst(Orphaned(Below), 1) /\ Len(Orphaned(Below)) = 1
        /\ stack[1].what = "settings" /\ ~Orphaned(Below)[1].alive
    BY <1>1, ResetStands
  <1>3. Relies(x)'
    BY DEF Relies, OfMain
  <1>4. /\ Notice \in Frames /\ Relies(Notice)' /\ Notice.what = "notice"
        /\ Notice.what \notin {"settings"} \cup Questions
        /\ x.what \notin {"settings"} \cup Finishing \cup Questions
    BY PlainFrames DEF Questions, Finishing
  <1>5. /\ stack' \in Seq(Frames) /\ KeepsFirst(stack', 1) /\ Len(stack') = 1 + 2
        /\ stack'[1 + 1] = x /\ Top' = Notice /\ StackFits' /\ StackRelies'
    <2>1. PICK k : k = 1
      OBVIOUS
    <2>2. KeepsFirst(Orphaned(Below), k) /\ Len(Orphaned(Below)) = k
      BY <1>2, <2>1
    <2>3. /\ k < Len(stack) /\ stack[1].what = "settings" /\ ~Orphaned(Below)[1].alive
          /\ (app.sealed => app'.sealed)
      BY <1>2, <2>1
    <2>4. /\ stack' \in Seq(Frames) /\ KeepsFirst(stack', k) /\ Len(stack') = k + 2
          /\ stack'[k + 1] = x /\ Top' = Notice /\ StackFits' /\ StackRelies'
      BY <1>3, <1>4, <2>1, <2>2, <2>3, PutOnSettings
    <2> QED BY <2>1, <2>4
  <1>6. stack'[1] = Orphaned(Below)[1]
    <2>1. Orphaned(Below) \in Seq(Frames) /\ 1 \in 1..Len(Orphaned(Below))
      BY <1>2 DEF KeepsFirst
    <2> QED BY <1>4, <2>1, PutTwo
  <1>7. /\ Len(stack') = 3 /\ stack'[2] = x /\ stack'[3] = Notice
        /\ stack'[1].what = "settings" /\ ~stack'[1].alive
    BY <1>2, <1>5, <1>6 DEF Top, KeepsFirst
  <1>8. OffIsClosed' /\ UpdateIsQuiet' /\ ProfileIsConfirmed'
    BY <1>1 DEF OffIsClosed, UpdateIsQuiet, ProfileIsConfirmed, RouterAssumption
  <1>9. SealedIsDead'
    <2>1. ASSUME app'.sealed, NEW i \in 1..Len(stack')
          PROVE  /\ stack'[i].what \in {"settings", "seal", "notice"}
                 /\ stack'[i].what = "settings" => ~stack'[i].alive
      <3>1. i = 1 \/ i = 2 \/ i = 3
        BY <1>7
      <3> QED BY <1>4, <1>7, <2>1, <3>1
    <2>2. ASSUME app'.sealed
          PROVE  \E i \in 1..Len(stack') : stack'[i].what = "seal"
      <3>1. 2 \in 1..Len(stack')
        BY <1>7
      <3> QED BY <1>7, <2>2, <3>1
    <2>3. \A r \in Requests : ~pending'[r].current
      BY <1>1, ForgottenType DEF RouterInv
    <2> QED BY <1>1, <2>1, <2>2, <2>3 DEF SealedIsDead
  <1>10. RouterTypeOK'
    BY <1>1, <1>5, EndedSession, ForgottenType DEF RouterInv, RouterTypeOK, Profiles
  <1>11. BusyMeansARequest'
    <2>1. 2 \in 1..Len(stack') /\ DOMAIN stack' = 1..Len(stack')
      BY <1>5, <1>7, LenProperties
    <2> QED BY <1>7, <2>1 DEF BusyMeansARequest
  <1> QED BY <1>5, <1>8, <1>9, <1>10, <1>11 DEF RouterInv

\* A reset that went well: the login is shown, and nothing is to be told.
LEMMA ResetDoneStep ==
    ASSUME RouterInv, ResetClosed, stack' = Append(Orphaned(Below), Show),
           UNCHANGED app, TokensAreKnown', StoreIsStartable',
           store' \in [disk : States, mem : States], keyring' \subseteq Accounts
    PROVE  RouterInv'
  <1>1. /\ Waits("reset") /\ ~app.update /\ profile' = Nobody /\ pending' = Forgotten
        /\ session' = Ended(profile) /\ UNCHANGED <<auth, confirmed>>
    BY DEF ResetClosed
  <1>2. /\ Len(stack) = 2 /\ app.on /\ ~app.sealed
        /\ KeepsFirst(Orphaned(Below), 1) /\ Len(Orphaned(Below)) = 1
        /\ stack[1].what = "settings" /\ ~Orphaned(Below)[1].alive
    BY <1>1, ResetStands
  <1>3. PICK x \in Frames : /\ x = Show /\ x.what = "show" /\ Relies(x)'
                            /\ x.what \notin {"settings", "restore"} \cup Questions
    BY PlainFrames DEF Questions
  <1>4. stack' = Orphaned(Below) \o <<x>>
    BY <1>2, <1>3, KeepsAndOne
  <1>5. /\ stack' \in Seq(Frames) /\ KeepsFirst(stack', 1) /\ Len(stack') = 1 + 1
        /\ Top' = x /\ StackFits' /\ StackRelies'
    <2>1. /\ 1 < Len(stack) /\ (app.sealed => app'.sealed)
          /\ \A i \in 1..1 : stack[i].what \in {"enter", "choice"} => store'.mem.consent
          /\ \A i \in 1..1 : stack[i].what \in OfMain => ~Orphaned(Below)[i].alive
      BY <1>2
    <2> QED BY <1>2, <1>3, <1>4, <2>1, PutFrame
  <1>6. OffIsClosed' /\ UpdateIsQuiet' /\ SealedIsDead' /\ ProfileIsConfirmed'
    BY <1>1, <1>2, Ordinary DEF ProfileIsConfirmed, RouterAssumption
  <1>7. RouterTypeOK'
    BY <1>1, <1>5, EndedSession, ForgottenType DEF RouterInv, RouterTypeOK, Profiles
  <1>8. BusyMeansARequest'
    <2>1. 2 \in 1..Len(stack') /\ DOMAIN stack' = 1..Len(stack') /\ stack'[2] = x
      BY <1>5, LenProperties DEF Top
    <2> QED BY <1>3, <2>1 DEF BusyMeansARequest
  <1> QED BY <1>5, <1>6, <1>7, <1>8 DEF RouterInv

LEMMA ResetStep ==
    ASSUME RouterInv, Reset
    PROVE  RouterInv'
  <1>1. /\ ResetClosed /\ Waits("reset") /\ ~app.update /\ profile' = Nobody
        /\ UNCHANGED confirmed
    BY DEF Reset, ResetUncleared, ResetCleared, ResetClosed
  <1>2. app.on /\ ~app.sealed
    BY <1>1, ResetStands
  <1>3. /\ app \in [on : BOOLEAN, online : BOOLEAN, update : BOOLEAN, sealed : BOOLEAN]
        /\ store \in [disk : States, mem : States] /\ keyring \subseteq Accounts
        /\ FreshState \in States
    BY DEF RouterInv, RouterTypeOK, FreshState, States, Profiles
  <1>4. /\ Show \in Frames /\ Show.what = "show"
    BY PlainFrames
  <1>5. CASE ResetUncleared
    <2>1. /\ UNCHANGED <<app, store>> /\ keyring' \subseteq keyring
          /\ stack' = Orphaned(Below) \o <<Show, Notice>>
      BY <1>5 DEF ResetUncleared
    <2>2. TokensAreKnown' /\ StoreIsStartable'
      BY <1>1, <2>1 DEF RouterInv, TokensAreKnown, StoreIsStartable, Startable
    <2> QED BY <1>1, <1>2, <1>3, <1>4, <2>1, <2>2, ResetClosedStep
  <1>6. CASE ResetCleared
    <2>1. PICK disk \in {store.disk, FreshState} :
            \/ /\ disk = FreshState /\ store' = [disk |-> disk, mem |-> disk]
               /\ stack' = Append(Orphaned(Below), Show) /\ UNCHANGED app
            \/ /\ store' = [disk |-> disk, mem |-> disk]
               /\ stack' = Orphaned(Below) \o <<Show, Notice>> /\ UNCHANGED app
            \/ /\ store' = [store EXCEPT !.disk = disk]
               /\ app' = [app EXCEPT !.sealed = TRUE]
               /\ stack' = Orphaned(Below) \o <<Frame("seal", Nobody), Notice>>
      BY <1>6 DEF ResetCleared
    <2>2. keyring' = {}
      BY <1>6 DEF ResetCleared, CredentialAccounts, RouterInv, TokensAreKnown
    <2>3. /\ store' \in [disk : States, mem : States]
          /\ store'.disk \in {store.disk, FreshState}
          /\ store'.mem \in {store.disk, store.mem, FreshState}
      BY <1>3, <2>1
    <2>4. TokensAreKnown' /\ StoreIsStartable'
      BY <1>1, <2>2, <2>3
      DEF RouterInv, TokensAreKnown, StoreIsStartable, Startable, FreshState, RouterAssumption
    <2>5. CASE stack' = Append(Orphaned(Below), Show) /\ UNCHANGED app
      BY <1>1, <2>2, <2>3, <2>4, <2>5, ResetDoneStep
    <2>6. CASE stack' = Orphaned(Below) \o <<Show, Notice>> /\ UNCHANGED app
      BY <1>1, <1>2, <1>3, <1>4, <2>2, <2>3, <2>4, <2>6, ResetClosedStep
    <2>7. CASE /\ app' = [app EXCEPT !.sealed = TRUE]
               /\ stack' = Orphaned(Below) \o <<Frame("seal", Nobody), Notice>>
      <3>1. Frame("seal", Nobody) \in Frames /\ Frame("seal", Nobody).what = "seal"
        BY NewFrame DEF Whats, Code, Profiles
      <3>2. /\ app' \in [on : BOOLEAN, online : BOOLEAN, update : BOOLEAN, sealed : BOOLEAN]
            /\ app'.on /\ ~app'.update /\ app'.sealed
        BY <1>1, <1>2, <1>3, <2>7
      <3> QED BY <1>1, <2>2, <2>3, <2>4, <2>7, <3>1, <3>2, ResetClosedStep
    <2> QED BY <2>1, <2>5, <2>6, <2>7
  <1> QED BY <1>1, <1>5, <1>6 DEF Reset

LEMMA StartStep ==
    ASSUME RouterInv, Start
    PROVE  RouterInv'
  <1>1. /\ stack = <<>> /\ profile = Nobody /\ session = NoSession /\ auth = ClosedAuth
        /\ UNCHANGED <<profile, auth, pending, confirmed>>
        /\ store' = [store EXCEPT !.mem = store.disk]
    BY DEF Start, RouterInv, OffIsClosed
  <1>2. PICK online \in BOOLEAN :
          /\ app' = [on |-> TRUE, online |-> online, update |-> FALSE, sealed |-> FALSE]
          /\ \/ stack' = <<Show>> /\ UNCHANGED <<session, keyring>>
             \/ /\ store.disk.last = Guest /\ store.disk.consent
                /\ stack' = <<Frame("open", Guest)>> /\ UNCHANGED <<session, keyring>>
             \/ /\ store.disk.last \in Accounts /\ store.disk.consent /\ ~store.disk.out
                /\ Restored(store.disk.last, online)
    BY DEF Start
  <1>3. /\ store \in [disk : States, mem : States] /\ keyring \subseteq Accounts
        /\ session \in [account : Accounts \cup {Nobody}, live : BOOLEAN]
    BY DEF RouterInv, RouterTypeOK
  <1>4. /\ store' \in [disk : States, mem : States]
        /\ store'.disk = store.disk /\ store'.mem = store.disk
    BY <1>1, <1>3
  <1>5. /\ keyring' \subseteq keyring
        /\ session' \in [account : Accounts \cup {Nobody}, live : BOOLEAN]
    <2>1. CASE UNCHANGED <<session, keyring>>
      BY <1>3, <2>1
    <2>2. CASE /\ store.disk.last \in Accounts /\ Restored(store.disk.last, online)
      <3>1. keyring' \subseteq keyring
        BY <2>2 DEF Restored
      <3>2. \/ session' = session
            \/ \E live \in BOOLEAN : session' = [account |-> store.disk.last, live |-> live]
        BY <2>2 DEF Restored
      <3>3. session' \in [account : Accounts \cup {Nobody}, live : BOOLEAN]
        BY <1>3, <2>2, <3>2
      <3> QED BY <3>1, <3>3
    <2> QED BY <1>2, <2>1, <2>2
  <1>6. \/ stack' = <<Show>>
        \/ \E a \in Accounts \cup {Guest} :
             /\ stack' \in {<<Frame("open", a)>>, <<Show, Frame("open", a)>>}
             /\ store.disk.consent /\ MayReopen(a)'
    <2>1. CASE /\ store.disk.last = Guest /\ store.disk.consent
               /\ stack' = <<Frame("open", Guest)>>
      <3>1. MayReopen(Guest)'
        BY DEF MayReopen, RouterAssumption
      <3> QED BY <2>1, <3>1
    <2>2. CASE /\ store.disk.last \in Accounts /\ store.disk.consent /\ ~store.disk.out
               /\ Restored(store.disk.last, online)
      <3>1. PICK a \in Accounts : a = store.disk.last
        BY <2>2
      <3>2. a \in confirmed
        BY <2>2, <3>1 DEF RouterInv, StoreIsStartable, Startable
      <3>3. session'.account \in {a, Nobody}
        BY <1>1, <2>2, <3>1 DEF Restored, NoSession
      <3>4. MayReopen(a)'
        BY <1>1, <3>2, <3>3 DEF MayReopen
      <3>5. stack' \in {<<Frame("open", a)>>, <<Show, Frame("open", a)>>}
        BY <2>2, <3>1 DEF Restored
      <3> QED BY <2>2, <3>4, <3>5
    <2> QED BY <1>2, <2>1, <2>2
  <1>7. /\ <<>> \in Seq(Frames) /\ Len(<<>>) = 0
        /\ \A x \in Frames : <<>> \o <<x>> = <<x>>
        /\ \A x, y \in Frames : <<>> \o <<x, y>> = <<x, y>>
    BY ConcatEmptySeq
  <1>8. stack' \in Seq(Frames) /\ StackFits' /\ StackRelies'
    <2>1. PICK k, e : k = 0 /\ e = <<>>
      OBVIOUS
    <2>2. /\ KeepsFirst(e, k) /\ Len(e) = k
          /\ \A i \in 1..k : stack[i].what \in {"enter", "choice"} => store'.mem.consent
          /\ \A i \in 1..k : stack[i].what \in OfMain => ~e[i].alive
      BY <1>1, <1>7, <2>1 DEF KeepsFirst
    <2>3. app.sealed => app'.sealed
      BY DEF Start, RouterInv, OffIsClosed
    <2>4. /\ Show \in Frames /\ Show.what = "show" /\ Relies(Show)'
          /\ Show.what \notin {"settings", "restore"} \cup Questions
          /\ Show.what \notin {"settings"} \cup Finishing \cup Questions
      BY PlainFrames DEF Questions, Finishing
    <2>5. CASE stack' = <<Show>>
      <3>1. stack' = e \o <<Show>>
        BY <1>7, <2>1, <2>4, <2>5
      <3> QED BY <1>1, <2>2, <2>3, <2>4, <3>1, PutFrame
    <2>6. ASSUME NEW a \in Accounts \cup {Guest}, store.disk.consent, MayReopen(a)',
                 stack' \in {<<Frame("open", a)>>, <<Show, Frame("open", a)>>}
          PROVE  stack' \in Seq(Frames) /\ StackFits' /\ StackRelies'
      <3>1. PICK x \in Frames : x = Frame("open", a) /\ x.what = "open" /\ x.account = a
        <4>1. "open" \in Whats /\ a \in Profiles
          BY DEF Whats, Code, Profiles
        <4>2. /\ Frame("open", a) \in Frames
              /\ Frame("open", a).what = "open" /\ Frame("open", a).account = a
          BY <4>1, NewFrame
        <4> QED BY <4>2
      <3>2. MayReopen(x.account)'
        BY <2>6, <3>1
      <3>3. Relies(x)'
        BY <1>4, <2>6, <3>1, <3>2 DEF Relies, OfMain
      <3>4. /\ x.what \notin {"settings", "restore"} \cup Questions
            /\ x.what \notin {"settings"} \cup Questions
            /\ (x.what = "restore" => Show.what = "show")
        BY <3>1 DEF Questions
      <3>5. CASE stack' = <<x>>
        <4>1. stack' = e \o <<x>>
          BY <1>7, <2>1, <3>5
        <4> QED BY <1>1, <2>2, <2>3, <3>3, <3>4, <4>1, PutFrame
      <3>6. CASE stack' = <<Show, x>>
        <4>1. stack' = e \o <<Show, x>>
          BY <1>7, <2>1, <2>4, <3>6
        <4> QED BY <1>1, <2>2, <2>3, <2>4, <3>3, <3>4, <4>1, PutFrames
      <3> QED BY <2>6, <3>1, <3>5, <3>6
    <2> QED BY <1>6, <2>5, <2>6
  <1>9. RouterTypeOK'
    BY <1>1, <1>2, <1>3, <1>4, <1>5, <1>8 DEF RouterInv, RouterTypeOK
  <1>10. OffIsClosed' /\ UpdateIsQuiet' /\ SealedIsDead'
    BY <1>2 DEF OffIsClosed, UpdateIsQuiet, SealedIsDead
  <1>11. TokensAreKnown' /\ StoreIsStartable'
    BY <1>1, <1>4, <1>5 DEF RouterInv, TokensAreKnown, StoreIsStartable, Startable
  <1>12. ProfileIsConfirmed' /\ BusyMeansARequest'
    BY <1>1 DEF ProfileIsConfirmed, BusyMeansARequest, ClosedAuth, RouterAssumption
  <1> QED BY <1>8, <1>9, <1>10, <1>11, <1>12 DEF RouterInv

LEMMA StopStep ==
    ASSUME RouterInv, Stop
    PROVE  RouterInv'
  <1>1. /\ store \in [disk : States, mem : States] /\ keyring \subseteq Accounts
        /\ confirmed \subseteq Accounts
    BY DEF RouterInv, RouterTypeOK
  <1>2. /\ store' \in [disk : States, mem : States]
        /\ store'.disk = store.disk /\ store'.mem = store.disk
        /\ stack' = <<>> /\ profile' = Nobody /\ UNCHANGED <<keyring, confirmed>>
        /\ session' = NoSession /\ auth' = ClosedAuth
        /\ app' = [on |-> FALSE, online |-> FALSE, update |-> FALSE, sealed |-> FALSE]
        /\ pending' = [r \in Requests |-> NothingAsked]
    BY <1>1 DEF Stop
  <1>3. RouterTypeOK'
    BY <1>1, <1>2 DEF RouterTypeOK, Profiles, NoSession, ClosedAuth, NothingAsked
  <1>4. Len(stack') = 0
    BY <1>2
  <1>5. OffIsClosed' /\ UpdateIsQuiet' /\ SealedIsDead' /\ StackFits' /\ StackRelies'
    BY <1>2, <1>4 DEF OffIsClosed, UpdateIsQuiet, SealedIsDead, StackFits, StackRelies
  <1>6. TokensAreKnown' /\ StoreIsStartable'
    BY <1>2 DEF RouterInv, TokensAreKnown, StoreIsStartable, Startable
  <1>7. ProfileIsConfirmed' /\ BusyMeansARequest'
    BY <1>2 DEF ProfileIsConfirmed, BusyMeansARequest, ClosedAuth, RouterAssumption
  <1> QED BY <1>3, <1>5, <1>6, <1>7 DEF RouterInv

\* An update begins: nothing is asked, and the settings window may be open.
LEMMA BeginUpdateStep ==
    ASSUME RouterInv, BeginUpdate
    PROVE  RouterInv'
  <1>1. /\ app.on /\ app' = [app EXCEPT !.update = TRUE]
        /\ \A r \in Requests : pending[r] = NothingAsked
        /\ \A i \in DOMAIN stack : stack[i].what = "settings"
        /\ UNCHANGED <<profile, store, keyring, session, auth, stack, pending, confirmed>>
    BY DEF BeginUpdate, Looping
  <1>2. app \in [on : BOOLEAN, online : BOOLEAN, update : BOOLEAN, sealed : BOOLEAN]
    BY DEF RouterInv, RouterTypeOK
  <1>3. /\ app' \in [on : BOOLEAN, online : BOOLEAN, update : BOOLEAN, sealed : BOOLEAN]
        /\ app'.on /\ app'.sealed = app.sealed
    BY <1>1, <1>2
  <1>4. RouterTypeOK'
    BY <1>1, <1>3 DEF RouterInv, RouterTypeOK
  <1>5. OffIsClosed' /\ SealedIsDead'
    BY <1>1, <1>3 DEF RouterInv, OffIsClosed, SealedIsDead
  <1>6. UpdateIsQuiet'
    <2>1. DOMAIN stack = 1..Len(stack)
      BY LenProperties DEF RouterInv, RouterTypeOK
    <2> QED BY <1>1, <2>1 DEF UpdateIsQuiet
  <1>7. StackFits' /\ StackRelies'
    BY <1>1, <1>3, StackStays DEF RouterInv
  <1>8. TokensAreKnown' /\ StoreIsStartable' /\ ProfileIsConfirmed' /\ BusyMeansARequest'
    BY <1>1, <1>3 DEF RouterInv, TokensAreKnown, StoreIsStartable, Startable,
                      ProfileIsConfirmed, BusyMeansARequest, Top
  <1> QED BY <1>4, <1>5, <1>6, <1>7, <1>8 DEF RouterInv

LEMMA EndUpdateStep ==
    ASSUME RouterInv, EndUpdate
    PROVE  RouterInv'
  <1>1. /\ app.update /\ app' = [app EXCEPT !.update = FALSE]
        /\ UNCHANGED <<profile, store, keyring, session, auth, stack, pending, confirmed>>
    BY DEF EndUpdate
  <1>2. app \in [on : BOOLEAN, online : BOOLEAN, update : BOOLEAN, sealed : BOOLEAN]
    BY DEF RouterInv, RouterTypeOK
  <1>3. /\ app' \in [on : BOOLEAN, online : BOOLEAN, update : BOOLEAN, sealed : BOOLEAN]
        /\ app'.on /\ ~app'.update /\ app'.sealed = app.sealed
    BY <1>1, <1>2 DEF RouterInv, OffIsClosed
  <1>4. RouterTypeOK'
    BY <1>1, <1>3 DEF RouterInv, RouterTypeOK
  <1>5. OffIsClosed' /\ UpdateIsQuiet' /\ SealedIsDead'
    BY <1>1, <1>3 DEF RouterInv, OffIsClosed, UpdateIsQuiet, SealedIsDead
  <1>7. StackFits' /\ StackRelies'
    BY <1>1, <1>3, StackStays DEF RouterInv
  <1>8. TokensAreKnown' /\ StoreIsStartable' /\ ProfileIsConfirmed' /\ BusyMeansARequest'
    BY <1>1, <1>3 DEF RouterInv, TokensAreKnown, StoreIsStartable, Startable,
                      ProfileIsConfirmed, BusyMeansARequest, Top
  <1> QED BY <1>4, <1>5, <1>7, <1>8 DEF RouterInv

\* The sync worker refreshes the session of the open profile, or loses it.
LEMMA RefreshedStep ==
    ASSUME RouterInv, Refreshed
    PROVE  RouterInv'
  <1>1. /\ profile \in Accounts /\ session.account = profile
        /\ keyring' \subseteq keyring
        /\ \E live \in BOOLEAN : session' = [session EXCEPT !.live = live]
        /\ UNCHANGED <<app, profile, store, auth, stack, pending, confirmed>>
    BY DEF Refreshed
  <1>2. session \in [account : Accounts \cup {Nobody}, live : BOOLEAN]
    BY DEF RouterInv, RouterTypeOK
  <1>3. /\ session' \in [account : Accounts \cup {Nobody}, live : BOOLEAN]
        /\ session'.account = session.account
    BY <1>1, <1>2
  <1>4. RouterTypeOK'
    BY <1>1, <1>3 DEF RouterInv, RouterTypeOK
  <1>5. OffIsClosed' /\ UpdateIsQuiet' /\ SealedIsDead'
    BY <1>1 DEF RouterInv, OffIsClosed, UpdateIsQuiet, SealedIsDead, RouterAssumption
  <1>6. StackFits' /\ StackRelies'
    BY <1>1, <1>3, StackStays DEF RouterInv
  <1>7. TokensAreKnown' /\ StoreIsStartable' /\ ProfileIsConfirmed' /\ BusyMeansARequest'
    BY <1>1, <1>3 DEF RouterInv, TokensAreKnown, StoreIsStartable, Startable,
                      ProfileIsConfirmed, BusyMeansARequest, Top
  <1> QED BY <1>4, <1>5, <1>6, <1>7 DEF RouterInv

LEMMA StutterStep ==
    ASSUME RouterInv, UNCHANGED routerVars
    PROVE  RouterInv'
  <1>1. /\ app' = app /\ profile' = profile /\ store' = store /\ keyring' = keyring
        /\ session' = session /\ auth' = auth /\ stack' = stack /\ pending' = pending
        /\ confirmed' = confirmed
    BY DEF routerVars
  <1>2. StackFits' /\ StackRelies'
    BY <1>1, StackStays DEF RouterInv
  <1>3. RouterTypeOK' /\ OffIsClosed' /\ UpdateIsQuiet' /\ SealedIsDead'
    BY <1>1 DEF RouterInv, RouterTypeOK, OffIsClosed, UpdateIsQuiet, SealedIsDead
  <1>4. TokensAreKnown' /\ StoreIsStartable' /\ ProfileIsConfirmed' /\ BusyMeansARequest'
    BY <1>1 DEF RouterInv, TokensAreKnown, StoreIsStartable, Startable,
                ProfileIsConfirmed, BusyMeansARequest, Top
  <1> QED BY <1>2, <1>3, <1>4 DEF RouterInv

-----------------------------------------------------------------------------
(* Theorems.                                                               *)

LEMMA InitHolds ==
    ASSUME RouterInit
    PROVE  RouterInv
  <1>1. RouterTypeOK
    BY DEF RouterInit, RouterTypeOK, FreshState, States, Profiles, NoSession, ClosedAuth,
           NothingAsked
  <1>2. stack = <<>> /\ Len(stack) = 0
    BY DEF RouterInit
  <1>3. OffIsClosed /\ UpdateIsQuiet /\ SealedIsDead /\ StackFits /\ StackRelies
    BY <1>2 DEF RouterInit, OffIsClosed, UpdateIsQuiet, SealedIsDead, StackFits, StackRelies
  <1>4. TokensAreKnown /\ StoreIsStartable /\ ProfileIsConfirmed /\ BusyMeansARequest
    BY DEF RouterInit, TokensAreKnown, StoreIsStartable, Startable, FreshState,
           ProfileIsConfirmed, BusyMeansARequest, ClosedAuth, RouterAssumption
  <1> QED BY <1>1, <1>3, <1>4 DEF RouterInv

LEMMA NextStep ==
    ASSUME RouterInv, RouterNext
    PROVE  RouterInv'
  <1>1. CASE Start
    BY <1>1, StartStep
  <1>2. CASE Stop
    BY <1>2, StopStep
  <1>3. CASE Running
    BY <1>3, RunningStep
  <1>4. CASE \E r \in Requests : Submit(r) \/ Resend(r) \/ Complete(r)
    BY <1>4, SubmitStep, ResendStep, CompleteStep
  <1>5. CASE Turn \/ ContinueAsGuest \/ Consent \/ Choice \/ CloseAuth
    BY <1>5, TurnStep, ContinueAsGuestStep, ConsentStep, ChoiceStep, CloseAuthStep
  <1>6. CASE OpenSettings \/ Dismiss \/ Login \/ Logout
    BY <1>6, OpenSettingsStep, DismissStep, LoginStep, LogoutStep
  <1>7. CASE \E what \in {"everywhere", "delete"} : AskAccount(what)
    <2>1. PICK what \in {"everywhere", "delete"} : AskAccount(what)
      BY <1>7
    <2> QED BY <2>1, AskStep DEF AskAccount, Questions
  <1>8. CASE AskReset
    BY <1>8, AskStep DEF AskReset, Questions
  <1>9. CASE SignOutEverywhere
    BY <1>9, EndEverywhereStep DEF SignOutEverywhere
  <1>10. CASE DeleteAccount
    BY <1>10, EndEverywhereStep DEF DeleteAccount
  <1>11. CASE ResetHeld \/ Reset
    BY <1>11, ResetHeldStep, ResetStep
  <1>12. CASE BeginUpdate \/ EndUpdate \/ Refreshed
    BY <1>12, BeginUpdateStep, EndUpdateStep, RefreshedStep
  <1> QED BY <1>1, <1>2, <1>3, <1>4, <1>5, <1>6, <1>7, <1>8, <1>9, <1>10, <1>11, <1>12
          DEF RouterNext

\* The inductive invariant: where a handler may stand in the stack, what it
\* relies on when it runs, and what holds while an update is installed or
\* after a reset beyond recovery.
THEOREM RouterInvariant == RouterSpec => []RouterInv
  <1>1. RouterInit => RouterInv
    BY InitHolds
  <1>2. RouterInv /\ [RouterNext]_routerVars => RouterInv'
    BY NextStep, StutterStep
  <1> QED BY <1>1, <1>2, PTL DEF RouterSpec

LEMMA RightfulByInvariant ==
    ASSUME RouterInv
    PROVE  ProfilesAreRightful
  <1>1. TokensAreKnown
    BY DEF RouterInv
  <1>2. OpensWithConsent /\ OnlyConfirmedReopen
    BY DEF RouterInv, StoreIsStartable, Startable, OpensWithConsent, OnlyConfirmedReopen
  <1>3. SessionIsTheProfiles
    BY DEF RouterInv, ProfileIsConfirmed, SessionIsTheProfiles, Looping, Leaving, Code
  <1>4. QuestionsAreAboutTheOpenProfile
    <2>1. DOMAIN stack = 1..Len(stack)
      BY LenProperties DEF RouterInv, RouterTypeOK
    <2> QED BY <2>1 DEF RouterInv, StackRelies, Relies, QuestionsAreAboutTheOpenProfile
  <1>5. NothingOpensUnrecovered
    BY DEF RouterInv, SealedIsDead, NothingOpensUnrecovered
  <1> QED BY <1>1, <1>2, <1>3, <1>4, <1>5 DEF ProfilesAreRightful

\* Whichever way a profile was opened, left, deleted or reset, and wherever a
\* crash came: every token is known to the state file, nothing opens without
\* the consent or a completed sign-in, the session and the questions on the
\* screen are those of the open profile.
THEOREM ProfilesStayRightful == RouterSpec => []ProfilesAreRightful
  <1>1. RouterInv => ProfilesAreRightful
    BY RightfulByInvariant
  <1> QED BY <1>1, RouterInvariant, PTL

\* The login form is never disabled for good.
THEOREM FormComesBack == RouterSpec => []BusyMeansARequest
  <1>1. RouterInv => BusyMeansARequest
    BY DEF RouterInv
  <1> QED BY <1>1, RouterInvariant, PTL

LEMMA HeldByUpdate ==
    ASSUME RouterInv, RouterNext, app.update, app'.update
    PROVE  UNCHANGED <<profile, store>>
  <1>1. app.on /\ \A r \in Requests : pending[r] = NothingAsked
    BY DEF RouterInv, OffIsClosed, UpdateIsQuiet
  <1>2. stack # <<>> => Top.what \in {"settings", "reset"}
    BY Awake
  <1>3. ~Start /\ ~Running /\ ~Consent
    BY <1>1, <1>2 DEF Start, Running, Open, Enter, Activate, Signed, Restore, Return,
                      ShowLogin, Seal, Consent, Waits, Runs
  <1>4. ~Stop
    BY DEF Stop
  <1>5. ~ResetHeld /\ ~Reset
    BY DEF ResetHeld, Reset, ResetUncleared, ResetCleared, ResetClosed
  <1>6. CASE \E r \in Requests : Submit(r) \/ Resend(r) \/ Complete(r)
    BY <1>6 DEF Submit, Resend, Complete
  <1>7. CASE Turn \/ ContinueAsGuest \/ Choice \/ CloseAuth
    BY <1>7 DEF Turn, ContinueAsGuest, Choice, CloseAuth
  <1>8. CASE OpenSettings \/ Dismiss \/ Login \/ Logout
    BY <1>8 DEF OpenSettings, Dismiss, Login, Logout
  <1>9. CASE (\E what \in {"everywhere", "delete"} : AskAccount(what)) \/ AskReset
    BY <1>9 DEF AskAccount, AskReset
  <1>10. CASE SignOutEverywhere \/ DeleteAccount
    BY <1>10 DEF SignOutEverywhere, DeleteAccount
  <1>11. CASE BeginUpdate \/ EndUpdate \/ Refreshed
    BY <1>11 DEF BeginUpdate, EndUpdate, Refreshed
  <1> QED BY <1>3, <1>4, <1>5, <1>6, <1>7, <1>8, <1>9, <1>10, <1>11 DEF RouterNext

\* While an update is installed no handler opens, leaves or resets a profile:
\* what was under way before ready_for_update agreed cannot come late.
THEOREM ProfileIsHeld == RouterSpec => UpdateHoldsProfile
  <1>1. /\ RouterInv /\ [RouterNext]_routerVars
        => [app.update /\ app'.update => UNCHANGED <<profile, store>>]_routerVars
    BY HeldByUpdate
  <1> QED BY <1>1, RouterInvariant, PTL DEF RouterSpec, UpdateHoldsProfile

=============================================================================
