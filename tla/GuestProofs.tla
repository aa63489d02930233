---------------------------- MODULE GuestProofs ----------------------------
(***************************************************************************)
(* Theorems about the uploads of a guest profile, for any records, fields  *)
(* and values, whatever the server refuses, and any bounds.                *)
(*                                                                         *)
(* GuestInv relates what is queued to the row (RecordInv), what is being   *)
(* uploaded to what is queued (UploadInv), and both to what the server     *)
(* observed (ReplyInv, GoneInv).                                           *)
(***************************************************************************)
EXTENDS GuestSync, FiniteSetTheorems, WellFoundedInduction, TLAPS

\* What the server can keep of a record, and what a batch says of one.
Observation == [payload : Payload, withdrawn : BOOLEAN]
Report == [game : Games, withdraw : BOOLEAN, payload : Payload]

TypeInv ==
    /\ local \in [Games -> Record]
    /\ upload \in [busy : BOOLEAN, entries : [Games -> Entry \cup {Absent}],
                   reply : [rejected : BOOLEAN] \cup {Absent}]
    /\ observations \in [Games -> Observation \cup {Absent}]
    /\ \A b \in late : b.changes \subseteq Report

\* Two states of one queued change, which differ in when it is tried again.
Same(d, e) == d.id = e.id /\ d.op = e.op /\ d.snap = e.snap

\* Nothing newer is queued.
IsNewest(e, box) == \A d \in box : d.id <= e.id

\* The newest queued change is the row as it is, and deletes if that is deleted.
RecordInv(L) ==
    /\ L.box # {} => L.row # Absent
    /\ \A d, e \in L.box : d.id = e.id => Same(d, e)
    /\ \A e \in L.box :
         /\ e.id \in 1 .. MaxOutboxId
         /\ (e.op = "delete") <=> Deleted(e.snap.payload)
         /\ Deleted(e.snap.payload) => Deleted(L.row.payload)
         /\ IsNewest(e, L.box) => e.snap.payload = L.row.payload

\* What is being uploaded is still queued.
UploadInv ==
    upload.busy => \A g \in Sent(upload.entries) :
                      \E q \in local[g].box : Same(q, upload.entries[g])

\* The user deleted it.
Gone(g) == local[g].row # Absent /\ Deleted(local[g].row.payload)

\* A batch has one change of a record, and withdraws what is deleted.
BatchFits(b) ==
    /\ \A c, d \in b.changes : c.game = d.game => c = d
    /\ \A c \in b.changes : c.withdraw => Gone(c.game)

\* What is withdrawn, or about to be, is deleted.
GoneInv ==
    /\ \A b \in late : BatchFits(b)
    /\ \A g \in Games : observations[g] # Absent /\ observations[g].withdrawn => Gone(g)

\* Carrying the change out once more would change nothing.
Shows(o, c) == Observed(o, c) = o

\* What the server said it took is there, unless the user changed it since.
ReplyInv ==
    upload.busy /\ upload.reply # Absent /\ ~upload.reply.rejected =>
        \A g \in Sent(upload.entries) :
            LET e == upload.entries[g]
            IN  IsNewest(e, local[g].box) =>
                    g \in outrun \/ Shows(observations[g], Change(g, e))

GuestInv ==
    /\ TypeInv /\ (\A g \in Games : RecordInv(local[g])) /\ UploadInv
    /\ GoneInv /\ ReplyInv /\ UploadsAreReflected

-----------------------------------------------------------------------------
(* Observations and changes.                                               *)

(* A change shows once it was carried out, and takes no withdrawal back.   *)
LEMMA ObservedFacts ==
    ASSUME NEW o \in Observation \cup {Absent}, NEW c \in Report
    PROVE  /\ Observed(o, c) \in Observation \cup {Absent}
           /\ Shows(Observed(o, c), c)
           /\ o # Absent /\ o.withdrawn =>
                 Observed(o, c) # Absent /\ Observed(o, c).withdrawn
           /\ Observed(o, c) # Absent /\ Observed(o, c).withdrawn =>
                 c.withdraw \/ (o # Absent /\ o.withdrawn)
<1>1. CASE c.withdraw /\ o = Absent
  BY <1>1 DEF Observed, Shows
<1>2. CASE c.withdraw /\ o # Absent
  <2> DEFINE r == [o EXCEPT !.withdrawn = TRUE]
  <2>1. /\ Observed(o, c) = r /\ r \in Observation /\ r.withdrawn = TRUE
        /\ [r EXCEPT !.withdrawn = TRUE] = r
    BY <1>2 DEF Observed, Observation
  <2>2. r # Absent
    BY <2>1, ObservationAssumption DEF Observation
  <2> HIDE DEF r
  <2>3. Observed(r, c) = r
    BY <1>2, <2>1, <2>2 DEF Observed
  <2> QED
    BY <1>2, <2>1, <2>2, <2>3 DEF Shows
<1>3. CASE ~c.withdraw
  <2> DEFINE w == o # Absent /\ o.withdrawn
             r == [payload |-> c.payload, withdrawn |-> w]
  <2>1. Observed(o, c) = r
    BY <1>3 DEF Observed
  <2>2. w \in BOOLEAN
    OBVIOUS
  <2> HIDE DEF w
  <2>3. r \in Observation /\ r.withdrawn = w
    BY <2>2 DEF Observation, Report
  <2>4. r # Absent
    BY <2>3, ObservationAssumption DEF Observation
  <2>5. Observed(r, c) = [payload |-> c.payload, withdrawn |-> r # Absent /\ r.withdrawn]
    BY <1>3 DEF Observed
  <2>6. (r # Absent /\ r.withdrawn) = w
    BY <2>2, <2>3, <2>4
  <2>7. Observed(r, c) = r
    BY <2>5, <2>6
  <2> HIDE DEF r
  <2> QED
    BY <1>3, <2>1, <2>3, <2>4, <2>7 DEF Shows, w
<1> QED
  BY <1>1, <1>2, <1>3

(* A change is a report, and depends on what was queued alone.             *)
LEMMA ChangeFacts ==
    ASSUME NEW g \in Games, NEW e \in Entry
    PROVE  /\ Change(g, e) \in Report /\ Change(g, e).game = g
           /\ Change(g, e).withdraw = (e.op = "delete")
           /\ Change(g, e).payload = LivePayload(e.snap.payload)
           /\ \A d \in Entry : Same(d, e) => Change(g, d) = Change(g, e)
<1>1. e.snap.payload \in Payload
  BY DEF Entry, Row
<1>2. \A p \in Payload : LivePayload(p) \in Payload
  BY FieldsAssumption DEF LivePayload, Payload, Columns, Stamps
<1> HIDE DEF LivePayload
<1> QED
  BY <1>1, <1>2 DEF Change, Report, Same

(* What is being uploaded is a batch that fits.                            *)
LEMMA UploadFits ==
    ASSUME TypeInv, \A g \in Games : RecordInv(local[g]), UploadInv, upload.busy
    PROVE  /\ BatchFits(BatchOf(upload.entries))
           /\ BatchOf(upload.entries).changes \subseteq Report
<1> DEFINE b == BatchOf(upload.entries)
<1>1. /\ upload.entries \in [Games -> Entry \cup {Absent}] /\ local \in [Games -> Record]
  BY DEF TypeInv
<1>2. b.changes = {Change(g, upload.entries[g]) : g \in Sent(upload.entries)}
  BY DEF BatchOf, Changes
<1>3. ASSUME NEW g \in Sent(upload.entries)
      PROVE  /\ g \in Games /\ upload.entries[g] \in Entry
             /\ Change(g, upload.entries[g]) \in Report
             /\ Change(g, upload.entries[g]).game = g
             /\ Change(g, upload.entries[g]).withdraw => Gone(g)
  <2>1. g \in Games /\ upload.entries[g] \in Entry
    BY <1>1, <1>3 DEF Sent
  <2>2. PICK q \in local[g].box : Same(q, upload.entries[g])
    BY <1>3 DEF UploadInv
  <2>3. upload.entries[g].op = "delete" => Gone(g)
    BY <2>1, <2>2 DEF RecordInv, Same, Gone
  <2> QED
    BY <2>1, <2>3, ChangeFacts
<1> HIDE DEF b
<1>4. BatchFits(b) /\ b.changes \subseteq Report
  BY <1>2, <1>3 DEF BatchFits
<1> QED
  BY <1>4 DEF b

-----------------------------------------------------------------------------
(* What the server does with a batch.                                      *)

(* A batch changes what the server observed of its own records alone, to    *)
(* what shows its changes, once, and takes no withdrawal back (Ingest).     *)
LEMMA IngestFacts ==
    ASSUME TypeInv, GoneInv, NEW b, b.changes \subseteq Report, BatchFits(b), Ingest(b)
    PROVE  /\ observations' \in [Games -> Observation \cup {Absent}]
           /\ \A g \in Games : observations'[g] # observations[g] =>
                 \E c \in b.changes : c.game = g /\ ~Seen(b) /\ Shows(observations'[g], c)
           /\ ~Seen(b) => \A c \in b.changes :
                 ~IsRefused(c) => Shows(observations'[c.game], c)
           /\ \A g \in Games : observations[g] # Absent /\ observations[g].withdrawn =>
                 observations'[g] # Absent /\ observations'[g].withdrawn
           /\ \A g \in Games : observations'[g] # Absent /\ observations'[g].withdrawn =>
                 Gone(g)
<1>1. observations \in [Games -> Observation \cup {Absent}]
  BY DEF TypeInv
<1>2. CASE Seen(b)
  BY <1>1, <1>2 DEF Ingest, GoneInv
<1>3. CASE ~Seen(b)
  <2> DEFINE taken == {c \in b.changes : ~IsRefused(c)}
             of(g) == CHOOSE c \in taken : c.game = g
  <2>1. observations' = [g \in Games |-> IF \E c \in taken : c.game = g
                                         THEN Observed(observations[g], of(g))
                                         ELSE observations[g]]
    BY <1>3 DEF Ingest
  <2>2. taken \subseteq b.changes
    OBVIOUS
  <2>3. ASSUME NEW c \in taken PROVE of(c.game) = c
    <3>1. \A d \in taken : d.game = c.game => d = c
      BY <2>2 DEF BatchFits
    <3> QED
      BY <3>1
  <2>4. \A c \in b.changes : ~IsRefused(c) => c \in taken
    OBVIOUS
  <2> HIDE DEF taken, of
  <2>5. ASSUME NEW g \in Games, NEW c \in taken, c.game = g
        PROVE  /\ observations'[g] = Observed(observations[g], c)
               /\ observations'[g] \in Observation \cup {Absent}
               /\ Shows(observations'[g], c)
               /\ observations[g] # Absent /\ observations[g].withdrawn =>
                     observations'[g] # Absent /\ observations'[g].withdrawn
               /\ observations'[g] # Absent /\ observations'[g].withdrawn => Gone(g)
    <3>1. observations'[g] = Observed(observations[g], c)
      BY <2>1, <2>3, <2>5
    <3>2. c \in Report /\ c \in b.changes /\ observations[g] \in Observation \cup {Absent}
      BY <1>1, <2>2
    <3>3. (observations[g] # Absent /\ observations[g].withdrawn) \/ c.withdraw => Gone(g)
      BY <2>5, <3>2 DEF GoneInv, BatchFits
    <3> QED
      BY <3>1, <3>2, <3>3, ObservedFacts
  <2>6. ASSUME NEW g \in Games, ~\E c \in taken : c.game = g
        PROVE  observations'[g] = observations[g]
    BY <2>1, <2>6
  <2>7. observations' \in [Games -> Observation \cup {Absent}]
    <3>1. \A g \in Games : observations'[g] \in Observation \cup {Absent}
      BY <1>1, <2>5, <2>6
    <3> QED
      BY <2>1, <3>1
  <2>8. \A c \in b.changes : c.game \in Games
    BY DEF Report
  <2>9. \A g \in Games : observations[g] # Absent /\ observations[g].withdrawn => Gone(g)
    BY DEF GoneInv
  <2> QED
    BY <1>3, <2>2, <2>4, <2>5, <2>6, <2>7, <2>8, <2>9
<1> QED
  BY <1>2, <1>3

-----------------------------------------------------------------------------
(* What happens to the queue of a record.                                  *)

\* Only when the queued changes are tried again is another.
Requeued(L, M) ==
    /\ (M.row = Absent) <=> (L.row = Absent)
    /\ L.row # Absent => M.row.payload = L.row.payload
    /\ \A e \in M.box : \E d \in L.box : Same(d, e)
    /\ \A d \in L.box : \E e \in M.box : Same(d, e)

(* The queue says the same when a change of it is only tried again later.  *)
LEMMA RequeuedFacts ==
    ASSUME NEW L \in Record, NEW M \in Record, RecordInv(L), Requeued(L, M)
    PROVE  /\ RecordInv(M)
           /\ (M.box = {}) <=> (L.box = {})
           /\ \A e : IsNewest(e, M.box) <=> IsNewest(e, L.box)
<1>1. \A e : IsNewest(e, M.box) <=> IsNewest(e, L.box)
  BY DEF Requeued, IsNewest, Same
<1>2. (M.box = {}) <=> (L.box = {})
  BY DEF Requeued
<1>3. ASSUME NEW e \in M.box
      PROVE  /\ e.id \in 1 .. MaxOutboxId
             /\ (e.op = "delete") <=> Deleted(e.snap.payload)
             /\ Deleted(e.snap.payload) => Deleted(M.row.payload)
             /\ IsNewest(e, M.box) => e.snap.payload = M.row.payload
  <2>1. PICK d \in L.box : Same(d, e)
    BY DEF Requeued
  <2>2. IsNewest(e, M.box) => IsNewest(d, L.box)
    BY <1>1, <2>1 DEF IsNewest, Same
  <2>3. L.row # Absent /\ M.row.payload = L.row.payload
    BY DEF RecordInv, Requeued
  <2> QED
    BY <2>1, <2>2, <2>3 DEF RecordInv, Same
<1>4. \A d, e \in M.box : d.id = e.id => Same(d, e)
  <2> SUFFICES ASSUME NEW d \in M.box, NEW e \in M.box, d.id = e.id PROVE Same(d, e)
    OBVIOUS
  <2>1. PICK d1 \in L.box : Same(d1, d)
    BY DEF Requeued
  <2>2. PICK e1 \in L.box : Same(e1, e)
    BY DEF Requeued
  <2>3. Same(d1, e1)
    BY <2>1, <2>2 DEF RecordInv, Same
  <2> QED
    BY <2>1, <2>2, <2>3 DEF Same
<1> QED
  BY <1>1, <1>2, <1>3, <1>4 DEF RecordInv, Requeued

(* Failures, retries and time only say when a change is tried again        *)
(* (record_failure, retry_failed).                                         *)
LEMMA RequeuedOps ==
    ASSUME NEW L \in Record, RecordInv(L)
    PROVE  /\ L \in Record /\ Requeued(L, L)
           /\ RetryFailedEntries(L) \in Record /\ Requeued(L, RetryFailedEntries(L))
           /\ \A ids, own : \A retry \in Retry :
                 LET M == RecordFailure(L, ids, own, retry)
                 IN  M \in Record /\ Requeued(L, M)
           /\ \A e \in L.box :
                 LET M == [L EXCEPT !.box = (@ \ {e}) \cup {[e EXCEPT !.retry = "due"]}]
                 IN  M \in Record /\ Requeued(L, M)
<1>1. ASSUME NEW e \in Entry, NEW retry \in Retry
      PROVE  [e EXCEPT !.retry = retry] \in Entry /\ Same(e, [e EXCEPT !.retry = retry])
  BY DEF Entry, Same
<1>2. \A e : Same(e, e)
  BY DEF Same
<1>r. \A retry \in Retry : retry \in {"due", "waiting", "never"}
  BY DEF Retry
<1>t. /\ L.box \in SUBSET Entry /\ L.row \in Row \cup {Absent}
      /\ Absent \notin Row /\ "due" \in Retry
  BY RecordAssumption DEF Record, Retry
<1>3. ASSUME NEW B \in SUBSET Entry, NEW r \in Row \cup {Absent},
             (r = Absent) <=> (L.row = Absent), L.row # Absent => r.payload = L.row.payload,
             \A e \in B : \E d \in L.box : Same(d, e),
             \A d \in L.box : \E e \in B : Same(d, e)
      PROVE  LET M == [L EXCEPT !.box = B, !.row = r] IN M \in Record /\ Requeued(L, M)
  BY <1>3 DEF Record, Requeued
<1>4. RetryFailedEntries(L) \in Record /\ Requeued(L, RetryFailedEntries(L))
  <2> DEFINE B == {[e EXCEPT !.retry = "due"] : e \in L.box}
             r == IF L.row # Absent /\ L.row.status = "failed"
                  THEN [L.row EXCEPT !.status = "pending"] ELSE L.row
  <2>1. B \in SUBSET Entry /\ (\A e \in B : \E d \in L.box : Same(d, e))
        /\ (\A d \in L.box : \E e \in B : Same(d, e))
    BY <1>1, <1>t
  <2>2. r \in Row \cup {Absent} /\ ((r = Absent) <=> (L.row = Absent))
        /\ (L.row # Absent => r.payload = L.row.payload)
    BY <1>t DEF Row
  <2>3. RetryFailedEntries(L) = [L EXCEPT !.box = B, !.row = r]
    BY DEF RetryFailedEntries, Record
  <2> HIDE DEF B, r
  <2> QED
    BY <1>3, <2>1, <2>2, <2>3
<1>5. ASSUME NEW ids, NEW own, NEW retry \in Retry
      PROVE  LET M == RecordFailure(L, ids, own, retry) IN M \in Record /\ Requeued(L, M)
  <2> DEFINE mine == \E e \in L.box : e.id \in own
             new(e) == IF e.id \in ids THEN [e EXCEPT !.retry = retry] ELSE e
             B == {new(e) : e \in L.box}
             r == IF mine /\ L.row.status # "conflict"
                  THEN [L.row EXCEPT !.status = IF retry = "never" THEN "failed" ELSE "pending"]
                  ELSE L.row
  <2>0. \A e \in L.box : new(e) \in Entry /\ Same(e, new(e))
    BY <1>1, <1>2, <1>t
  <2>1. B \in SUBSET Entry /\ (\A e \in B : \E d \in L.box : Same(d, e))
        /\ (\A d \in L.box : \E e \in B : Same(d, e))
    <3> HIDE DEF new
    <3> QED
      BY <2>0
  <2>2. mine => L.row # Absent
    BY DEF RecordInv
  <2> HIDE DEF mine
  <2>3. r \in Row \cup {Absent} /\ ((r = Absent) <=> (L.row = Absent))
        /\ (L.row # Absent => r.payload = L.row.payload)
    BY <1>t, <2>2 DEF Row
  <2>4. RecordFailure(L, ids, own, retry) = [L EXCEPT !.box = B, !.row = r]
    BY DEF RecordFailure, Record, mine
  <2> HIDE DEF B, r
  <2> QED
    BY <1>3, <2>1, <2>3, <2>4
<1>6. ASSUME NEW e \in L.box
      PROVE  LET M == [L EXCEPT !.box = (@ \ {e}) \cup {[e EXCEPT !.retry = "due"]}]
             IN  M \in Record /\ Requeued(L, M)
  <2> DEFINE B == (L.box \ {e}) \cup {[e EXCEPT !.retry = "due"]}
  <2> DEFINE new == [e EXCEPT !.retry = "due"]
  <2>0. new \in Entry /\ Same(e, new)
    BY <1>1, <1>t
  <2>1. B \in SUBSET Entry /\ (\A f \in B : \E d \in L.box : Same(d, f))
        /\ (\A d \in L.box : \E f \in B : Same(d, f))
    <3>1. B = (L.box \ {e}) \cup {new}
      OBVIOUS
    <3> HIDE DEF new, B
    <3> QED
      BY <1>2, <1>t, <2>0, <3>1
  <2>2. [L EXCEPT !.box = (@ \ {e}) \cup {[e EXCEPT !.retry = "due"]}]
            = [L EXCEPT !.box = B, !.row = L.row]
    BY DEF Record
  <2> HIDE DEF B
  <2> QED
    BY <1>3, <1>t, <2>1, <2>2
<1>7. Requeued(L, L)
  BY <1>2 DEF Requeued
<1> QED
  BY <1>4, <1>5, <1>6, <1>7

(* What is taken off the queue leaves what is newer.                       *)
LEMMA AcknowledgedFacts ==
    ASSUME NEW L \in Record, RecordInv(L), NEW e \in Entry, \E q \in L.box : Same(q, e)
    PROVE  LET M == Acknowledge(L, e, NoVersion)
           IN  /\ M \in Record /\ RecordInv(M)
               /\ L.row # Absent /\ M.row # Absent /\ M.row.payload = L.row.payload
               /\ M.box = {} => IsNewest(e, L.box)
<1> DEFINE M == Acknowledge(L, e, NoVersion)
           B == {q \in L.box : q.id > e.id}
<1>1. PICK q \in L.box : Same(q, e)
  OBVIOUS
<1>2. L.row \in Row /\ L.box \in SUBSET Entry /\ Absent \notin Row /\ e.snap.payload \in Payload
  BY RecordAssumption DEF Record, RecordInv, Entry, Row
<1>3. /\ M \in Record /\ M.box = B /\ M.row # Absent /\ M.row.payload = L.row.payload
  <2> DEFINE s == IF B = {} THEN "synced" ELSE "pending"
             row == [L.row EXCEPT !.status = s, !.rv = @, !.base = e.snap.payload]
  <2>1. \E x \in L.box : x.id = e.id /\ x.snap = e.snap
    BY <1>1 DEF Same
  <2>2. M = [row |-> row, box |-> B, conflict |-> L.conflict]
    BY <2>1 DEF Acknowledge, Record, NoVersion
  <2>3. s \in {"synced", "pending"} /\ B \in SUBSET Entry
    BY <1>2
  <2> HIDE DEF M, B, s
  <2>4. row \in Row /\ row.payload = L.row.payload
    BY <1>2, <2>3 DEF Row
  <2> HIDE DEF row
  <2> QED
    BY <1>2, <2>2, <2>3, <2>4 DEF Record
<1>5. \A d \in L.box : d.id \in Nat
  BY <1>2 DEF Entry
<1>6. M.box = {} => IsNewest(e, L.box)
  BY <1>3, <1>5 DEF IsNewest, Entry
<1>7. ASSUME NEW d \in B, IsNewest(d, B) PROVE IsNewest(d, L.box)
  <2>1. d.id \in Nat /\ e.id \in Nat /\ d.id > e.id
    BY <1>5 DEF Entry
  <2>2. ASSUME NEW k \in L.box PROVE k.id <= d.id
    <3>1. CASE k.id > e.id
      BY <1>7, <3>1 DEF IsNewest
    <3>2. CASE ~(k.id > e.id)
      BY <1>5, <2>1, <3>2
    <3> QED
      BY <3>1, <3>2
  <2> QED
    BY <2>2 DEF IsNewest
<1> HIDE DEF M
<1>8. RecordInv(M)
  BY <1>3, <1>7 DEF RecordInv
<1> QED
  BY <1>2, <1>3, <1>6, <1>8 DEF M

-----------------------------------------------------------------------------
(* The steps.                                                              *)

\* The newest queued change there is.
LEMMA LargestExists ==
    ASSUME NEW N \in Nat, NEW S, S # {}, S \subseteq 1..N
    PROVE  \E m \in S : \A n \in S : n <= m
<1> DEFINE Above(n) == n .. N
           T == {Above(n) : n \in S}
<1>1. IsWellFoundedOn(StrictSubsetOrdering(1..N), SUBSET (1..N))
  <2>1. IsFiniteSet(1..N)
    BY FS_Interval
  <2>2. FiniteSubsetsOf(1..N) = SUBSET (1..N)
    BY <2>1, FS_FiniteSubsetsOfFinite
  <2>3. IsWellFoundedOn(StrictSubsetOrdering(1..N), FiniteSubsetsOf(1..N))
    BY FS_StrictSubsetOrderingWellFounded, Zenon
  <2> QED
    BY <2>2, <2>3, Zenon
<1>2. T \subseteq SUBSET (1..N) /\ T # {}
  <2>1. ASSUME NEW n \in S
        PROVE  Above(n) \in SUBSET (1..N)
    <3>1. n \in Nat /\ 1 <= n
      OBVIOUS
    <3> QED
      BY <3>1
  <2> HIDE DEF Above
  <2> QED
    BY <2>1
<1> HIDE DEF T
<1>3. PICK x \in T : \A y \in T : ~ (<<y, x>> \in StrictSubsetOrdering(1..N))
  BY <1>1, <1>2, WFMin
<1> USE DEF T
<1>4. PICK m \in S : x = Above(m)
  OBVIOUS
<1>5. \A n \in S : n <= m
  <2> SUFFICES ASSUME NEW n \in S, n > m
               PROVE  FALSE
    OBVIOUS
  <2>1. Above(n) \subseteq Above(m) /\ Above(n) # Above(m)
    OBVIOUS
  <2>2. Above(n) \in SUBSET (1..N) /\ Above(m) \in SUBSET (1..N)
    OBVIOUS
  <2> HIDE DEF Above
  <2>3. <<Above(n), Above(m)>> \in StrictSubsetOrdering(1..N)
    BY <2>1, <2>2 DEF StrictSubsetOrdering
  <2> QED
    BY <2>3, <1>3, <1>4
<1> QED
  BY <1>5

(* A queue that is not empty has a newest change (Newest).                 *)
LEMMA NewestExists ==
    ASSUME NEW L, RecordInv(L), L.box # {}
    PROVE  Newest(L.box) \in L.box /\ IsNewest(Newest(L.box), L.box)
<1> DEFINE S == {e.id : e \in L.box}
<1>1. S # {} /\ S \subseteq 1 .. MaxOutboxId /\ MaxOutboxId \in Nat
  BY GuestAssumption DEF RecordInv
<1>2. \E m \in S : \A n \in S : n <= m
  BY <1>1, LargestExists
<1>3. \E m \in L.box : \A e \in L.box : e.id <= m.id
  BY <1>2
<1> QED
  BY <1>3 DEF Newest, IsNewest

\* What the steps below have in common: the records stay what they are, and what
\* nobody waits for any more is what was being uploaded.
Quiet ==
    /\ local' \in [Games -> Record]
    /\ \A g \in Games : Requeued(local[g], local'[g])
    /\ upload' = upload \/ upload' = Idle
    /\ \A b \in late' : b \in late \/ (upload.busy /\ b = BatchOf(upload.entries))
    /\ UNCHANGED server

(* No upload is an upload (Idle).                                          *)
LEMMA IdleType ==
    /\ Idle \in [busy : BOOLEAN, entries : [Games -> Entry \cup {Absent}],
                 reply : [rejected : BOOLEAN] \cup {Absent}]
    /\ Idle.busy = FALSE
BY DEF Idle

(* A quiet step keeps the invariant.                                       *)
LEMMA QuietStep == ASSUME GuestInv, Quiet PROVE GuestInv'
<1>1. /\ local \in [Games -> Record] /\ \A g \in Games : RecordInv(local[g])
      /\ \A g \in Games : local[g] \in Record /\ local'[g] \in Record
  BY DEF GuestInv, TypeInv, Quiet
<1>2. ASSUME NEW g \in Games
      PROVE  /\ RecordInv(local'[g]) /\ ((local'[g].box = {}) <=> (local[g].box = {}))
             /\ \A e : IsNewest(e, local'[g].box) <=> IsNewest(e, local[g].box)
             /\ (local'[g].row = Absent) <=> (local[g].row = Absent)
             /\ local[g].row # Absent => local'[g].row.payload = local[g].row.payload
             /\ Gone(g)' <=> Gone(g)
  <2>1. local[g] \in Record /\ local'[g] \in Record /\ RecordInv(local[g])
        /\ Requeued(local[g], local'[g])
    BY <1>1 DEF Quiet
  <2> QED
    BY <2>1, RequeuedFacts DEF Requeued, Gone
<1>3. TypeInv'
  <2>1. \A b \in late' : b.changes \subseteq Report
    BY UploadFits DEF Quiet, GuestInv, TypeInv
  <2> QED
    BY <2>1, IdleType DEF Quiet, GuestInv, TypeInv, server
<1>4. UploadInv'
  <2> SUFFICES ASSUME upload' = upload, upload.busy, NEW g \in Sent(upload.entries)
               PROVE  \E q \in local'[g].box : Same(q, upload.entries[g])
    BY IdleType DEF Quiet, UploadInv
  <2>1. g \in Games /\ \E q \in local[g].box : Same(q, upload.entries[g])
    BY DEF GuestInv, UploadInv, Sent
  <2> QED
    BY <2>1 DEF Quiet, Requeued, Same
<1>5. GoneInv'
  <2>1. ASSUME NEW b \in late' PROVE BatchFits(b)'
    <3>1. BatchFits(b) /\ b.changes \subseteq Report
      BY UploadFits DEF Quiet, GuestInv, TypeInv, GoneInv
    <3> QED
      BY <1>2, <3>1 DEF BatchFits, Report
  <2>2. \A g \in Games : observations'[g] # Absent /\ observations'[g].withdrawn => Gone(g)'
    BY <1>2 DEF Quiet, server, GuestInv, GoneInv
  <2> QED
    BY <2>1, <2>2 DEF GoneInv
<1>6. ReplyInv'
  <2> SUFFICES ASSUME upload' = upload, upload.busy, upload.reply # Absent,
                      ~upload.reply.rejected, NEW g \in Sent(upload.entries),
                      IsNewest(upload.entries[g], local'[g].box)
               PROVE  g \in outrun' \/ Shows(observations'[g], Change(g, upload.entries[g]))
    BY IdleType DEF Quiet, ReplyInv
  <2>1. g \in Games
    BY DEF Sent
  <2> QED
    BY <1>2, <2>1 DEF Quiet, server, GuestInv, ReplyInv
<1>7. UploadsAreReflected'
  BY <1>2 DEF Quiet, server, GuestInv, UploadsAreReflected, Settled, Reflects
<1> QED
  BY <1>2, <1>3, <1>4, <1>5, <1>6, <1>7 DEF GuestInv

(* A failed upload leaves its changes queued (record_failure).             *)
LEMMA FailedIsQuiet ==
    ASSUME GuestInv, NEW retry \in Retry
    PROVE  /\ Failed(retry) \in [Games -> Record]
           /\ \A g \in Games : Requeued(local[g], Failed(retry)[g])
<1> DEFINE own(g) == IF upload.entries[g] = Absent THEN {} ELSE {upload.entries[g].id}
           ids == {upload.entries[g].id : g \in Sent(upload.entries)}
<1>1. Failed(retry) = [g \in Games |-> RecordFailure(local[g], ids, own(g), retry)]
  BY DEF Failed
<1>2. ASSUME NEW g \in Games
      PROVE  /\ RecordFailure(local[g], ids, own(g), retry) \in Record
             /\ Requeued(local[g], RecordFailure(local[g], ids, own(g), retry))
  <2>1. local[g] \in Record /\ RecordInv(local[g])
    BY DEF GuestInv, TypeInv
  <2> HIDE DEF ids, own
  <2> QED
    BY <2>1, RequeuedOps
<1> HIDE DEF ids, own
<1> QED
  BY <1>1, <1>2

(* Retries, failures and crashes are quiet.                                *)
LEMMA QuietSteps ==
    ASSUME GuestInv,
           \/ RetryFailed \/ FailUpload \/ RejectUpload \/ Crash
           \/ \E g \in Games : \E e \in local[g].box : Elapse(g, e)
           \/ ReceiveUpload /\ upload.reply.rejected
    PROVE  Quiet
<1>1. \A g \in Games : local[g] \in Record /\ RecordInv(local[g])
  BY DEF GuestInv, TypeInv
<1>2. local \in [Games -> Record] /\ {"due", "waiting", "never"} \subseteq Retry
  BY DEF GuestInv, TypeInv, Retry
<1>3. \A g \in Games : Requeued(local[g], local[g])
  BY <1>1, RequeuedOps
<1>4. CASE RetryFailed
  <2>1. local' = [g \in Games |-> RetryFailedEntries(local[g])]
    BY <1>4 DEF RetryFailed
  <2>2. \A g \in Games : local'[g] \in Record /\ Requeued(local[g], local'[g])
    BY <1>1, <2>1, RequeuedOps
  <2> QED
    BY <1>4, <2>1, <2>2 DEF RetryFailed, Quiet, server
<1>5. ASSUME NEW g \in Games, NEW e \in local[g].box, Elapse(g, e) PROVE Quiet
  <2> DEFINE M == [local[g] EXCEPT !.box = (@ \ {e}) \cup {[e EXCEPT !.retry = "due"]}]
  <2>1. M \in Record /\ Requeued(local[g], M)
    BY <1>1, RequeuedOps
  <2>2. local' = [local EXCEPT ![g] = M]
    BY <1>5 DEF Elapse
  <2> HIDE DEF M
  <2>3. local' \in [Games -> Record] /\ \A h \in Games : Requeued(local[h], local'[h])
    BY <1>2, <1>3, <2>1, <2>2
  <2> QED
    BY <1>5, <2>3 DEF Elapse, Quiet, server
<1>6. CASE FailUpload \/ RejectUpload \/ (ReceiveUpload /\ upload.reply.rejected)
  <2>1. \E retry \in Retry : local' = Failed(retry)
    BY <1>2, <1>6 DEF FailUpload, RejectUpload, ReceiveUpload, AfterRefusal
  <2>2. local' \in [Games -> Record] /\ \A g \in Games : Requeued(local[g], local'[g])
    BY <2>1, FailedIsQuiet
  <2> QED
    BY <1>6, <2>2 DEF FailUpload, RejectUpload, ReceiveUpload, MayArriveLate, Quiet, server
<1>7. CASE Crash
  BY <1>2, <1>3, <1>7 DEF Crash, MayArriveLate, Quiet, server
<1> QED
  BY <1>4, <1>5, <1>6, <1>7

(* Saving a record queues the row as it is now (Save).                     *)
LEMMA SaveStep ==
    ASSUME GuestInv, NEW g \in Games, NEW p \in Payload, NEW op \in {"upsert", "delete"},
           Save(g, p, op), (op = "delete") <=> Deleted(p), ~Gone(g)
    PROVE  GuestInv'
<1> DEFINE base == IF local[g].row = Absent THEN Absent ELSE local[g].row.base
           r == [payload |-> p, rv |-> NoVersion, base |-> base, status |-> "pending"]
<1>0. PICK id \in 1 .. MaxOutboxId :
         IsNextIdOf(local, id) /\ local' = [local EXCEPT ![g] = Enqueue(local[g], r, op, id)]
  BY DEF Save
<1> DEFINE new == NewEntry(op, r, id)
           M == Enqueue(local[g], r, op, id)
<1>1. /\ local \in [Games -> Record] /\ \A h \in Games : local[h] \in Record /\ RecordInv(local[h])
      /\ UNCHANGED <<upload, late, observations, batches, outrun>>
  BY DEF GuestInv, TypeInv, Save, server
<1>2. r \in Row /\ r.payload = p /\ Absent \notin Row
  <2>1. base \in Payload \cup {Absent}
    BY <1>1, RecordAssumption DEF Record, Row
  <2> HIDE DEF base
  <2>2. r \in Row /\ r.payload = p
    BY <2>1 DEF Row, NoVersion
  <2> QED
    BY <2>2, RecordAssumption
<1>3. id \in Nat
  OBVIOUS
<1>4. /\ new \in Entry /\ new.id = id /\ new.op = op /\ new.snap = r
  <2> HIDE DEF r
  <2> QED
    BY <1>2, <1>3 DEF NewEntry, Entry, Retry
<1>5. M.row = r /\ M.box = local[g].box \cup {new} /\ M \in Record
  <2>1. M = [local[g] EXCEPT !.row = r, !.box = @ \cup {new}]
    BY DEF Enqueue
  <2> HIDE DEF M, new, r
  <2> QED
    BY <1>1, <1>2, <1>4, <2>1 DEF Record
<1>6. \A e \in local[g].box : e.id < id /\ e.id \in Nat
  <2>1. \A e \in local[g].box : e \in QueuedIn(local)
    BY <1>1 DEF QueuedIn
  <2> QED
    BY <1>0, <1>1, <2>1 DEF IsNextIdOf, Record, Entry
<1>7. local'[g] = M /\ \A h \in Games : h # g => local'[h] = local[h]
  BY <1>0, <1>1
<1>8. local' \in [Games -> Record]
  BY <1>0, <1>1, <1>5
<1> HIDE DEF M, new, r
<1>9. \A e \in local[g].box : ~IsNewest(e, M.box) /\ ~Deleted(e.snap.payload)
  BY <1>1, <1>4, <1>5, <1>6 DEF IsNewest, RecordInv, Gone
<1>10. RecordInv(M)
  <2>1. \A e \in M.box :
           /\ e.id \in 1 .. MaxOutboxId
           /\ (e.op = "delete") <=> Deleted(e.snap.payload)
           /\ Deleted(e.snap.payload) => Deleted(M.row.payload)
           /\ IsNewest(e, M.box) => e.snap.payload = M.row.payload
    BY <1>1, <1>2, <1>4, <1>5, <1>9 DEF RecordInv
  <2>2. \A d, e \in M.box : d.id = e.id => Same(d, e)
    BY <1>1, <1>4, <1>5, <1>6 DEF RecordInv, Same
  <2> QED
    BY <1>2, <1>5, <2>1, <2>2 DEF RecordInv
<1>11. \A h \in Games : RecordInv(local'[h])
  BY <1>1, <1>7, <1>10
<1>12. \A h \in Games : Gone(h) => Gone(h)'
  BY <1>7 DEF Gone
<1>13. TypeInv'
  BY <1>1, <1>8 DEF GuestInv, TypeInv
<1>14. UploadInv'
  BY <1>1, <1>5, <1>7 DEF GuestInv, UploadInv, Sent
<1>15. GoneInv'
  BY <1>1, <1>12 DEF GuestInv, TypeInv, GoneInv, BatchFits, Report
<1>16. ReplyInv'
  <2> SUFFICES ASSUME upload.busy, upload.reply # Absent, ~upload.reply.rejected,
                      NEW h \in Sent(upload.entries), IsNewest(upload.entries[h], local'[h].box)
               PROVE  h \in outrun \/ Shows(observations[h], Change(h, upload.entries[h]))
    BY <1>1 DEF ReplyInv
  <2>1. h \in Games /\ \E q \in local[h].box : Same(q, upload.entries[h])
    BY DEF GuestInv, UploadInv, Sent
  <2>2. h # g
    <3> SUFFICES ASSUME h = g PROVE FALSE
      OBVIOUS
    <3>1. upload.entries[h].id < id /\ upload.entries[h].id \in Nat
      BY <1>6, <2>1 DEF Same
    <3>2. id <= upload.entries[h].id
      BY <1>4, <1>5, <1>7 DEF IsNewest
    <3> QED
      BY <1>3, <3>1, <3>2
  <2> QED
    BY <1>7, <2>1, <2>2 DEF GuestInv, ReplyInv
<1>17. UploadsAreReflected'
  <2>1. local'[g].box # {}
    BY <1>5, <1>7
  <2> QED
    BY <1>1, <1>7, <2>1 DEF GuestInv, UploadsAreReflected, Settled, Reflects
<1> QED
  BY <1>11, <1>13, <1>14, <1>15, <1>16, <1>17 DEF GuestInv

(* What the user does keeps the invariant.                                 *)
LEMMA UserStep == ASSUME GuestInv, NEW g \in Games, User(g) PROVE GuestInv'
<1>1. CASE InsertGame(g)
  <2>1. PICK p \in Payload : ~Deleted(p) /\ Save(g, p, "upsert")
    BY <1>1 DEF InsertGame
  <2>2. ~Gone(g)
    BY <1>1 DEF InsertGame, Gone
  <2> QED
    BY <2>1, <2>2, SaveStep
<1>2. ASSUME Editable(g)
      PROVE  local[g].row \in Row /\ local[g].row.payload \in Payload /\ ~Gone(g)
             /\ ~Deleted(local[g].row.payload)
  BY <1>2 DEF Editable, Gone, GuestInv, TypeInv, Record, Row
<1>3. CASE UpdateGame(g)
  <2>1. PICK f \in Fields, v \in Values :
           Save(g, [local[g].row.payload EXCEPT ![f] = v], "upsert")
    BY <1>3 DEF UpdateGame
  <2>2. \A p \in Payload : LET q == [p EXCEPT ![f] = v]
                           IN  q \in Payload /\ q[DeletedAt] = p[DeletedAt]
    BY FieldsAssumption DEF Payload, Columns
  <2> DEFINE q == [local[g].row.payload EXCEPT ![f] = v]
  <2>3. q \in Payload /\ ~Deleted(q) /\ ~Gone(g)
    BY <1>2, <1>3, <2>2 DEF UpdateGame, Deleted
  <2>4. Save(g, q, "upsert")
    BY <2>1
  <2> HIDE DEF q
  <2> QED
    BY <2>3, <2>4, SaveStep
<1>4. CASE DeleteGame(g)
  <2>1. \A p \in Payload : LET q == [p EXCEPT ![DeletedAt] = AtDevice]
                           IN  q \in Payload /\ q[DeletedAt] = AtDevice
    BY FieldsAssumption DEF Payload, Columns, Stamps
  <2> DEFINE q == [local[g].row.payload EXCEPT ![DeletedAt] = AtDevice]
  <2>2. q \in Payload /\ Deleted(q) /\ ~Gone(g)
    BY <1>2, <1>4, <2>1 DEF DeleteGame, Deleted, AtDevice, NotDeleted
  <2>3. Save(g, q, "delete")
    BY <1>4 DEF DeleteGame
  <2> HIDE DEF q
  <2> QED
    BY <2>2, <2>3, SaveStep
<1> QED
  BY <1>1, <1>3, <1>4 DEF User

(* An upload takes the newest queued changes (_push_guest).                *)
LEMMA StartStep == ASSUME GuestInv, StartUpload PROVE GuestInv'
<1> DEFINE due == DueChanges(local, BatchSize)
<1>1. /\ local \in [Games -> Record] /\ \A h \in Games : local[h] \in Record /\ RecordInv(local[h])
      /\ UNCHANGED <<local, late, observations, batches, outrun>>
  BY DEF GuestInv, TypeInv, StartUpload, server
<1>2. ASSUME NEW g \in Games, Due(local[g])
      PROVE  LET e == [Newest(local[g].box) EXCEPT !.retry = "due"]
             IN  e \in Entry /\ \E q \in local[g].box : Same(q, e)
  <2>1. Newest(local[g].box) \in local[g].box /\ Newest(local[g].box) \in Entry
    BY <1>1, <1>2, NewestExists DEF Due, Record
  <2>2. \A e \in Entry : LET d == [e EXCEPT !.retry = "due"] IN d \in Entry /\ Same(e, d)
    BY DEF Entry, Retry, Same
  <2> QED
    BY <2>1, <2>2
<1>3. /\ due \in [Games -> Entry \cup {Absent}]
      /\ \A g \in Games : due[g] # Absent => \E q \in local[g].box : Same(q, due[g])
  <2> DEFINE taken == {g \in {h \in DOMAIN local : Due(local[h])} :
                         Cardinality({h \in {k \in DOMAIN local : Due(local[k])} :
                             Newest(local[h].box).id < Newest(local[g].box).id}) < BatchSize}
  <2>1. due = [g \in Games |-> IF g \in taken
                               THEN [Newest(local[g].box) EXCEPT !.retry = "due"] ELSE Absent]
    BY <1>1 DEF DueChanges
  <2>2. \A g \in taken : g \in Games /\ Due(local[g])
    BY <1>1
  <2> HIDE DEF taken, due
  <2> QED
    BY <1>2, <2>1, <2>2
<1> HIDE DEF due
<1>4. /\ upload' = [Idle EXCEPT !.busy = TRUE, !.entries = due]
  BY DEF StartUpload, due
<1>5. /\ upload'.entries = due /\ upload'.reply = Absent
      /\ upload' \in [busy : BOOLEAN, entries : [Games -> Entry \cup {Absent}],
                      reply : [rejected : BOOLEAN] \cup {Absent}]
  BY <1>3, <1>4 DEF Idle
<1>6. TypeInv'
  BY <1>1, <1>5 DEF GuestInv, TypeInv
<1>7. UploadInv'
  BY <1>1, <1>3, <1>5 DEF UploadInv, Sent
<1>8. ReplyInv'
  BY <1>5 DEF ReplyInv
<1>9. GoneInv' /\ UploadsAreReflected'
  BY <1>1 DEF GuestInv, TypeInv, GoneInv, BatchFits, Report, Gone, UploadsAreReflected,
              Settled, Reflects
<1> QED
  BY <1>1, <1>6, <1>7, <1>8, <1>9 DEF GuestInv

(* An observation that shows the newest change reflects the record.        *)
LEMMA ShowsReflects ==
    ASSUME NEW o \in Observation \cup {Absent}, NEW c \in Report, NEW p \in Payload,
           c.payload = LivePayload(p), c.withdraw <=> Deleted(p), Shows(o, c),
           o # Absent /\ o.withdrawn => Deleted(p)
    PROVE  IF Deleted(p) THEN o = Absent \/ o.withdrawn
           ELSE o = [payload |-> p, withdrawn |-> FALSE]
<1>1. CASE Deleted(p)
  <2> SUFFICES ASSUME o # Absent PROVE o.withdrawn
    BY <1>1
  <2>1. [o EXCEPT !.withdrawn = TRUE] = o
    BY <1>1 DEF Shows, Observed
  <2>2. [o EXCEPT !.withdrawn = TRUE].withdrawn = TRUE
    BY DEF Observation
  <2> QED
    BY <2>1, <2>2
<1>2. CASE ~Deleted(p)
  <2>1. LivePayload(p) = p
    BY <1>2 DEF LivePayload, Deleted, Payload
  <2>2. o = [payload |-> p, withdrawn |-> o # Absent /\ o.withdrawn]
    BY <1>2, <2>1 DEF Shows, Observed
  <2>3. (o # Absent /\ o.withdrawn) = FALSE
    BY <1>2
  <2> QED
    BY <1>2, <2>2, <2>3
<1> QED
  BY <1>1, <1>2

(* An answer that rejects nothing takes what was uploaded off the queue;   *)
(* a record with nothing left then shows on the server (acknowledge).      *)
LEMMA ReceiveStep ==
    ASSUME GuestInv, ReceiveUpload, ~upload.reply.rejected PROVE GuestInv'
<1>1. /\ local \in [Games -> Record] /\ \A h \in Games : local[h] \in Record /\ RecordInv(local[h])
      /\ upload.entries \in [Games -> Entry \cup {Absent}] /\ upload.busy
      /\ upload.reply # Absent
      /\ observations \in [Games -> Observation \cup {Absent}]
      /\ UNCHANGED <<late, observations, batches, outrun>> /\ upload' = Idle
      /\ local' = [g \in Games |-> IF upload.entries[g] = Absent THEN local[g]
                                   ELSE Acknowledge(local[g], upload.entries[g], NoVersion)]
  BY DEF GuestInv, TypeInv, ReceiveUpload, server
<1>2. ASSUME NEW g \in Games, upload.entries[g] = Absent PROVE local'[g] = local[g]
  BY <1>1, <1>2
<1>3. ASSUME NEW g \in Games, upload.entries[g] # Absent
      PROVE  /\ upload.entries[g] \in Entry /\ \E q \in local[g].box : Same(q, upload.entries[g])
             /\ local'[g] \in Record /\ RecordInv(local'[g])
             /\ local[g].row # Absent /\ local'[g].row # Absent
             /\ local'[g].row.payload = local[g].row.payload
             /\ local'[g].box = {} => IsNewest(upload.entries[g], local[g].box)
  <2>1. upload.entries[g] \in Entry /\ \E q \in local[g].box : Same(q, upload.entries[g])
    BY <1>1, <1>3 DEF GuestInv, UploadInv, Sent
  <2>2. local'[g] = Acknowledge(local[g], upload.entries[g], NoVersion)
    BY <1>1, <1>3
  <2> QED
    BY <1>1, <2>1, <2>2, AcknowledgedFacts
<1>4. \A g \in Games : local'[g] \in Record /\ RecordInv(local'[g]) /\ (Gone(g) => Gone(g)')
  BY <1>1, <1>2, <1>3 DEF Gone
<1>5. TypeInv'
  <2>1. local' \in [Games -> Record]
    BY <1>1, <1>4
  <2> QED
    BY <1>1, <2>1, IdleType DEF GuestInv, TypeInv
<1>6. UploadInv' /\ ReplyInv'
  BY <1>1, IdleType DEF UploadInv, ReplyInv
<1>7. GoneInv'
  BY <1>1, <1>4 DEF GuestInv, TypeInv, GoneInv, BatchFits, Report
<1>8. ASSUME NEW g \in Games, Settled(g)' PROVE g \in outrun \/ Reflects(g)'
  <2>1. CASE upload.entries[g] = Absent
    BY <1>1, <1>2, <1>8, <2>1 DEF GuestInv, UploadsAreReflected, Settled, Reflects
  <2>2. CASE upload.entries[g] # Absent
    <3> DEFINE e == upload.entries[g]
    <3>1. IsNewest(e, local[g].box) /\ e \in Entry
      BY <1>3, <1>8, <2>2 DEF Settled
    <3>2. g \in outrun \/ Shows(observations[g], Change(g, e))
      BY <1>1, <2>2, <3>1 DEF GuestInv, ReplyInv, Sent
    <3>3. PICK q \in local[g].box : Same(q, e)
      BY <1>3, <2>2
    <3> HIDE DEF e
    <3>4. IsNewest(q, local[g].box)
      BY <3>1, <3>3 DEF IsNewest, Same
    <3>5. /\ local[g].row.payload = e.snap.payload
          /\ (e.op = "delete") <=> Deleted(local[g].row.payload)
      BY <1>1, <3>3, <3>4 DEF RecordInv, Same
    <3>6. local[g].row.payload \in Payload
      BY <3>1, <3>5 DEF Entry, Row
    <3>7. observations[g] # Absent /\ observations[g].withdrawn => Deleted(local[g].row.payload)
      BY DEF GuestInv, GoneInv, Gone
    <3>8. ASSUME Shows(observations[g], Change(g, e))
          PROVE  LET p == local[g].row.payload
                     o == observations[g]
                 IN  IF Deleted(p) THEN o = Absent \/ o.withdrawn
                     ELSE o = [payload |-> p, withdrawn |-> FALSE]
      <4>1. /\ Change(g, e) \in Report
            /\ Change(g, e).withdraw = (e.op = "delete")
            /\ Change(g, e).payload = LivePayload(e.snap.payload)
        BY <3>1, ChangeFacts
      <4>2. PICK c \in Report : c = Change(g, e)
        BY <4>1
      <4>3. PICK p \in Payload : p = local[g].row.payload
        BY <3>6
      <4>4. PICK o \in Observation \cup {Absent} : o = observations[g]
        BY <1>1
      <4>5. c.payload = LivePayload(p)
        BY <3>5, <4>1, <4>2, <4>3
      <4>6. c.withdraw <=> Deleted(p)
        BY <3>5, <4>1, <4>2, <4>3
      <4>7. Shows(o, c)
        BY <3>8, <4>2, <4>4
      <4>8. o # Absent /\ o.withdrawn => Deleted(p)
        BY <3>7, <4>3, <4>4
      <4>9. IF Deleted(p) THEN o = Absent \/ o.withdrawn
            ELSE o = [payload |-> p, withdrawn |-> FALSE]
        BY <4>5, <4>6, <4>7, <4>8, ShowsReflects
      <4> QED
        BY <4>3, <4>4, <4>9
    <3> QED
      BY <1>1, <1>3, <2>2, <3>2, <3>8 DEF Reflects
  <2> QED
    BY <2>1, <2>2
<1>9. UploadsAreReflected'
  BY <1>1, <1>8 DEF UploadsAreReflected
<1> QED
  BY <1>4, <1>5, <1>6, <1>7, <1>9 DEF GuestInv

(* What the server does keeps what the device has.                         *)
LEMMA ServerGoneStep ==
    ASSUME GuestInv, local' = local, late' \subseteq late,
           \A g \in Games : observations'[g] # Absent /\ observations'[g].withdrawn => Gone(g)
    PROVE  GoneInv'
BY DEF GuestInv, GoneInv, BatchFits, Gone

(* The server takes, or passes over, the batch the device waits for.       *)
LEMMA IngestStep == ASSUME GuestInv, ServerIngest PROVE GuestInv'
<1> DEFINE b == BatchOf(upload.entries)
<1>1. /\ upload.busy /\ upload.reply = Absent /\ Ingest(b) /\ UNCHANGED <<local, late>>
      /\ outrun' = (IF Seen(b) THEN outrun ELSE outrun \ GamesOf(b.changes))
                   \cup GamesOf(Swallowed(b))
      /\ upload' = [upload EXCEPT !.reply = [rejected |-> AnyRefused(FirstTaken(b))]]
      /\ upload.entries \in [Games -> Entry \cup {Absent}]
  BY DEF ServerIngest, GuestInv, TypeInv
<1>2. /\ b.changes = {Change(g, upload.entries[g]) : g \in Sent(upload.entries)}
      /\ b.changes \subseteq Report /\ BatchFits(b) /\ TypeInv /\ GoneInv
  BY <1>1, UploadFits DEF GuestInv, BatchOf, Changes
<1> HIDE DEF b
<1>3. /\ observations' \in [Games -> Observation \cup {Absent}]
      /\ \A g \in Games : observations'[g] # observations[g] =>
            \E c \in b.changes : c.game = g /\ ~Seen(b) /\ Shows(observations'[g], c)
      /\ ~Seen(b) => \A c \in b.changes : ~IsRefused(c) => Shows(observations'[c.game], c)
      /\ \A g \in Games : observations'[g] # Absent /\ observations'[g].withdrawn => Gone(g)
  BY <1>1, <1>2, IngestFacts
<1>4. /\ upload'.busy /\ upload'.entries = upload.entries
      /\ upload'.reply = [rejected |-> AnyRefused(FirstTaken(b))]
      /\ upload' \in [busy : BOOLEAN, entries : [Games -> Entry \cup {Absent}],
                      reply : [rejected : BOOLEAN] \cup {Absent}]
  <2>1. AnyRefused(FirstTaken(b)) \in BOOLEAN
    BY DEF AnyRefused
  <2> QED
    BY <1>1, <2>1 DEF GuestInv, TypeInv
<1>5. ASSUME NEW g \in Sent(upload.entries)
      PROVE  /\ g \in Games /\ Change(g, upload.entries[g]) \in b.changes
             /\ Change(g, upload.entries[g]).game = g /\ local[g].box # {}
  <2>1. g \in Games /\ upload.entries[g] \in Entry
    BY <1>1 DEF Sent
  <2> QED
    BY <1>1, <1>2, <2>1, ChangeFacts DEF GuestInv, UploadInv
<1>6. ReplyInv'
  <2> SUFFICES ASSUME ~AnyRefused(FirstTaken(b)), NEW g \in Sent(upload.entries)
               PROVE  g \in outrun' \/ Shows(observations'[g], Change(g, upload.entries[g]))
    BY <1>4 DEF ReplyInv
  <2> DEFINE c == Change(g, upload.entries[g])
  <2>1. c \in b.changes /\ c.game = g
    BY <1>5
  <2> HIDE DEF c
  <2>2. CASE Seen(b)
    <3>1. observations'[g] = observations[g]
      BY <1>3, <1>5, <2>2
    <3>2. CASE Observed(observations[g], c) = observations[g]
      BY <3>1, <3>2 DEF Shows, c
    <3>3. CASE Observed(observations[g], c) # observations[g]
      <4>1. c \in Swallowed(b)
        BY <2>1, <2>2, <3>3 DEF Swallowed
      <4> QED
        BY <1>1, <2>1, <4>1 DEF GamesOf
    <3> QED
      BY <3>2, <3>3
  <2>3. CASE ~Seen(b)
    <3>1. ~IsRefused(c)
      BY <2>1, <2>3 DEF FirstTaken, AnyRefused
    <3> QED
      BY <1>3, <2>1, <2>3, <3>1 DEF c
  <2> QED
    BY <2>2, <2>3
<1>7. ASSUME NEW c \in b.changes PROVE local[c.game].box # {}
  BY <1>2, <1>5
<1>8. UploadsAreReflected'
  <2> SUFFICES ASSUME NEW g \in Games, Settled(g) PROVE g \in outrun' \/ Reflects(g)'
    BY <1>1 DEF UploadsAreReflected, Settled
  <2>1. g \notin GamesOf(b.changes)
    BY <1>7 DEF GamesOf, Settled
  <2>2. observations'[g] = observations[g]
    BY <1>3, <2>1 DEF GamesOf
  <2>3. g \in outrun => g \in outrun'
    BY <1>1, <2>1
  <2> QED
    BY <1>1, <2>2, <2>3 DEF GuestInv, UploadsAreReflected, Reflects
<1>9. TypeInv'
  BY <1>1, <1>2, <1>3, <1>4 DEF TypeInv
<1>10. UploadInv'
  BY <1>1, <1>4 DEF GuestInv, UploadInv
<1>11. GoneInv'
  BY <1>1, <1>3, ServerGoneStep
<1>12. \A g \in Games : RecordInv(local'[g])
  BY <1>1 DEF GuestInv
<1> QED
  BY <1>6, <1>8, <1>9, <1>10, <1>11, <1>12 DEF GuestInv

(* The server takes a batch nobody waits for any more.                     *)
LEMMA LateStep == ASSUME GuestInv, ServerLate PROVE GuestInv'
<1>1. PICK b \in late : /\ Ingest(b) /\ outrun' = outrun \cup GamesOf(Overtaken(b))
                        /\ late' = late \ {b}
  BY DEF ServerLate
<1>2. UNCHANGED <<local, upload>> /\ b.changes \subseteq Report /\ BatchFits(b)
      /\ TypeInv /\ GoneInv
  BY DEF ServerLate, GuestInv, TypeInv, GoneInv
<1>3. /\ observations' \in [Games -> Observation \cup {Absent}]
      /\ \A g \in Games : observations'[g] # observations[g] =>
            \E c \in b.changes : c.game = g /\ ~Seen(b) /\ Shows(observations'[g], c)
      /\ \A g \in Games : observations'[g] # Absent /\ observations'[g].withdrawn => Gone(g)
  BY <1>1, <1>2, IngestFacts
<1>4. ASSUME NEW g \in Games, observations'[g] # observations[g], g \notin outrun'
      PROVE  /\ local[g].box # {}
             /\ Shows(observations'[g], Change(g, Newest(local[g].box)))
  <2>1. PICK c \in b.changes : c.game = g /\ ~Seen(b) /\ Shows(observations'[g], c)
    BY <1>3, <1>4
  <2>2. c \notin Overtaken(b)
    BY <1>1, <1>4, <2>1 DEF GamesOf
  <2> QED
    BY <2>1, <2>2 DEF Overtaken
<1>5. UploadsAreReflected'
  <2> SUFFICES ASSUME NEW g \in Games, Settled(g) PROVE g \in outrun' \/ Reflects(g)'
    BY <1>2 DEF UploadsAreReflected, Settled
  <2>1. g \in outrun' \/ observations'[g] = observations[g]
    BY <1>4 DEF Settled
  <2> QED
    BY <1>1, <1>2, <2>1 DEF GuestInv, UploadsAreReflected, Reflects
<1>6. ReplyInv'
  <2> SUFFICES ASSUME upload.busy, upload.reply # Absent, ~upload.reply.rejected,
                      NEW g \in Sent(upload.entries),
                      IsNewest(upload.entries[g], local[g].box), g \notin outrun'
               PROVE  Shows(observations'[g], Change(g, upload.entries[g]))
    BY <1>2 DEF ReplyInv
  <2> DEFINE e == upload.entries[g]
             n == Newest(local[g].box)
  <2>1. /\ g \in Games /\ e \in Entry /\ local[g] \in Record /\ RecordInv(local[g])
        /\ \E q \in local[g].box : Same(q, e)
    BY DEF GuestInv, TypeInv, UploadInv, Sent
  <2>2. CASE observations'[g] = observations[g]
    <3>1. g \notin outrun
      BY <1>1
    <3> QED
      BY <2>2, <3>1 DEF GuestInv, ReplyInv
  <2>3. CASE observations'[g] # observations[g]
    <3>1. Shows(observations'[g], Change(g, n))
      BY <1>4, <2>1, <2>3
    <3>2. n \in local[g].box /\ IsNewest(n, local[g].box)
      BY <2>1, NewestExists
    <3>3. PICK q \in local[g].box : Same(q, e)
      BY <2>1
    <3>4. IsNewest(e, local[g].box)
      OBVIOUS
    <3> HIDE DEF e, n
    <3>5. n.id = q.id
      <4>1. n.id <= e.id /\ q.id <= n.id /\ q.id = e.id
        BY <3>2, <3>3, <3>4 DEF IsNewest, Same
      <4>2. n.id \in Nat /\ q.id \in Nat
        BY <2>1, <3>2, <3>3 DEF Record, Entry
      <4> QED
        BY <4>1, <4>2
    <3>6. Same(n, e) /\ n \in Entry
      BY <2>1, <3>2, <3>3, <3>5 DEF RecordInv, Same, Record
    <3>7. Change(g, n) = Change(g, e)
      BY <2>1, <3>6, ChangeFacts
    <3> QED
      BY <3>1, <3>7 DEF e
  <2> QED
    BY <2>2, <2>3
<1>7. TypeInv'
  BY <1>1, <1>2, <1>3 DEF TypeInv
<1>8. UploadInv' /\ \A g \in Games : RecordInv(local'[g])
  BY <1>2 DEF GuestInv, UploadInv
<1>9. GoneInv'
  BY <1>1, <1>2, <1>3, ServerGoneStep
<1> QED
  BY <1>5, <1>6, <1>7, <1>8, <1>9 DEF GuestInv

-----------------------------------------------------------------------------
(* The theorems.                                                           *)

(* The invariant holds at the start.                                       *)
LEMMA GuestInvInit == Init => GuestInv
<1> SUFFICES ASSUME Init PROVE GuestInv
  OBVIOUS
<1>1. /\ local = [g \in Games |-> Unknown] /\ upload = Idle /\ late = {}
      /\ observations = [g \in Games |-> Absent]
  BY DEF Init
<1>2. Unknown \in Record /\ Unknown.box = {} /\ Unknown.row = Absent
  BY DEF Unknown, Record, Conflict
<1>3. TypeInv
  BY <1>1, <1>2, IdleType DEF TypeInv
<1>4. \A g \in Games : RecordInv(local[g]) /\ ~Settled(g)
  BY <1>1, <1>2 DEF RecordInv, Settled
<1>5. UploadInv /\ ReplyInv
  BY <1>1, IdleType DEF UploadInv, ReplyInv
<1>6. GoneInv
  BY <1>1 DEF GoneInv
<1> QED
  BY <1>3, <1>4, <1>5, <1>6 DEF GuestInv, UploadsAreReflected

(* Every step keeps the invariant.                                         *)
LEMMA GuestInvStep == GuestInv /\ [Next]_vars => GuestInv'
<1> SUFFICES ASSUME GuestInv, [Next]_vars PROVE GuestInv'
  OBVIOUS
<1>1. CASE Next
  BY <1>1, UserStep, QuietSteps, QuietStep, StartStep, IngestStep, ReceiveStep, LateStep
     DEF Next, Uploading
<1>2. CASE UNCHANGED vars
  BY <1>2 DEF vars, GuestInv, TypeInv, UploadInv, GoneInv, BatchFits, Gone, ReplyInv,
              UploadsAreReflected, Settled, Reflects
<1> QED
  BY <1>1, <1>2

(* The inductive invariant of the uploads.                                 *)
THEOREM GuestInvariance == FairSpec => []GuestInv
BY GuestInvInit, GuestInvStep, PTL DEF FairSpec

(* A record with nothing left to send is on the server as the user left    *)
(* it, unless its change was taken for an old batch or an older request    *)
(* came after it (_push_guest, ingest_guest_batch).                        *)
THEOREM UploadsAreReflectedHolds == FairSpec => []UploadsAreReflected
<1>1. GuestInv => UploadsAreReflected
  BY DEF GuestInv
<1> QED
  BY <1>1, GuestInvariance, PTL

(* No change takes a withdrawal back (ingest_guest_batch).                 *)
THEOREM WithdrawalsStay == FairSpec => WithdrawnStaysWithdrawn
<1> DEFINE A == \A g \in Games : observations[g] # Absent /\ observations[g].withdrawn
                   => observations'[g] # Absent /\ observations'[g].withdrawn
<1>1. GuestInv /\ [Next]_vars => [A]_vars
  <2> SUFFICES ASSUME GuestInv, Next PROVE A
    OBVIOUS
  <2>1. ASSUME NEW b, Ingest(b), b.changes \subseteq Report, BatchFits(b) PROVE A
    BY <2>1, IngestFacts DEF GuestInv
  <2>2. CASE ServerIngest
    <3>1. Ingest(BatchOf(upload.entries)) /\ upload.busy
      BY <2>2 DEF ServerIngest
    <3> QED
      BY <2>1, <3>1, UploadFits DEF GuestInv
  <2>3. CASE ServerLate
    <3>1. PICK b \in late : Ingest(b)
      BY <2>3 DEF ServerLate
    <3> QED
      BY <2>1, <3>1 DEF GuestInv, TypeInv, GoneInv
  <2>4. CASE UNCHANGED observations
    BY <2>4
  <2> QED
    BY <2>2, <2>3, <2>4
       DEF Next, User, InsertGame, UpdateGame, DeleteGame, Save, Elapse, RetryFailed, Uploading,
           StartUpload, ReceiveUpload, FailUpload, RejectUpload, Crash, server
<1> HIDE DEF A
<1>2. FairSpec => [][A]_vars
  BY <1>1, GuestInvariance, PTL DEF FairSpec
<1> USE DEF A
<1> QED
  BY <1>2 DEF WithdrawnStaysWithdrawn
=============================================================================
