---------------------------- MODULE UpdateProofs ----------------------------
(***************************************************************************)
(* Theorems about the way to a newer version: the policy that may hold a   *)
(* version back (ReleasePolicy), what is offered and downloaded            *)
(* (UpdateOffer), and the installation (Update), for any number of         *)
(* versions, days, builds, downloads, jobs and faults.                     *)
(***************************************************************************)
EXTENDS Update, UpdateOffer, ReleasePolicy, TLAPS

USE PolicyAssumption, OfferAssumption, UpdateAssumption

-----------------------------------------------------------------------------
(* The release policy.                                                     *)

\* The cache was written to its end, with a policy that the server once had.
CacheIsWhole ==
    /\ cache \in may /\ cache.kind # "torn"
    /\ \A f \in may : f.kind = "policy" => f.minimum \in served
    /\ row.minimum \in served

\* How far a start is, and what its temporary file holds.
StartIsDecided ==
    /\ start.from.kind = "policy" => start.from.minimum \in served
    /\ start.pc \in {"save", "replace"} => start.from.kind = "policy"
    /\ start.pc = "replace" => tmp = start.from
    /\ start.pc # "on" => ~start.online
    /\ start.pc = "on" /\ ~start.online =>
         start.from.kind = "policy" /\ start.from.minimum > installed

PolicyInv == PolicyTypeOK /\ CacheIsWhole /\ StartIsDecided

\* The kinds of cache files.
LEMMA Files ==
    /\ NoFile \in CacheFiles /\ Torn \in CacheFiles
    /\ \A p \in Policies : File(p) \in CacheFiles
    /\ \A p \in Policies : File(p).kind = "policy" /\ File(p).minimum = p.minimum
    /\ \A f \in CacheFiles : f.kind \in {"none", "torn", "policy"} /\ f.minimum \in 0..MaxVersion
    /\ \A f \in CacheFiles : f.kind = "none" => f = NoFile
    /\ NoFile.kind = "none" /\ Torn.kind = "torn"
  <1>1. /\ NoFile.kind = "none" /\ Torn.kind = "torn"
        /\ NoFile.minimum = 0 /\ Torn.minimum = 0
    BY DEF NoFile, Torn
  <1>2. ASSUME NEW p \in Policies
        PROVE  /\ File(p).kind = "policy" /\ File(p).minimum = p.minimum
               /\ File(p).minimum \in 0..MaxVersion
    BY DEF File, Policies
  <1>3. /\ NoFile \in CacheFiles /\ Torn \in CacheFiles
        /\ \A p \in Policies : File(p) \in CacheFiles
    BY DEF CacheFiles
  <1>4. ASSUME NEW f \in CacheFiles
        PROVE  f = NoFile \/ f = Torn \/ \E p \in Policies : f = File(p)
    BY DEF CacheFiles
  <1> QED BY <1>1, <1>2, <1>3, <1>4

\* What a start that has decided may rely on.
LEMMA DecideStep ==
    ASSUME PolicyInv, NEW f \in CacheFiles, NEW by \in Deciders, Decide(f, by), f.kind # "torn",
           f.kind = "policy" => f.minimum \in served,
           UNCHANGED <<installed, served>>
    PROVE  /\ start' \in [pc : {"off", "save", "replace", "on"}, from : CacheFiles,
                          online : BOOLEAN, by : Deciders]
           /\ start'.online => f.kind = "none" \/ f.minimum <= installed
           /\ StartIsDecided'
  <1>1. /\ start' = [pc |-> "on", from |-> f, online |-> Allows(f), by |-> by]
        /\ Allows(f) \in BOOLEAN
    BY DEF Decide, Allows
  <1>2. f.kind \in {"none", "policy"} /\ f.minimum \in Nat /\ installed \in Nat
    BY Files DEF PolicyInv, PolicyTypeOK
  <1>3. Allows(f) <=> (f.kind = "policy" => f.minimum <= installed)
    BY DEF Allows
  <1> QED BY <1>1, <1>2, <1>3 DEF StartIsDecided

LEMMA FetchStep ==
    ASSUME PolicyInv, Fetch
    PROVE  PolicyInv'
  <1>1. /\ start' = [Off EXCEPT !.pc = "save", !.from = File(row)]
        /\ may' = may \cup {File(row)}
        /\ UNCHANGED <<row, now, installed, cache, tmp, served>>
    BY DEF Fetch
  <1>2. File(row) \in CacheFiles /\ File(row).kind = "policy" /\ File(row).minimum = row.minimum
    BY Files DEF PolicyInv, PolicyTypeOK
  <1>3. start' = [pc |-> "save", from |-> File(row), online |-> FALSE, by |-> "nobody"]
    BY <1>1 DEF Off
  <1>4. PolicyTypeOK'
    <2>1. start' \in [pc : {"off", "save", "replace", "on"}, from : CacheFiles,
                       online : BOOLEAN, by : Deciders]
      BY <1>2, <1>3 DEF Deciders
    <2>2. may' \subseteq CacheFiles
      BY <1>1, <1>2 DEF PolicyInv, PolicyTypeOK
    <2> QED BY <1>1, <2>1, <2>2 DEF PolicyInv, PolicyTypeOK
  <1>5. CacheIsWhole'
    BY <1>1, <1>2 DEF PolicyInv, CacheIsWhole
  <1>6. StartIsDecided'
    <2>1. File(row).minimum \in served
      BY <1>2 DEF PolicyInv, CacheIsWhole
    <2>2. /\ start'.pc = "save" /\ start'.from = File(row) /\ served' = served
      BY <1>1, <1>3
    <2>3. start'.online = FALSE
      BY <1>3
    <2> QED BY <1>2, <2>1, <2>2, <2>3 DEF StartIsDecided
  <1> QED BY <1>4, <1>5, <1>6 DEF PolicyInv

\* The cache decides, or an exception does.
LEMMA FallBackStep ==
    ASSUME PolicyInv, FallBack \/ FetchRaises
    PROVE  /\ PolicyInv'
           /\ start'.online /\ start'.by # "exception" =>
                \E f \in may : f.kind # "torn" /\ (f.kind = "policy" => f.minimum <= installed)
  <1>1. PICK f \in CacheFiles, by \in Deciders :
            /\ Decide(f, by)
            /\ \/ f = NoFile /\ by = "exception"
               \/ f = Cached /\ by = "cache"
    BY Files DEF FallBack, FetchRaises, Cached, Deciders, PolicyInv, PolicyTypeOK
  <1>2. UNCHANGED <<row, now, installed, cache, tmp, may, served>>
    BY DEF FallBack, FetchRaises
  <1>3. Cached = cache /\ Cached \in may /\ Cached.kind # "torn"
    BY Files DEF Cached, PolicyInv, PolicyTypeOK, CacheIsWhole
  <1>4. f.kind # "torn" /\ (f.kind = "policy" => f.minimum \in served)
    BY <1>1, <1>3, Files DEF PolicyInv, CacheIsWhole
  <1>5. /\ start' \in [pc : {"off", "save", "replace", "on"}, from : CacheFiles,
                       online : BOOLEAN, by : Deciders]
        /\ start'.online => f.kind = "none" \/ f.minimum <= installed
        /\ StartIsDecided'
    BY <1>1, <1>2, <1>4, DecideStep
  <1>6. PolicyInv'
    BY <1>2, <1>5 DEF PolicyInv, PolicyTypeOK, CacheIsWhole
  <1>7. start'.by = by
    BY <1>1 DEF Decide
  <1> QED BY <1>1, <1>3, <1>5, <1>6, <1>7

LEMMA SaveTmpStep ==
    ASSUME PolicyInv, SaveTmp
    PROVE  PolicyInv'
  <1>1. /\ start.pc = "save" /\ start.from.kind = "policy"
        /\ start.from.minimum \in served /\ start.from \in CacheFiles
        /\ UNCHANGED <<row, now, installed, cache, may, served>>
    BY DEF SaveTmp, PolicyInv, PolicyTypeOK, StartIsDecided
  <1>2. CASE start' = [start EXCEPT !.pc = "replace"] /\ tmp' = start.from
    BY <1>1, <1>2 DEF PolicyInv, PolicyTypeOK, CacheIsWhole, StartIsDecided
  <1>3. CASE Decide(start.from, "policy") /\ tmp' \in {tmp, Torn}
    <2>1. /\ start' \in [pc : {"off", "save", "replace", "on"}, from : CacheFiles,
                         online : BOOLEAN, by : Deciders]
          /\ StartIsDecided'
      BY <1>1, <1>3, DecideStep DEF Deciders
    <2> QED BY <1>1, <1>3, <2>1, Files DEF PolicyInv, PolicyTypeOK, CacheIsWhole
  <1> QED BY <1>2, <1>3 DEF SaveTmp

LEMMA ReplaceStep ==
    ASSUME PolicyInv, Replace
    PROVE  PolicyInv'
  <1>1. /\ start.pc = "replace" /\ start.from.kind = "policy" /\ tmp = start.from
        /\ start.from.minimum \in served /\ start.from \in CacheFiles
        /\ UNCHANGED <<row, now, installed, served>> /\ Decide(start.from, "policy")
    BY DEF Replace, PolicyInv, PolicyTypeOK, StartIsDecided
  <1>2. /\ start' \in [pc : {"off", "save", "replace", "on"}, from : CacheFiles,
                       online : BOOLEAN, by : Deciders]
        /\ StartIsDecided'
    BY <1>1, DecideStep DEF Deciders
  <1>3. \/ cache' = tmp /\ tmp' = NoFile /\ may' = {tmp}
        \/ UNCHANGED <<cache, tmp, may>>
    BY DEF Replace
  <1> QED BY <1>1, <1>2, <1>3, Files DEF PolicyInv, PolicyTypeOK, CacheIsWhole

\* What the operator, the clock and the installer do, and what ends a start.
LEMMA RestStep ==
    ASSUME PolicyInv,
           EndStart \/ ResetData \/ InstallNewer \/ SetPolicy \/ Tick \/ UNCHANGED policyVars
    PROVE  PolicyInv'
  <1>1. CASE EndStart
    <2>1. /\ Off \in [pc : {"off", "save", "replace", "on"}, from : CacheFiles,
                      online : BOOLEAN, by : Deciders]
          /\ Off.pc = "off" /\ Off.from.kind = "none" /\ ~Off.online
      BY Files DEF Off, Deciders
    <2> QED BY <1>1, <2>1 DEF EndStart, PolicyInv, PolicyTypeOK, CacheIsWhole, StartIsDecided
  <1>2. CASE ResetData
    BY <1>2, Files DEF ResetData, PolicyInv, PolicyTypeOK, CacheIsWhole, StartIsDecided
  <1>3. CASE InstallNewer
    BY <1>3 DEF InstallNewer, PolicyInv, PolicyTypeOK, CacheIsWhole, StartIsDecided
  <1>4. CASE SetPolicy
    <2>1. PICK p \in Policies : row' = p /\ served' = served \cup {p.minimum}
      BY <1>4 DEF SetPolicy
    <2>2. p.minimum \in 0..MaxVersion
      BY DEF Policies
    <2> QED BY <1>4, <2>1, <2>2
            DEF SetPolicy, PolicyInv, PolicyTypeOK, CacheIsWhole, StartIsDecided
  <1>5. CASE Tick
    BY <1>5 DEF Tick, PolicyInv, PolicyTypeOK, CacheIsWhole, StartIsDecided
  <1>6. CASE UNCHANGED policyVars
    BY <1>6 DEF policyVars, PolicyInv, PolicyTypeOK, CacheIsWhole, StartIsDecided
  <1> QED BY <1>1, <1>2, <1>3, <1>4, <1>5, <1>6

\* The cache is one of the policies that may be the last one stored, also
\* when a start was killed while it stored one, and a version is held back
\* only by a policy that the server once had.
THEOREM PolicyInvariant == PolicySpec => []PolicyInv
  <1>1. PolicyInit => PolicyInv
    <2> SUFFICES ASSUME PolicyInit
                 PROVE  PolicyInv
      OBVIOUS
    <2>1. row \in Policies /\ row.minimum \in 0..MaxVersion
      BY DEF PolicyInit, Policies
    <2>2. /\ Off \in [pc : {"off", "save", "replace", "on"}, from : CacheFiles,
                      online : BOOLEAN, by : Deciders]
          /\ Off.pc = "off" /\ Off.from.kind = "none" /\ ~Off.online
      BY Files DEF Off, Deciders
    <2> QED BY <2>1, <2>2, Files
            DEF PolicyInit, PolicyInv, PolicyTypeOK, CacheIsWhole, StartIsDecided
  <1>2. PolicyInv /\ [PolicyNext]_policyVars => PolicyInv'
    BY FetchStep, FallBackStep, SaveTmpStep, ReplaceStep, RestStep DEF PolicyNext
  <1> QED BY <1>1, <1>2, PTL DEF PolicySpec

\* An outage unblocks no version that was blocked, but by the exception that
\* app.py takes for "no policy", and none is kept offline for nothing.
THEOREM PolicyHolds == PolicySpec => PolicyIsEnforced
  <1>1. PolicyInv /\ [PolicyNext]_policyVars =>
          [start.pc = "off" /\ start'.online /\ start'.by # "exception" =>
             \E f \in may :
               f.kind # "torn" /\ (f.kind = "policy" => f.minimum <= installed)]_policyVars
    <2> SUFFICES ASSUME PolicyInv, PolicyNext, start.pc = "off", start'.online,
                        start'.by # "exception"
                 PROVE  \E f \in may :
                            f.kind # "torn" /\ (f.kind = "policy" => f.minimum <= installed)
      OBVIOUS
    <2>1. ~Fetch /\ ~InstallNewer /\ ~SetPolicy /\ ~Tick
      <3>1. ~Fetch
        BY DEF Fetch, Off
      <3>2. start.online = FALSE
        BY DEF PolicyInv, PolicyTypeOK, StartIsDecided
      <3> QED BY <3>1, <3>2 DEF InstallNewer, SetPolicy, Tick
    <2>2. ~SaveTmp /\ ~Replace /\ ~EndStart /\ ~ResetData
      BY DEF SaveTmp, Replace, EndStart, ResetData
    <2>3. FallBack \/ FetchRaises
      BY <2>1, <2>2 DEF PolicyNext
    <2> QED BY <2>3, FallBackStep
  <1>2. PolicyInv => BlockedForAReason
    <2> SUFFICES ASSUME PolicyInv, start.pc = "on", ~start.online
                 PROVE  \E m \in served : m > installed
      BY DEF BlockedForAReason
    <2>1. start.from.minimum \in served /\ start.from.minimum > installed
      BY DEF PolicyInv, StartIsDecided
    <2> QED BY <2>1
  <1> QED BY <1>1, <1>2, PolicyInvariant, PTL
          DEF PolicySpec, PolicyIsEnforced, OutageNeverUnblocks

-----------------------------------------------------------------------------
(* The offer and its download.                                             *)

\* Steps of the thread at which it fills its directory.
Filling == {"stream", "digest", "write", "sign", "publish", "clean", "done"}

\* What the thread was given and what it has found true of it so far.
ThreadIsChecked ==
    /\ thread.step = "none" => thread = NoThread
    /\ thread.step \in {"none", "release", "manifest", "signature", "found", "verify"}
         => thread.dir = 0
    /\ thread.step \in {"signature", "found"} => thread.manifest \in Manifests
    /\ thread.step = "found" =>
         thread.manifest \in Authentic /\ thread.manifest.version > current
    /\ thread.step = "verify" =>
         thread.manifest = offer.plan /\ offer.plan # None /\ offer.downloaded = 0
    /\ thread.step = "launch" => thread.dir \in Dirs /\ dirs[thread.dir].installer # None

\* The directory of a download, step by step.
DirectoryIsFilled ==
    thread.step \in Filling =>
        /\ thread.dir \in Dirs /\ dirs[thread.dir].there
        /\ thread.manifest \in Authentic /\ thread.manifest = offer.plan
        /\ offer.downloaded = 0
        /\ thread.step # "done" => dirs[thread.dir].installer = None
        /\ thread.step \in {"write", "sign", "publish"} =>
             dirs[thread.dir].part = thread.manifest.build
        /\ thread.step \in {"sign", "publish"} => dirs[thread.dir].manifest = thread.manifest
        /\ thread.step = "publish" => dirs[thread.dir].signature = thread.manifest
        /\ thread.step = "done" =>
             /\ dirs[thread.dir].installer = thread.manifest.build
             /\ dirs[thread.dir].manifest = thread.manifest
             /\ dirs[thread.dir].signature = thread.manifest

\* A dialog, and an offer that waits for one, have a plan.
DialogHasPlan == offer.dialog \/ offer.waiting => offer.plan # None

OfferInv ==
    /\ OfferTypeOK /\ ThreadIsChecked /\ DirectoryIsFilled /\ DialogHasPlan
    /\ OffersAreSound

Directories ==
    [there : BOOLEAN, part : MaybeBuild, installer : MaybeBuild,
     manifest : MaybeManifest, signature : MaybeManifest]

\* What the records that begin and end everything hold.
LEMMA Blanks ==
    /\ NoPlan \in [plan : MaybeManifest, dialog : BOOLEAN, waiting : BOOLEAN,
                   cancelled : BOOLEAN, downloaded : {0} \cup Dirs]
    /\ NoPlan.plan = None /\ ~NoPlan.dialog /\ ~NoPlan.waiting /\ NoPlan.downloaded = 0
    /\ NoThread \in [step : Steps, version : {0} \cup Versions,
                     manifest : MaybeManifest, dir : {0} \cup Dirs]
    /\ NoThread.step = "none" /\ NoThread.dir = 0
    /\ Empty \in Directories /\ Empty.there /\ Empty.installer = None
    /\ NoDirectory \in Directories /\ ~NoDirectory.there /\ NoDirectory.installer = None
  BY DEF NoPlan, NoThread, Empty, NoDirectory, Directories, MaybeManifest, MaybeBuild, Steps

\* The thread ends, and the directories are as they were.
LEMMA ThreadEnds ==
    ASSUME OfferInv, Done, dirs' = dirs, broken \subseteq broken',
           thread.dir \in {0} \cup broken' \/ dirs[thread.dir].installer # None
    PROVE  /\ thread' \in [step : Steps, version : {0} \cup Versions,
                           manifest : MaybeManifest, dir : {0} \cup Dirs]
           /\ ThreadIsChecked' /\ DirectoryIsFilled' /\ InstallersAreSigned'
           /\ NothingHalfIsLeft'
  <1>1. /\ thread' = NoThread /\ thread'.step = "none"
        /\ thread' \in [step : Steps, version : {0} \cup Versions,
                        manifest : MaybeManifest, dir : {0} \cup Dirs]
        /\ thread'.dir = 0
    BY Blanks DEF Done
  <1>2. ThreadIsChecked' /\ DirectoryIsFilled'
    BY <1>1 DEF ThreadIsChecked, DirectoryIsFilled, Filling
  <1>3. InstallersAreSigned'
    BY DEF OfferInv, OffersAreSound, InstallersAreSigned
  <1>4. NothingHalfIsLeft'
    BY DEF OfferInv, OffersAreSound, NothingHalfIsLeft, Dirs
  <1> QED BY <1>1, <1>2, <1>3, <1>4

LEMMA SearchStep ==
    ASSUME OfferInv, Search \/ ReadRelease \/ ReadManifest \/ ReadSignature
    PROVE  OfferInv'
  <1>1. /\ UNCHANGED <<current, expired, dirs, broken>> /\ thread.dir = 0
        /\ thread.step \in {"none", "release", "manifest", "signature"}
    BY Blanks DEF Search, ReadRelease, ReadManifest, ReadSignature, NoThreadRuns, At,
                  OfferInv, ThreadIsChecked
  <1>2. /\ offer' \in [plan : MaybeManifest, dialog : BOOLEAN, waiting : BOOLEAN,
                       cancelled : BOOLEAN, downloaded : {0} \cup Dirs]
        /\ offer'.plan = offer.plan /\ offer'.downloaded = offer.downloaded
        /\ offer'.dialog = offer.dialog /\ (offer'.waiting => offer.waiting)
    BY DEF Search, ReadRelease, ReadManifest, ReadSignature, OfferInv, OfferTypeOK
  <1>3. /\ OffersAreNewer' /\ KeepsWhatIsOffered' /\ DialogHasPlan'
    BY <1>1, <1>2 DEF OfferInv, OffersAreSound, OffersAreNewer, KeepsWhatIsOffered,
                      DialogHasPlan
  <1>4. CASE Done
    BY <1>1, <1>2, <1>3, <1>4, ThreadEnds DEF OfferInv, OfferTypeOK, OffersAreSound
  <1>5. ASSUME thread' \in [step : Steps, version : {0} \cup Versions,
                            manifest : MaybeManifest, dir : {0} \cup Dirs],
               thread'.dir = 0, thread'.step \in {"release", "manifest", "signature", "found"},
               thread'.step \in {"signature", "found"} => thread'.manifest \in Manifests,
               thread'.step = "found" =>
                 thread'.manifest \in Authentic /\ thread'.manifest.version > current
        PROVE  OfferInv'
    <2>1. ThreadIsChecked' /\ DirectoryIsFilled'
      BY <1>1, <1>5 DEF ThreadIsChecked, DirectoryIsFilled, Filling
    <2>2. InstallersAreSigned' /\ NothingHalfIsLeft'
      BY <1>1, <1>5 DEF OfferInv, OffersAreSound, InstallersAreSigned, NothingHalfIsLeft
    <2> QED BY <1>1, <1>2, <1>3, <1>5, <2>1, <2>2 DEF OfferInv, OfferTypeOK, OffersAreSound
  <1>6. thread \in [step : Steps, version : {0} \cup Versions,
                    manifest : MaybeManifest, dir : {0} \cup Dirs]
    BY DEF OfferInv, OfferTypeOK
  <1>7. CASE Search
    <2>1. thread' = [NoThread EXCEPT !.step = "release"]
      BY <1>7 DEF Search
    <2>2. /\ thread' \in [step : Steps, version : {0} \cup Versions,
                          manifest : MaybeManifest, dir : {0} \cup Dirs]
          /\ thread'.step = "release" /\ thread'.dir = 0
      BY <2>1, Blanks DEF Steps
    <2> QED BY <1>5, <2>2
  <1>8. CASE ReadRelease /\ ~Done
    <2>1. PICK v \in Versions : thread' = [thread EXCEPT !.step = "manifest", !.version = v]
      BY <1>8 DEF ReadRelease
    <2>2. /\ thread' \in [step : Steps, version : {0} \cup Versions,
                          manifest : MaybeManifest, dir : {0} \cup Dirs]
          /\ thread'.step = "manifest" /\ thread'.dir = 0
      BY <1>1, <1>6, <2>1 DEF Steps
    <2> QED BY <1>5, <2>2
  <1>9. CASE ReadManifest /\ ~Done
    <2>1. PICK m \in Manifests : thread' = [thread EXCEPT !.step = "signature", !.manifest = m]
      BY <1>9 DEF ReadManifest
    <2>2. /\ thread' \in [step : Steps, version : {0} \cup Versions,
                          manifest : MaybeManifest, dir : {0} \cup Dirs]
          /\ thread'.step = "signature" /\ thread'.dir = 0 /\ thread'.manifest = m
      BY <1>1, <1>6, <2>1 DEF Steps, MaybeManifest
    <2> QED BY <1>5, <2>2
  <1>10. CASE ReadSignature /\ ~Done
    <2>1. /\ thread' = [thread EXCEPT !.step = "found"]
          /\ thread.manifest \in Authentic /\ thread.manifest.version = thread.version
          /\ thread.version > current
      BY <1>10 DEF ReadSignature, Goes, Verified
    <2>2. /\ thread' \in [step : Steps, version : {0} \cup Versions,
                          manifest : MaybeManifest, dir : {0} \cup Dirs]
          /\ thread'.step = "found" /\ thread'.dir = 0 /\ thread'.manifest = thread.manifest
      BY <1>1, <1>6, <2>1 DEF Steps
    <2> QED BY <1>5, <2>1, <2>2
  <1> QED BY <1>4, <1>7, <1>8, <1>9, <1>10

LEMMA FoundStep ==
    ASSUME OfferInv, Found
    PROVE  OfferInv'
  <1>1. /\ thread.step = "found" /\ Done /\ UNCHANGED <<current, expired, dirs, broken>>
        /\ thread.manifest \in Authentic /\ thread.manifest.version > current
        /\ thread.dir = 0
    BY DEF Found, At, OfferInv, ThreadIsChecked
  <1>2. PICK shown \in BOOLEAN :
          offer' = [offer EXCEPT !.plan = thread.manifest, !.downloaded = 0,
                                 !.dialog = shown, !.waiting = ~shown]
    BY DEF Found, Offer
  <1>3. /\ offer' \in [plan : MaybeManifest, dialog : BOOLEAN, waiting : BOOLEAN,
                       cancelled : BOOLEAN, downloaded : {0} \cup Dirs]
        /\ offer'.plan = thread.manifest /\ offer'.downloaded = 0
    BY <1>1, <1>2 DEF OfferInv, OfferTypeOK, MaybeManifest
  <1>4. OffersAreNewer' /\ KeepsWhatIsOffered' /\ DialogHasPlan'
    BY <1>1, <1>3 DEF OffersAreNewer, KeepsWhatIsOffered, DialogHasPlan
  <1> QED BY <1>1, <1>3, <1>4, ThreadEnds DEF OfferInv, OfferTypeOK, OffersAreSound

\* What the user does with the offer.
LEMMA DialogStep ==
    ASSUME OfferInv, ShowWaiting \/ RejectOffer \/ BeginDownload
    PROVE  OfferInv'
  <1>1. UNCHANGED <<current, expired, dirs, broken>>
    BY DEF ShowWaiting, RejectOffer, BeginDownload
  <1>2. /\ offer' \in [plan : MaybeManifest, dialog : BOOLEAN, waiting : BOOLEAN,
                       cancelled : BOOLEAN, downloaded : {0} \cup Dirs]
        /\ offer'.plan = offer.plan /\ offer'.downloaded = offer.downloaded
        /\ offer'.dialog \/ offer'.waiting => offer.dialog \/ offer.waiting
    BY DEF ShowWaiting, RejectOffer, BeginDownload, OfferInv, OfferTypeOK
  <1>3. OffersAreNewer' /\ KeepsWhatIsOffered' /\ DialogHasPlan' /\ InstallersAreSigned'
    BY <1>1, <1>2 DEF OfferInv, OffersAreSound, OffersAreNewer, KeepsWhatIsOffered,
                      DialogHasPlan, InstallersAreSigned
  <1>4. CASE thread' = thread
    <2>1. ThreadIsChecked' /\ DirectoryIsFilled' /\ NothingHalfIsLeft'
      BY <1>1, <1>2, <1>4 DEF OfferInv, OffersAreSound, ThreadIsChecked, DirectoryIsFilled,
                              NothingHalfIsLeft
    <2> QED BY <1>1, <1>2, <1>3, <1>4, <2>1 DEF OfferInv, OfferTypeOK, OffersAreSound
  <1>5. CASE BeginDownload
    <2>1. thread = NoThread /\ offer.dialog /\ thread.dir = 0 /\ offer.plan # None
      BY <1>5, Blanks DEF BeginDownload, NoThreadRuns, OfferInv, DialogHasPlan
    <2>2. /\ offer.plan \in MaybeManifest /\ offer.downloaded \in {0} \cup Dirs
      BY DEF OfferInv, OfferTypeOK
    <2>3. CASE offer.downloaded # 0
      <3>1. thread' = [NoThread EXCEPT !.step = "launch", !.dir = offer.downloaded]
        BY <1>5, <2>3 DEF BeginDownload
      <3>2. /\ thread' \in [step : Steps, version : {0} \cup Versions,
                            manifest : MaybeManifest, dir : {0} \cup Dirs]
            /\ thread'.step = "launch" /\ thread'.dir = offer.downloaded
        BY <2>2, <3>1, Blanks DEF Steps
      <3>3. ThreadIsChecked' /\ DirectoryIsFilled'
        BY <1>1, <2>2, <2>3, <3>2
        DEF OfferInv, OffersAreSound, KeepsWhatIsOffered, ThreadIsChecked,
            DirectoryIsFilled, Filling
      <3>4. NothingHalfIsLeft'
        BY <1>1, <2>1 DEF OfferInv, OffersAreSound, NothingHalfIsLeft, Dirs
      <3> QED BY <1>1, <1>2, <1>3, <3>2, <3>3, <3>4 DEF OfferInv, OfferTypeOK, OffersAreSound
    <2>4. CASE offer.downloaded = 0
      <3>1. thread' = [NoThread EXCEPT !.step = "verify", !.manifest = offer.plan]
        BY <1>5, <2>4 DEF BeginDownload
      <3>2. /\ thread' \in [step : Steps, version : {0} \cup Versions,
                            manifest : MaybeManifest, dir : {0} \cup Dirs]
            /\ thread'.step = "verify" /\ thread'.dir = 0 /\ thread'.manifest = offer.plan
        BY <2>2, <3>1, Blanks DEF Steps
      <3>3. ThreadIsChecked' /\ DirectoryIsFilled'
        BY <1>2, <2>1, <2>4, <3>2 DEF ThreadIsChecked, DirectoryIsFilled, Filling
      <3>4. NothingHalfIsLeft'
        BY <1>1, <2>1 DEF OfferInv, OffersAreSound, NothingHalfIsLeft, Dirs
      <3> QED BY <1>1, <1>2, <1>3, <3>2, <3>3, <3>4 DEF OfferInv, OfferTypeOK, OffersAreSound
    <2> QED BY <2>3, <2>4
  <1> QED BY <1>4, <1>5 DEF ShowWaiting, RejectOffer

\* One directory is written.
LEMMA WriteStep ==
    ASSUME OfferTypeOK, NEW d \in Dirs, NEW x \in Directories,
           dirs' = [dirs EXCEPT ![d] = x]
    PROVE  /\ dirs' \in [Dirs -> Directories] /\ dirs'[d] = x
           /\ \A e \in Dirs : e # d => dirs'[e] = dirs[e]
  BY DEF OfferTypeOK, Directories

\* The directory of a download that goes on, or is cleaned up.
LEMMA FillStep ==
    ASSUME OfferInv, thread.step \in Filling \ {"done"}, UNCHANGED <<current, expired, offer, broken>>,
           NEW step \in Filling \ {"done"}, thread' = [thread EXCEPT !.step = step],
           NEW x \in Directories, dirs' = [dirs EXCEPT ![thread.dir] = x],
           x.there, x.installer = None,
           step \in {"write", "sign", "publish"} => x.part = thread.manifest.build,
           step \in {"sign", "publish"} => x.manifest = thread.manifest,
           step = "publish" => x.signature = thread.manifest
    PROVE  OfferInv'
  <1>1. /\ thread.dir \in Dirs /\ thread.manifest \in Authentic
        /\ thread.manifest = offer.plan /\ offer.downloaded = 0
    BY DEF OfferInv, DirectoryIsFilled
  <1>2. /\ dirs' \in [Dirs -> Directories] /\ dirs'[thread.dir] = x
        /\ \A e \in Dirs : e # thread.dir => dirs'[e] = dirs[e]
    BY <1>1, WriteStep DEF OfferInv
  <1>3. /\ thread' \in [step : Steps, version : {0} \cup Versions,
                        manifest : MaybeManifest, dir : {0} \cup Dirs]
        /\ thread'.step = step /\ thread'.dir = thread.dir
        /\ thread'.manifest = thread.manifest
    BY DEF OfferInv, OfferTypeOK, Steps, Filling
  <1>4. ThreadIsChecked' /\ DirectoryIsFilled'
    BY <1>1, <1>2, <1>3 DEF ThreadIsChecked, DirectoryIsFilled, Filling
  <1>5. InstallersAreSigned' /\ NothingHalfIsLeft'
    BY <1>2, <1>3 DEF OfferInv, OffersAreSound, InstallersAreSigned, NothingHalfIsLeft
  <1>6. OffersAreNewer' /\ KeepsWhatIsOffered' /\ DialogHasPlan'
    BY <1>1 DEF OfferInv, OffersAreSound, OffersAreNewer, KeepsWhatIsOffered, DialogHasPlan
  <1> QED BY <1>2, <1>3, <1>4, <1>5, <1>6
          DEF OfferInv, OfferTypeOK, OffersAreSound, Directories

LEMMA MakeDirectoryStep ==
    ASSUME OfferInv, MakeDirectory
    PROVE  OfferInv'
  <1>1. /\ thread.step = "verify" /\ UNCHANGED <<current, expired, offer, broken>>
        /\ thread.manifest = offer.plan /\ offer.plan # None /\ offer.downloaded = 0
        /\ thread.dir = 0
    BY DEF MakeDirectory, At, OfferInv, ThreadIsChecked
  <1>2. OffersAreNewer' /\ KeepsWhatIsOffered' /\ DialogHasPlan'
    BY <1>1 DEF OfferInv, OffersAreSound, OffersAreNewer, KeepsWhatIsOffered, DialogHasPlan
  <1>3. CASE Done /\ UNCHANGED dirs
    BY <1>1, <1>2, <1>3, ThreadEnds DEF OfferInv, OfferTypeOK, OffersAreSound
  <1>4. ASSUME NEW d \in Dirs, dirs[d] = NoDirectory, dirs' = [dirs EXCEPT ![d] = Empty],
               thread' = [thread EXCEPT !.step = "stream", !.dir = d],
               Verified(thread.manifest, thread.manifest, thread.manifest.version)
        PROVE  OfferInv'
    <2>1. /\ dirs' \in [Dirs -> Directories] /\ dirs'[d] = Empty
          /\ \A e \in Dirs : e # d => dirs'[e] = dirs[e]
      BY <1>4, Blanks, WriteStep DEF OfferInv
    <2>2. /\ thread' \in [step : Steps, version : {0} \cup Versions,
                          manifest : MaybeManifest, dir : {0} \cup Dirs]
          /\ thread'.step = "stream" /\ thread'.dir = d /\ thread'.manifest = thread.manifest
      BY <1>4 DEF OfferInv, OfferTypeOK, Steps
    <2>3. ThreadIsChecked' /\ DirectoryIsFilled'
      BY <1>1, <1>4, <2>1, <2>2, Blanks
      DEF ThreadIsChecked, DirectoryIsFilled, Filling, Verified
    <2>4. InstallersAreSigned'
      BY <2>1, Blanks DEF OfferInv, OffersAreSound, InstallersAreSigned
    <2>5. NothingHalfIsLeft'
      BY <1>1, <2>1, <2>2 DEF OfferInv, OffersAreSound, NothingHalfIsLeft, Dirs
    <2> QED BY <1>1, <1>2, <2>1, <2>2, <2>3, <2>4, <2>5
            DEF OfferInv, OfferTypeOK, OffersAreSound, Directories
  <1> QED BY <1>3, <1>4 DEF MakeDirectory

\* What a download in its directory may rely on.
LEMMA Downloading ==
    ASSUME OfferInv, thread.step \in Filling
    PROVE  /\ thread.dir \in Dirs /\ thread.dir # 0 /\ Here \in Directories /\ Here.there
           /\ thread.step # "done" => Here.installer = None
           /\ thread.manifest \in Authentic /\ thread.manifest.build \in Builds
           /\ thread.manifest \in MaybeManifest
           /\ dirs = [dirs EXCEPT ![thread.dir] = Here]
           /\ OffersAreNewer /\ DialogHasPlan
  <1>1. /\ thread.dir \in Dirs /\ Here.there /\ thread.manifest \in Authentic
        /\ thread.step # "done" => Here.installer = None
    BY DEF OfferInv, DirectoryIsFilled, Here
  <1>2. /\ dirs \in [Dirs -> Directories] /\ Here \in Directories
        /\ dirs = [dirs EXCEPT ![thread.dir] = Here]
    BY <1>1 DEF OfferInv, OfferTypeOK, Directories, Here
  <1>3. thread.manifest.build \in Builds /\ thread.manifest \in MaybeManifest
    BY <1>1 DEF Manifests, MaybeManifest
  <1> QED BY <1>1, <1>2, <1>3 DEF Dirs, OfferInv, OffersAreSound

\* One file of a directory is written or removed.
LEMMA PartEdited ==
    ASSUME NEW y \in Directories, NEW b \in MaybeBuild, NEW x, x = [y EXCEPT !.part = b]
    PROVE  x \in Directories /\ x.there = y.there /\ x.installer = y.installer
  BY DEF Directories

LEMMA ManifestEdited ==
    ASSUME NEW y \in Directories, NEW m \in MaybeManifest, NEW x,
           x = [y EXCEPT !.manifest = m]
    PROVE  /\ x \in Directories /\ x.there = y.there /\ x.installer = y.installer
           /\ x.part = y.part /\ x.manifest = m
  BY DEF Directories

LEMMA SignatureEdited ==
    ASSUME NEW y \in Directories, NEW m \in MaybeManifest, NEW x,
           x = [y EXCEPT !.signature = m]
    PROVE  /\ x \in Directories /\ x.there = y.there /\ x.installer = y.installer
           /\ x.part = y.part /\ x.manifest = y.manifest /\ x.signature = m
  BY DEF Directories

LEMMA InstallerNamed ==
    ASSUME NEW y \in Directories, NEW x, x = [y EXCEPT !.installer = y.part, !.part = None]
    PROVE  /\ x \in Directories /\ x.there = y.there /\ x.installer = y.part
           /\ x.manifest = y.manifest /\ x.signature = y.signature
  BY DEF Directories, MaybeBuild

LEMMA InstallerRemoved ==
    ASSUME NEW y \in Directories, NEW x, x = [y EXCEPT !.installer = None]
    PROVE  x \in Directories /\ x.there = y.there /\ x.installer = None
  BY DEF Directories, MaybeBuild

LEMMA StreamStep ==
    ASSUME OfferInv, Stream
    PROVE  OfferInv'
  <1>1. thread.step = "stream" /\ UNCHANGED <<current, expired, offer, broken>>
    BY DEF Stream, At
  <1>2. PICK b \in Builds \cup {None}, step \in {"clean", "digest"} :
          /\ dirs' = [dirs EXCEPT ![thread.dir] = [Here EXCEPT !.part = b]]
          /\ thread' = [thread EXCEPT !.step = step]
    BY DEF Stream, Writes, Goes
  <1>3. Here \in Directories /\ Here.there /\ Here.installer = None
    BY <1>1, Downloading DEF Filling
  <1>5. b \in MaybeBuild
    BY DEF MaybeBuild
  <1>4. PICK x : x = [Here EXCEPT !.part = b]
    OBVIOUS
  <1>6. x \in Directories /\ x.there /\ x.installer = None
    BY <1>3, <1>4, <1>5, PartEdited
  <1> QED BY <1>1, <1>2, <1>4, <1>6, FillStep DEF Filling

LEMMA DigestStep ==
    ASSUME OfferInv, Digest
    PROVE  OfferInv'
  <1>1. thread.step = "digest" /\ UNCHANGED <<current, expired, offer, dirs, broken>>
    BY DEF Digest, At
  <1>2. PICK step \in {"clean", "write"} :
          /\ thread' = [thread EXCEPT !.step = step]
          /\ step = "write" => Here.part = thread.manifest.build
    BY DEF Digest, Goes
  <1>3. /\ Here \in Directories /\ Here.there /\ Here.installer = None
        /\ dirs' = [dirs EXCEPT ![thread.dir] = Here]
    BY <1>1, Downloading DEF Filling
  <1> QED BY <1>1, <1>2, <1>3, FillStep DEF Filling

LEMMA WriteManifestStep ==
    ASSUME OfferInv, WriteManifest
    PROVE  OfferInv'
  <1>1. thread.step = "write" /\ UNCHANGED <<current, expired, offer, broken>>
    BY DEF WriteManifest, At
  <1>2. /\ Here \in Directories /\ Here.there /\ Here.installer = None
        /\ dirs = [dirs EXCEPT ![thread.dir] = Here]
        /\ thread.manifest \in MaybeManifest
    BY <1>1, Downloading DEF Filling
  <1>3. Here.part = thread.manifest.build
    BY <1>1 DEF OfferInv, DirectoryIsFilled, Filling, Here
  <1>4. PICK x : x = [Here EXCEPT !.manifest = thread.manifest]
    OBVIOUS
  <1>7. /\ x \in Directories /\ x.there /\ x.installer = None /\ x.part = Here.part
        /\ x.manifest = thread.manifest
    BY <1>2, <1>4, ManifestEdited
  <1>5. CASE /\ dirs' = [dirs EXCEPT ![thread.dir] = x]
             /\ thread' = [thread EXCEPT !.step = "sign"]
    <2>1. x.part = thread.manifest.build /\ "sign" \in Filling \ {"done"}
      BY <1>3, <1>7 DEF Filling
    <2>2. thread.step \in Filling \ {"done"}
      BY <1>1 DEF Filling
    <2> QED BY <1>1, <1>5, <1>7, <2>1, <2>2, FillStep
  <1>6. CASE dirs' = dirs /\ thread' = [thread EXCEPT !.step = "clean"]
    BY <1>1, <1>2, <1>6, FillStep DEF Filling
  <1> QED BY <1>4, <1>5, <1>6 DEF WriteManifest, Writes, Goes

LEMMA WriteSignatureStep ==
    ASSUME OfferInv, WriteSignature
    PROVE  OfferInv'
  <1>1. thread.step = "sign" /\ UNCHANGED <<current, expired, offer, broken>>
    BY DEF WriteSignature, At
  <1>2. /\ Here \in Directories /\ Here.there /\ Here.installer = None
        /\ dirs = [dirs EXCEPT ![thread.dir] = Here]
        /\ thread.manifest \in MaybeManifest
    BY <1>1, Downloading DEF Filling
  <1>3. Here.part = thread.manifest.build /\ Here.manifest = thread.manifest
    BY <1>1 DEF OfferInv, DirectoryIsFilled, Filling, Here
  <1>4. PICK x : x = [Here EXCEPT !.signature = thread.manifest]
    OBVIOUS
  <1>7. /\ x \in Directories /\ x.there /\ x.installer = None /\ x.part = Here.part
        /\ x.manifest = Here.manifest /\ x.signature = thread.manifest
    BY <1>2, <1>4, SignatureEdited
  <1>5. CASE /\ dirs' = [dirs EXCEPT ![thread.dir] = x]
             /\ thread' = [thread EXCEPT !.step = "publish"]
    BY <1>1, <1>3, <1>5, <1>7, FillStep DEF Filling
  <1>6. CASE dirs' = dirs /\ thread' = [thread EXCEPT !.step = "clean"]
    BY <1>1, <1>2, <1>6, FillStep DEF Filling
  <1> QED BY <1>4, <1>5, <1>6 DEF WriteSignature, Writes, Goes

LEMMA PublishStep ==
    ASSUME OfferInv, Publish
    PROVE  OfferInv'
  <1>1. thread.step = "publish" /\ UNCHANGED <<current, expired, offer, broken>>
    BY DEF Publish, At
  <1>2. /\ thread.dir \in Dirs /\ Here \in Directories /\ Here.there
        /\ Here.installer = None /\ dirs = [dirs EXCEPT ![thread.dir] = Here]
        /\ thread.manifest \in Authentic /\ thread.manifest.build \in Builds
    BY <1>1, Downloading DEF Filling
  <1>3. CASE dirs' = dirs /\ thread' = [thread EXCEPT !.step = "clean"]
    BY <1>1, <1>2, <1>3, FillStep DEF Filling
  <1>4. /\ Here.part = thread.manifest.build /\ Here.manifest = thread.manifest
        /\ Here.signature = thread.manifest
        /\ thread.manifest = offer.plan /\ offer.downloaded = 0
    BY <1>1 DEF OfferInv, DirectoryIsFilled, Filling, Here
  <1>5. PICK x : x = [Here EXCEPT !.installer = Here.part, !.part = None]
    OBVIOUS
  <1>7. /\ x \in Directories /\ x.there /\ x.installer = thread.manifest.build
        /\ x.manifest = thread.manifest /\ x.signature = thread.manifest
    BY <1>2, <1>4, <1>5, InstallerNamed
  <1>6. CASE /\ dirs' = [dirs EXCEPT ![thread.dir] = x]
             /\ thread' = [thread EXCEPT !.step = "done"]
    <2>1. /\ dirs' \in [Dirs -> Directories] /\ dirs'[thread.dir] = x
          /\ \A e \in Dirs : e # thread.dir => dirs'[e] = dirs[e]
      BY <1>2, <1>6, <1>7, WriteStep DEF OfferInv
    <2>2. /\ thread' \in [step : Steps, version : {0} \cup Versions,
                          manifest : MaybeManifest, dir : {0} \cup Dirs]
          /\ thread'.step = "done" /\ thread'.dir = thread.dir
          /\ thread'.manifest = thread.manifest
      BY <1>6 DEF OfferInv, OfferTypeOK, Steps
    <2>3. ThreadIsChecked' /\ DirectoryIsFilled'
      BY <1>1, <1>2, <1>4, <1>7, <2>1, <2>2 DEF ThreadIsChecked, DirectoryIsFilled, Filling
    <2>6. InstallersAreSigned'
      BY <1>2, <1>7, <2>1 DEF OfferInv, OffersAreSound, InstallersAreSigned
    <2>7. x.installer # None
      BY <1>2, <1>7, OfferAssumption
    <2>4. NothingHalfIsLeft'
      BY <1>1, <2>1, <2>2, <2>7 DEF OfferInv, OffersAreSound, NothingHalfIsLeft
    <2>5. OffersAreNewer' /\ KeepsWhatIsOffered' /\ DialogHasPlan'
      BY <1>1, <1>4
      DEF OfferInv, OffersAreSound, OffersAreNewer, KeepsWhatIsOffered, DialogHasPlan
    <2> QED BY <1>1, <2>1, <2>2, <2>3, <2>4, <2>5, <2>6
            DEF OfferInv, OfferTypeOK, OffersAreSound, Directories
  <1> QED BY <1>3, <1>5, <1>6 DEF Publish, Writes, Goes

LEMMA RemoveStep ==
    ASSUME OfferInv, Remove
    PROVE  OfferInv'
  <1>1. thread.step = "clean" /\ UNCHANGED <<current, expired, offer, broken>>
    BY DEF Remove, At
  <1>2. /\ thread.dir \in Dirs /\ Here \in Directories /\ Here.there /\ Here.installer = None
        /\ offer.downloaded = 0
    BY <1>1, Downloading DEF Filling, OfferInv, DirectoryIsFilled
  <1>3. CASE dirs' = [dirs EXCEPT ![thread.dir] = NoDirectory] /\ Done
    <2>1. /\ dirs' \in [Dirs -> Directories] /\ dirs'[thread.dir] = NoDirectory
          /\ \A e \in Dirs : e # thread.dir => dirs'[e] = dirs[e]
      BY <1>2, <1>3, Blanks, WriteStep DEF OfferInv
    <2>2. /\ thread' = NoThread /\ thread'.step = "none" /\ thread'.dir = 0
          /\ thread' \in [step : Steps, version : {0} \cup Versions,
                          manifest : MaybeManifest, dir : {0} \cup Dirs]
      BY <1>3, Blanks DEF Done
    <2>3. ThreadIsChecked' /\ DirectoryIsFilled'
      BY <2>2 DEF ThreadIsChecked, DirectoryIsFilled, Filling
    <2>4. InstallersAreSigned' /\ NothingHalfIsLeft'
      BY <1>1, <2>1, Blanks
      DEF OfferInv, OffersAreSound, InstallersAreSigned, NothingHalfIsLeft
    <2>5. OffersAreNewer' /\ KeepsWhatIsOffered' /\ DialogHasPlan'
      BY <1>1, <1>2
      DEF OfferInv, OffersAreSound, OffersAreNewer, KeepsWhatIsOffered, DialogHasPlan
    <2> QED BY <1>1, <2>1, <2>2, <2>3, <2>4, <2>5
            DEF OfferInv, OfferTypeOK, OffersAreSound, Directories
  <1>4. ASSUME NEW i \in DOMAIN RemovalOrder,
               dirs' = [dirs EXCEPT ![thread.dir] = [Here EXCEPT ![RemovalOrder[i]] = None]],
               UNCHANGED thread
        PROVE  OfferInv'
    <2>1. RemovalOrder[i] \in {"part", "installer", "manifest", "signature"}
      BY DEF RemovalOrder
    <2>4. PICK x : x = [Here EXCEPT ![RemovalOrder[i]] = None]
      OBVIOUS
    <2>5. None \in MaybeBuild /\ None \in MaybeManifest
      BY DEF MaybeBuild, MaybeManifest
    <2>2. x \in Directories /\ x.there /\ x.installer = None
      <3>1. CASE RemovalOrder[i] = "part"
        <4>1. x = [Here EXCEPT !.part = None]
          BY <2>4, <3>1
        <4> QED BY <1>2, <2>5, <4>1, PartEdited
      <3>2. CASE RemovalOrder[i] = "installer"
        <4>1. x = [Here EXCEPT !.installer = None]
          BY <2>4, <3>2
        <4> QED BY <1>2, <2>5, <4>1, InstallerRemoved
      <3>3. CASE RemovalOrder[i] = "manifest"
        <4>1. x = [Here EXCEPT !.manifest = None]
          BY <2>4, <3>3
        <4> QED BY <1>2, <2>5, <4>1, ManifestEdited
      <3>4. CASE RemovalOrder[i] = "signature"
        <4>1. x = [Here EXCEPT !.signature = None]
          BY <2>4, <3>4
        <4> QED BY <1>2, <2>5, <4>1, SignatureEdited
      <3> QED BY <2>1, <3>1, <3>2, <3>3, <3>4
    <2>3. thread' = [thread EXCEPT !.step = "clean"]
      BY <1>1, <1>4 DEF OfferInv, OfferTypeOK
    <2> QED BY <1>1, <1>4, <2>2, <2>3, <2>4, FillStep DEF Filling
  <1> QED BY <1>3, <1>4 DEF Remove, Writes

LEMMA DownloadedStep ==
    ASSUME OfferInv, Downloaded
    PROVE  OfferInv'
  <1>1. thread.step = "done" /\ UNCHANGED <<current, expired, dirs, broken>>
    BY DEF Downloaded, At
  <1>2. /\ thread.dir \in Dirs /\ thread.manifest.build \in Builds
        /\ OffersAreNewer /\ DialogHasPlan
    BY <1>1, Downloading DEF Filling
  <1>3. /\ dirs[thread.dir].installer # None /\ dirs[thread.dir].manifest = offer.plan
    BY <1>1, <1>2 DEF OfferInv, DirectoryIsFilled, Filling
  <1>4. /\ offer' \in [plan : MaybeManifest, dialog : BOOLEAN, waiting : BOOLEAN,
                       cancelled : BOOLEAN, downloaded : {0} \cup Dirs]
        /\ offer'.plan = offer.plan /\ offer'.downloaded \in {offer.downloaded, thread.dir}
        /\ offer'.dialog = offer.dialog /\ offer'.waiting = offer.waiting
        /\ thread' # NoThread => offer'.downloaded = thread.dir
    BY <1>2 DEF Downloaded, Done, OfferInv, OfferTypeOK
  <1>5. OffersAreNewer' /\ KeepsWhatIsOffered' /\ DialogHasPlan'
    BY <1>1, <1>2, <1>3, <1>4
    DEF OfferInv, OffersAreSound, OffersAreNewer, KeepsWhatIsOffered, DialogHasPlan
  <1>6. CASE Done
    BY <1>1, <1>3, <1>4, <1>5, <1>6, ThreadEnds DEF OfferInv, OfferTypeOK, OffersAreSound
  <1>7. CASE thread' = [NoThread EXCEPT !.step = "launch", !.dir = offer'.downloaded]
    <2>1. /\ thread' \in [step : Steps, version : {0} \cup Versions,
                          manifest : MaybeManifest, dir : {0} \cup Dirs]
          /\ thread'.step = "launch" /\ thread'.dir = offer'.downloaded
      BY <1>4, <1>7, Blanks DEF Steps
    <2>2. thread'.dir = thread.dir
      BY <1>4, <2>1, Blanks
    <2>3. ThreadIsChecked' /\ DirectoryIsFilled'
      BY <1>1, <1>2, <1>3, <2>1, <2>2 DEF ThreadIsChecked, DirectoryIsFilled, Filling
    <2>4. InstallersAreSigned' /\ NothingHalfIsLeft'
      BY <1>1, <2>2 DEF OfferInv, OffersAreSound, InstallersAreSigned, NothingHalfIsLeft
    <2> QED BY <1>1, <1>4, <1>5, <2>1, <2>3, <2>4 DEF OfferInv, OfferTypeOK, OffersAreSound
  <1> QED BY <1>6, <1>7 DEF Downloaded

\* The hand-over, the end of the program, a removal that fails, and time.
LEMMA EndStep ==
    ASSUME OfferInv,
           RemovalFails \/ LaunchInstaller \/ EndProgram \/ Expire \/ UNCHANGED offerVars
    PROVE  OfferInv'
  <1>1. CASE RemovalFails
    <2>1. /\ Done /\ broken' = broken \cup {thread.dir}
          /\ UNCHANGED <<current, expired, offer, dirs>> /\ thread.step = "clean"
      BY <1>1 DEF RemovalFails, At
    <2>2. thread.dir \in Dirs
      BY <2>1, Downloading DEF Filling
    <2>3. OffersAreNewer' /\ KeepsWhatIsOffered' /\ DialogHasPlan'
      BY <2>1 DEF OfferInv, OffersAreSound, OffersAreNewer, KeepsWhatIsOffered, DialogHasPlan
    <2> QED BY <2>1, <2>2, <2>3, ThreadEnds DEF OfferInv, OfferTypeOK, OffersAreSound
  <1>2. CASE LaunchInstaller
    <2>1. /\ thread.step = "launch" /\ Done /\ UNCHANGED <<expired, dirs, broken>>
          /\ dirs[thread.dir].installer # None
      BY <1>2 DEF LaunchInstaller, At, OfferInv, ThreadIsChecked
    <2>2. /\ current' \in Versions
          /\ \/ /\ offer' \in {offer, [offer EXCEPT !.downloaded = 0]} /\ current' = current
             \/ offer' = NoPlan
      <3>1. CASE /\ Here.installer # None /\ MayBeInstalled(Here)
                 /\ current' \in {current, Here.manifest.version} /\ offer' = NoPlan
        BY <3>1 DEF MayBeInstalled, Verified, OfferInv, OfferTypeOK, Manifests
      <3> QED BY <1>2, <3>1 DEF LaunchInstaller, OfferInv, OfferTypeOK
    <2>3. /\ offer' \in [plan : MaybeManifest, dialog : BOOLEAN, waiting : BOOLEAN,
                         cancelled : BOOLEAN, downloaded : {0} \cup Dirs]
          /\ OffersAreNewer' /\ KeepsWhatIsOffered' /\ DialogHasPlan'
      <3>1. CASE /\ offer' \in {offer, [offer EXCEPT !.downloaded = 0]}
                 /\ current' = current
        <4>1. /\ offer' \in [plan : MaybeManifest, dialog : BOOLEAN, waiting : BOOLEAN,
                             cancelled : BOOLEAN, downloaded : {0} \cup Dirs]
              /\ offer'.plan = offer.plan /\ offer'.downloaded \in {0, offer.downloaded}
              /\ offer'.dialog = offer.dialog /\ offer'.waiting = offer.waiting
          BY <3>1 DEF OfferInv, OfferTypeOK
        <4> QED BY <2>1, <3>1, <4>1 DEF OfferInv, OffersAreSound, OffersAreNewer,
                                        KeepsWhatIsOffered, DialogHasPlan
      <3>2. CASE offer' = NoPlan
        BY <3>2, Blanks DEF OffersAreNewer, KeepsWhatIsOffered, DialogHasPlan
      <3> QED BY <2>2, <3>1, <3>2
    <2> QED BY <2>1, <2>2, <2>3, ThreadEnds DEF OfferInv, OfferTypeOK, OffersAreSound
  <1>3. CASE EndProgram
    <2>1. /\ offer' = NoPlan /\ Done /\ broken' = broken \cup ({thread.dir} \ {0})
          /\ UNCHANGED <<current, expired, dirs>>
      BY <1>3 DEF EndProgram
    <2>2. thread.dir \in {0} \cup Dirs
      BY DEF OfferInv, OfferTypeOK
    <2>3. OffersAreNewer' /\ KeepsWhatIsOffered' /\ DialogHasPlan'
      BY <2>1, Blanks DEF OffersAreNewer, KeepsWhatIsOffered, DialogHasPlan
    <2> QED BY <2>1, <2>2, <2>3, Blanks, ThreadEnds DEF OfferInv, OfferTypeOK, OffersAreSound
  <1>4. CASE Expire \/ UNCHANGED offerVars
    <2>1. /\ UNCHANGED <<current, offer, thread, dirs, broken>>
          /\ expired' \subseteq Authentic
      BY <1>4 DEF Expire, offerVars, OfferInv, OfferTypeOK
    <2>2. ThreadIsChecked' /\ DirectoryIsFilled' /\ DialogHasPlan'
      BY <2>1 DEF OfferInv, ThreadIsChecked, DirectoryIsFilled, DialogHasPlan
    <2>3. OffersAreSound'
      BY <2>1 DEF OfferInv, OffersAreSound, InstallersAreSigned, OffersAreNewer,
                  KeepsWhatIsOffered, NothingHalfIsLeft
    <2> QED BY <2>1, <2>2, <2>3 DEF OfferInv, OfferTypeOK
  <1> QED BY <1>1, <1>2, <1>3, <1>4

\* How far a download is, its directory is filled with what was signed, and
\* every other directory holds a whole download or nothing.
THEOREM OfferInvariant == OfferSpec => []OfferInv
  <1>1. OfferInit => OfferInv
    <2> SUFFICES ASSUME OfferInit
                 PROVE  OfferInv
      OBVIOUS
    <2>1. OfferTypeOK
      BY Blanks DEF OfferInit, OfferTypeOK, Directories
    <2>2. ThreadIsChecked /\ DirectoryIsFilled /\ DialogHasPlan
      BY Blanks DEF OfferInit, ThreadIsChecked, DirectoryIsFilled, DialogHasPlan, Filling
    <2>3. OffersAreSound
      BY Blanks DEF OfferInit, OffersAreSound, InstallersAreSigned, OffersAreNewer,
                    KeepsWhatIsOffered, NothingHalfIsLeft
    <2> QED BY <2>1, <2>2, <2>3 DEF OfferInv
  <1>2. OfferInv /\ [OfferNext]_offerVars => OfferInv'
    BY SearchStep, FoundStep, DialogStep, MakeDirectoryStep, StreamStep, DigestStep,
       WriteManifestStep, WriteSignatureStep, PublishStep, RemoveStep, DownloadedStep, EndStep
    DEF OfferNext
  <1> QED BY <1>1, <1>2, PTL DEF OfferSpec

\* Whatever the release page answers and wherever a download is cut off: what
\* is offered, stored and kept is one signed version newer than the program.
THEOREM OffersStaySound == OfferSpec => []OffersAreSound
  <1>1. OfferInv => OffersAreSound
    BY DEF OfferInv
  <1> QED BY <1>1, OfferInvariant, PTL

-----------------------------------------------------------------------------
(* The installation.                                                       *)

UiFields == [dialog : BOOLEAN, busy : BOOLEAN, cancelled : BOOLEAN, closed : BOOLEAN,
             downloaded : {0} \cup Jobs, job : {0} \cup Jobs,
             started : BOOLEAN, committed : BOOLEAN]
Ends == {"none", "begin", "join", "poll", "launched", "done", "error"}
TaskFields == [stage : {"none", "download", "pause", "launch"}, step : Ends,
               job : {0} \cup Jobs]
SyncFields == [worker : BOOLEAN, stop : BOOLEAN, resume : BOOLEAN]
JobFields == [phase : Phases, cancel : BOOLEAN, authorized : BOOLEAN, started : BOOLEAN]
HelperSteps == {"none", "verify", "waiting", "decide", "elevate", "install", "start", "confirm",
                "gave_up", "done"}
Mutexes == [application : {"old", "other", "next", "none"}, update : {0} \cup Jobs]
Programs == [other : {"none", "begins", "looked", "running", "over"},
             next : {"none", "begins", "looked", "running", "over"}, early : BOOLEAN]

UpdateTypes ==
    /\ ui \in UiFields /\ ready \in BOOLEAN /\ task \in TaskFields /\ sync \in SyncFields
    /\ app \in {"running", "closing", "gone"}
    /\ jobs \in [Jobs -> JobFields] /\ helper \in [Jobs -> HelperSteps]
    /\ mutex \in Mutexes /\ fresh \in Programs

\* The thread works for a window that waits; a program that has agreed to be
\* replaced has no thread any more.
ThreadIsAwaited ==
    /\ task # NoTask => ui.busy
    /\ ui.committed => task = NoTask /\ ui.closed /\ app # "running"
    /\ task.stage = "launch" => task.job \in Jobs

\* From the moment the worker was found stopped until the window hears of the
\* launch, nobody starts it again.
WorkerStaysPaused ==
    /\ task.stage = "pause" /\ task.step \in {"join", "done"} => ~sync.resume
    /\ task.stage = "pause" /\ task.step = "done" => ~sync.worker
    /\ task.stage = "launch" => ~sync.worker /\ ~sync.resume

\* Only the program that exits approves, and nothing cancels after that; the
\* helper goes on when it has gone.
ApprovalHolds ==
    /\ \A n \in Jobs : jobs[n].authorized => ui.committed /\ ~jobs[n].cancel
    /\ \A n \in Jobs : helper[n] \in {"decide", "elevate", "install", "start", "confirm"}
         => app = "gone"
    /\ \A n \in Jobs : helper[n] \in {"elevate", "install", "start"} => jobs[n].authorized

\* Helpers that hold the update mutex; there is one at a time.
Holding == {"waiting", "decide", "elevate", "install", "start", "confirm"}
HelperIsAlone == \A n \in Jobs : helper[n] \in Holding <=> mutex.update = n

\* Which programs may begin beside a helper.
ProgramsKeepAway ==
    /\ fresh.other = "looked" => fresh.early
    /\ fresh.other \in {"none", "begins"} => ~fresh.early
    /\ fresh.next # "none" =>
         /\ app = "gone"
         /\ \A n \in Jobs : helper[n] \notin Holding \ {"confirm"}

\* A job is handed to one helper only: what the window keeps, and what the
\* thread is about to start, no helper has seen.
IsNew(n) == jobs[n].phase # "none" /\ helper[n] = "none"

OneHelperPerJob ==
    /\ \A n \in Jobs : jobs[n].phase = "none" => helper[n] = "none"
    /\ task.stage = "download" /\ task.step = "done" => task.job \in Jobs /\ IsNew(task.job)
    /\ task.stage = "launch" /\ task.step = "begin" => IsNew(task.job)
    /\ UiRuns /\ ui.downloaded # 0 =>
         IF task.stage = "launch"
         THEN ui.downloaded = task.job /\ (task.step = "done" => ui.job = task.job)
         ELSE IsNew(ui.downloaded)

UpdateInv ==
    /\ UpdateTypes /\ ThreadIsAwaited /\ WorkerStaysPaused /\ ApprovalHolds /\ HelperIsAlone
    /\ ProgramsKeepAway /\ OneHelperPerJob /\ NoProgramDuringInstallation

\* A job number is not the number of no job.
LEMMA JobIsSome == 0 \notin Jobs
  BY DEF Jobs

LEMMA NoThreadOfUpdate == NoTask \in TaskFields /\ NoTask.stage = "none" /\ NoTask.step = "none"
  BY DEF NoTask, TaskFields, Ends

\* What a step on the UI thread or on the background thread owes, when the
\* program has not agreed to be replaced.
LEMMA UiStep ==
    ASSUME UpdateInv, app # "gone", ~ui.committed, UNCHANGED <<helper, mutex, fresh>>,
           ready' \in BOOLEAN, app' \in {"running", "closing"},
           ui' \in UiFields, ~ui'.committed, task' \in TaskFields,
           task' # NoTask => ui'.busy, task'.stage = "launch" => task'.job \in Jobs,
           sync' \in SyncFields, WorkerStaysPaused',
           jobs' \in [Jobs -> JobFields],
           \A n \in Jobs : jobs'[n].authorized = jobs[n].authorized,
           OneHelperPerJob'
    PROVE  UpdateInv'
  <1>1. UpdateTypes'
    BY DEF UpdateInv, UpdateTypes
  <1>2. ThreadIsAwaited'
    BY DEF ThreadIsAwaited
  <1>3. ApprovalHolds'
    BY DEF UpdateInv, ApprovalHolds
  <1>4. HelperIsAlone' /\ NoProgramDuringInstallation'
    BY DEF UpdateInv, HelperIsAlone, NoProgramDuringInstallation
  <1>5. ProgramsKeepAway'
    BY DEF UpdateInv, ProgramsKeepAway
  <1> QED BY <1>1, <1>2, <1>3, <1>4, <1>5 DEF UpdateInv

\* A mark to cancel leaves everything else of the job as it is.
LEMMA Marked ==
    ASSUME UpdateTypes, NEW n \in Jobs
    PROVE  /\ CancelMark(n) \in [Jobs -> JobFields]
           /\ \A k \in Jobs : /\ CancelMark(n)[k].phase = jobs[k].phase
                              /\ CancelMark(n)[k].authorized = jobs[k].authorized
  BY DEF UpdateTypes, CancelMark, JobFields

\* Jobs of which at most the mark to cancel has changed.
SameJobs ==
    /\ jobs' \in [Jobs -> JobFields]
    /\ \A k \in Jobs : /\ jobs'[k].phase = jobs[k].phase
                       /\ jobs'[k].authorized = jobs[k].authorized

LEMMA MarkedOrNot ==
    ASSUME UpdateTypes, NEW n \in Jobs, jobs' = CancelMark(n) \/ jobs' = jobs
    PROVE  SameJobs
  BY Marked DEF SameJobs, UpdateTypes

\* The window is idle: the offer is shown, given up, or something is entered.
LEMMA IdleUiStep ==
    ASSUME UpdateInv, ShowOffer \/ Disturb \/ Reject
    PROVE  UpdateInv'
  <1>1. /\ UiRuns /\ UNCHANGED <<task, sync, app, jobs, helper, mutex, fresh>>
        /\ ready' \in BOOLEAN
    BY DEF ShowOffer, Disturb, Reject, UpdateInv, UpdateTypes
  <1>2. /\ ui' \in UiFields /\ ui'.busy = ui.busy /\ ui'.committed = ui.committed
        /\ ui'.closed = ui.closed /\ ui'.job = ui.job
        /\ ui'.downloaded \in {0, ui.downloaded}
    BY DEF ShowOffer, Disturb, Reject, UpdateInv, UpdateTypes, UiFields
  <1>3. OneHelperPerJob'
    BY <1>1, <1>2 DEF UpdateInv, OneHelperPerJob, IsNew, UiRuns
  <1>4. WorkerStaysPaused' /\ ~ui.committed /\ task \in TaskFields /\ app # "gone"
    BY <1>1 DEF UpdateInv, UpdateTypes, WorkerStaysPaused, ThreadIsAwaited, UiRuns
  <1> QED BY <1>1, <1>2, <1>3, <1>4, UiStep
          DEF UpdateInv, UpdateTypes, ThreadIsAwaited, UiRuns

\* _release_handoff
LEMMA ReleaseStep ==
    ASSUME UpdateTypes, NEW u \in UiFields, Release(u)
    PROVE  /\ ui' \in UiFields /\ sync' \in SyncFields
           /\ ui'.busy = u.busy /\ ui'.committed = u.committed /\ ui'.closed = u.closed
           /\ ui'.downloaded = u.downloaded /\ ui'.job = u.job
  BY DEF Release, UpdateTypes, UiFields, Resumed, SyncFields

\* _fail_handoff
LEMMA FailStep ==
    ASSUME UpdateTypes, NEW u \in UiFields, u.job = ui.job, Fail(u)
    PROVE  /\ ui' \in UiFields /\ sync' \in SyncFields /\ SameJobs
           /\ ui'.busy = u.busy /\ ui'.committed = u.committed /\ ui'.closed = u.closed
           /\ ui'.downloaded # 0 => ui'.downloaded = u.downloaded /\ u.job = 0
  <1>1. CASE u.job # 0 /\ Release([u EXCEPT !.job = 0, !.downloaded = 0])
             /\ jobs' = IF Over(u.job) THEN jobs ELSE CancelMark(u.job)
    <2>1. PICK v : v = [u EXCEPT !.job = 0, !.downloaded = 0]
      OBVIOUS
    <2>2. /\ v \in UiFields /\ v.busy = u.busy /\ v.committed = u.committed
          /\ v.closed = u.closed /\ v.downloaded = 0
      BY <2>1 DEF UiFields
    <2>3. u.job \in Jobs
      BY <1>1 DEF UiFields
    <2>4. SameJobs
      BY <1>1, <2>3, MarkedOrNot
    <2> QED BY <1>1, <2>1, <2>2, <2>4, ReleaseStep
  <1>2. CASE u.job # 0 /\ Release([u EXCEPT !.downloaded = 0]) /\ UNCHANGED jobs
    <2>1. PICK v : v = [u EXCEPT !.downloaded = 0]
      OBVIOUS
    <2>2. /\ v \in UiFields /\ v.busy = u.busy /\ v.committed = u.committed
          /\ v.closed = u.closed /\ v.downloaded = 0
      BY <2>1 DEF UiFields
    <2>3. SameJobs
      BY <1>2 DEF SameJobs, UpdateTypes
    <2> QED BY <1>2, <2>1, <2>2, <2>3, ReleaseStep
  <1>3. CASE u.job = 0 /\ Release(u) /\ UNCHANGED jobs
    <2>1. SameJobs
      BY <1>3 DEF SameJobs, UpdateTypes
    <2> QED BY <1>3, <2>1, ReleaseStep
  <1> QED BY <1>1, <1>2, <1>3 DEF Fail

\* The thread has ended or never began: what is kept is new.
LEMMA IdleStep ==
    ASSUME UpdateInv, UiRuns, UNCHANGED <<helper, mutex, fresh, app>>, ready' \in BOOLEAN,
           task' = NoTask, ui' \in UiFields, ui'.committed = ui.committed, sync' \in SyncFields,
           SameJobs, ui'.downloaded # 0 => IsNew(ui'.downloaded)
    PROVE  UpdateInv'
  <1>1. OneHelperPerJob'
    BY NoThreadOfUpdate DEF UpdateInv, OneHelperPerJob, IsNew, SameJobs, UiFields
  <1>2. WorkerStaysPaused'
    BY NoThreadOfUpdate DEF WorkerStaysPaused
  <1>3. ~ui.committed /\ app = "running"
    BY DEF UpdateInv, ThreadIsAwaited, UiRuns
  <1> QED BY <1>1, <1>2, <1>3, NoThreadOfUpdate, UiStep DEF SameJobs

LEMMA DestroyedStep ==
    ASSUME UpdateInv, Destroyed
    PROVE  UpdateInv'
  <1>1. /\ UiRuns /\ UNCHANGED <<ready, task, app, helper, mutex, fresh>> /\ UpdateTypes
        /\ ~ui.committed /\ app = "running" /\ ready' \in BOOLEAN
    BY DEF Destroyed, UpdateInv, UpdateTypes, UiRuns
  <1>2. PICK u : u = [ui EXCEPT !.dialog = FALSE, !.cancelled = TRUE]
    OBVIOUS
  <1>3. /\ u \in UiFields /\ u.busy = ui.busy /\ u.committed = ui.committed
        /\ u.closed = ui.closed /\ u.job = ui.job /\ u.downloaded = ui.downloaded
    BY <1>1, <1>2 DEF UpdateTypes, UiFields
  <1>4. CASE ui.busy /\ ui' = u /\ UNCHANGED <<sync, jobs>>
    <2>1. WorkerStaysPaused' /\ OneHelperPerJob'
      BY <1>1, <1>3, <1>4
      DEF UpdateInv, WorkerStaysPaused, OneHelperPerJob, IsNew, UiRuns
    <2> QED BY <1>1, <1>3, <1>4, <2>1, UiStep DEF UpdateInv, UpdateTypes, ThreadIsAwaited
  <1>5. CASE ~ui.busy /\ Fail(u)
    <2>1. task = NoTask /\ task.stage # "launch"
      BY <1>5, NoThreadOfUpdate DEF UpdateInv, ThreadIsAwaited
    <2>2. ui.downloaded # 0 => IsNew(ui.downloaded)
      BY <1>1, <2>1 DEF UpdateInv, OneHelperPerJob
    <2> QED BY <1>1, <1>3, <1>5, <2>1, <2>2, FailStep, IdleStep
  <1> QED BY <1>2, <1>4, <1>5 DEF Destroyed

\* _begin_install
LEMMA BeginInstallStep ==
    ASSUME UpdateInv, BeginInstall
    PROVE  UpdateInv'
  <1>1. /\ UiRuns /\ ~ui.busy /\ UNCHANGED <<ready, sync, app, helper, mutex, fresh>>
        /\ UpdateTypes /\ ~ui.committed /\ app = "running" /\ ready' \in BOOLEAN
        /\ sync' \in SyncFields
    BY DEF BeginInstall, UpdateInv, UpdateTypes, ThreadIsAwaited, UiRuns
  <1>2. task = NoTask /\ task.stage = "none"
    BY <1>1, NoThreadOfUpdate DEF UpdateInv, ThreadIsAwaited
  <1>3. ui.downloaded # 0 => IsNew(ui.downloaded)
    BY <1>1, <1>2 DEF UpdateInv, OneHelperPerJob
  <1>4. CASE ui' = [ui EXCEPT !.downloaded = 0] /\ UNCHANGED <<task, jobs>>
    <2>1. ui' \in UiFields /\ ui'.committed = ui.committed /\ ui'.downloaded = 0
      BY <1>1, <1>4 DEF UpdateTypes, UiFields
    <2>2. SameJobs
      BY <1>1, <1>4 DEF SameJobs, UpdateTypes
    <2> QED BY <1>1, <1>2, <1>4, <2>1, <2>2, IdleStep
  <1>5. ASSUME NEW u, u = [ui EXCEPT !.job = 0, !.cancelled = FALSE,
                              !.downloaded = IF ui.job = 0 THEN @ ELSE 0],
               jobs' = IF ui.job = 0 \/ Over(ui.job) THEN jobs ELSE CancelMark(ui.job),
               IF u.downloaded # 0 THEN Handoff(u)
               ELSE ui' = [u EXCEPT !.busy = TRUE] /\ Run("download", 0)
        PROVE  UpdateInv'
    <2>1. /\ u \in UiFields /\ u.committed = ui.committed /\ u.closed = ui.closed
          /\ u.downloaded \in {0, ui.downloaded}
      BY <1>1, <1>5 DEF UpdateTypes, UiFields
    <2>2. SameJobs
      <3>1. CASE ui.job = 0
        BY <1>1, <1>5, <3>1 DEF SameJobs, UpdateTypes
      <3>2. CASE ui.job # 0
        <4>1. ui.job \in Jobs
          BY <1>1, <3>2 DEF UpdateTypes, UiFields
        <4> QED BY <1>1, <1>5, <4>1, MarkedOrNot
      <3> QED BY <3>1, <3>2
    <2>3. CASE ui' = u /\ UNCHANGED task
      BY <1>1, <1>2, <1>3, <2>1, <2>2, <2>3, IdleStep
    <2>4. ASSUME NEW s, NEW v, ui' = v, v \in UiFields, v.busy, v.committed = u.committed,
                 v.closed = u.closed, v.downloaded = u.downloaded,
                 s \in {"download", "pause"},
                 task' = [stage |-> s, step |-> "begin", job |-> 0]
          PROVE  UpdateInv'
      <3>1. /\ task' \in TaskFields /\ task'.stage = s /\ task'.step = "begin"
            /\ s # "launch"
        BY <2>4 DEF TaskFields, Ends
      <3>2. OneHelperPerJob'
        BY <1>1, <1>3, <2>1, <2>2, <2>4, <3>1
        DEF UpdateInv, OneHelperPerJob, IsNew, SameJobs, UiRuns, UiFields
      <3>3. WorkerStaysPaused'
        BY <2>4, <3>1 DEF WorkerStaysPaused
      <3> QED BY <1>1, <2>1, <2>2, <2>4, <3>1, <3>2, <3>3, UiStep DEF SameJobs
    <2>5. CASE ui' = [u EXCEPT !.busy = TRUE] /\ Run("download", 0)
      <3>1. /\ ui' \in UiFields /\ ui'.busy /\ ui'.committed = u.committed
            /\ ui'.closed = u.closed /\ ui'.downloaded = u.downloaded
        BY <2>1, <2>5 DEF UiFields
      <3> QED BY <2>4, <2>5, <3>1 DEF Run
    <2>6. CASE ui' = [u EXCEPT !.started = TRUE, !.busy = TRUE] /\ Run("pause", 0)
      <3>1. /\ ui' \in UiFields /\ ui'.busy /\ ui'.committed = u.committed
            /\ ui'.closed = u.closed /\ ui'.downloaded = u.downloaded
        BY <2>1, <2>6 DEF UiFields
      <3> QED BY <2>4, <2>6, <3>1 DEF Run
    <2> QED BY <1>5, <2>3, <2>5, <2>6 DEF Handoff
  <1> QED BY <1>4, <1>5 DEF BeginInstall

\* The program leaves, without having agreed to be replaced.
LEMMA QuitStep ==
    ASSUME UpdateInv, Quit
    PROVE  UpdateInv'
  <1>1. /\ UiRuns /\ UNCHANGED <<ready, task, helper, mutex, fresh>>
        /\ UpdateTypes /\ ~ui.committed /\ app = "running" /\ ready' \in BOOLEAN
        /\ app' = "closing" /\ sync' = Stopping(sync)
    BY DEF Quit, Leaves, UpdateInv, UpdateTypes, ThreadIsAwaited, UiRuns
  <1>2. ui' \in UiFields /\ ui'.busy = ui.busy /\ ui'.committed = ui.committed
    <2>1. PICK u : /\ u \in {[ui EXCEPT !.cancelled = TRUE, !.job = 0],
                             [ui EXCEPT !.cancelled = TRUE]}
                   /\ ui' = [u EXCEPT !.closed = TRUE]
      BY DEF Quit, Leaves
    <2>2. u \in UiFields /\ u.busy = ui.busy /\ u.committed = ui.committed
      BY <1>1, <2>1 DEF UpdateTypes, UiFields
    <2> QED BY <2>1, <2>2 DEF UiFields
  <1>3. SameJobs
    <2>1. CASE ui.job # 0 /\ jobs' = CancelMark(ui.job)
      <3>1. ui.job \in Jobs
        BY <1>1, <2>1 DEF UpdateTypes, UiFields
      <3> QED BY <1>1, <2>1, <3>1, MarkedOrNot
    <2>2. CASE jobs' = jobs
      BY <1>1, <2>2 DEF SameJobs, UpdateTypes
    <2> QED BY <2>1, <2>2 DEF Quit
  <1>4. /\ sync' \in SyncFields /\ ~sync'.resume /\ sync'.worker = sync.worker
    BY <1>1 DEF Stopping, UpdateTypes, SyncFields
  <1>5. WorkerStaysPaused'
    BY <1>1, <1>4 DEF UpdateInv, WorkerStaysPaused
  <1>6. OneHelperPerJob'
    <2>1. ~UiRuns'
      BY <1>1 DEF UiRuns
    <2>2. task.stage = "launch" => task.job \in Jobs
      BY DEF UpdateInv, ThreadIsAwaited
    <2> QED BY <1>1, <1>3, <2>1, <2>2 DEF UpdateInv, OneHelperPerJob, IsNew, SameJobs
  <1> QED BY <1>1, <1>2, <1>3, <1>4, <1>5, <1>6, UiStep
          DEF UpdateInv, UpdateTypes, ThreadIsAwaited, SameJobs

\* The process ends, with its thread and its worker.
LEMMA GoneStep ==
    ASSUME UpdateInv, Exit \/ ProgramKilled
    PROVE  UpdateInv'
  <1>1. /\ app # "gone" /\ app' = "gone" /\ task' = NoTask
        /\ sync' = [worker |-> FALSE, stop |-> TRUE, resume |-> FALSE]
        /\ mutex' = [mutex EXCEPT !.application = "none"]
        /\ UNCHANGED <<ui, ready, jobs, helper, fresh>>
        /\ app = "running" \/ app = "closing"
    BY DEF Exit, ProgramKilled, Gone
  <1>2. /\ mutex' \in Mutexes /\ mutex'.update = mutex.update /\ mutex'.application = "none"
    BY <1>1 DEF UpdateInv, UpdateTypes, Mutexes
  <1>3. UpdateTypes'
    BY <1>1, <1>2, NoThreadOfUpdate DEF UpdateInv, UpdateTypes, SyncFields
  <1>4. ThreadIsAwaited' /\ WorkerStaysPaused'
    BY <1>1, NoThreadOfUpdate DEF UpdateInv, ThreadIsAwaited, WorkerStaysPaused
  <1>5. ApprovalHolds' /\ HelperIsAlone' /\ NoProgramDuringInstallation'
    BY <1>1, <1>2
    DEF UpdateInv, ApprovalHolds, HelperIsAlone, NoProgramDuringInstallation
  <1>6. ProgramsKeepAway'
    BY <1>1 DEF UpdateInv, ProgramsKeepAway
  <1>7. OneHelperPerJob'
    BY <1>1, NoThreadOfUpdate DEF UpdateInv, OneHelperPerJob, IsNew, UiRuns
  <1> QED BY <1>3, <1>4, <1>5, <1>6, <1>7 DEF UpdateInv

\* The worker leaves, or starts again once if it was resumed meanwhile.
LEMMA WorkerLeavesStep ==
    ASSUME UpdateInv, WorkerLeaves
    PROVE  UpdateInv'
  <1>1. /\ UNCHANGED <<ui, ready, task, app, jobs, helper, mutex, fresh>>
        /\ sync' = IF sync.resume THEN [worker |-> TRUE, stop |-> FALSE, resume |-> FALSE]
                   ELSE [sync EXCEPT !.worker = FALSE]
    BY DEF WorkerLeaves
  <1>2. /\ sync' \in SyncFields /\ ~sync'.resume
        /\ ~sync.resume => ~sync'.worker
    BY <1>1 DEF UpdateInv, UpdateTypes, SyncFields
  <1>3. UpdateTypes'
    BY <1>1, <1>2 DEF UpdateInv, UpdateTypes
  <1>4. WorkerStaysPaused'
    BY <1>1, <1>2 DEF UpdateInv, WorkerStaysPaused
  <1> QED BY <1>1, <1>3, <1>4
          DEF UpdateInv, ThreadIsAwaited, ApprovalHolds, HelperIsAlone, ProgramsKeepAway,
              NoProgramDuringInstallation, OneHelperPerJob, IsNew, UiRuns

\* A download ends, in a directory of its own.
LEMMA DownloadStep ==
    ASSUME UpdateInv, Download
    PROVE  UpdateInv'
  <1>1. /\ app # "gone" /\ task.stage = "download" /\ task.step = "begin"
        /\ UNCHANGED <<ui, ready, sync, app, helper, mutex, fresh>>
        /\ UpdateTypes /\ task # NoTask /\ ui.busy
    BY NoThreadOfUpdate DEF Download, Untouched, UpdateInv, ThreadIsAwaited
  <1>2. ~ui.committed
    BY <1>1 DEF UpdateInv, ThreadIsAwaited
  <1>3. ASSUME NEW s \in {"done", "error"}, NEW n \in {0} \cup Jobs,
               task' = [task EXCEPT !.step = s, !.job = n],
               jobs' \in [Jobs -> JobFields],
               \A k \in Jobs : /\ jobs'[k].authorized = jobs[k].authorized
                               /\ jobs'[k].phase = "none" => jobs[k].phase = "none",
               s = "done" => n \in Jobs /\ helper[n] = "none" /\ jobs'[n].phase # "none"
        PROVE  UpdateInv'
    <2>1. /\ task' \in TaskFields /\ task'.stage = "download" /\ task'.step = s
          /\ task'.job = n
      BY <1>1, <1>3 DEF UpdateTypes, TaskFields, Ends
    <2>2. WorkerStaysPaused'
      BY <2>1 DEF WorkerStaysPaused
    <2>3. \A k \in Jobs : IsNew(k) => IsNew(k)'
      BY <1>1, <1>3 DEF IsNew
    <2>4. ui.downloaded \in {0} \cup Jobs
      BY <1>1 DEF UpdateTypes, UiFields
    <2>5. OneHelperPerJob'
      <3>1. \A k \in Jobs : jobs'[k].phase = "none" => helper'[k] = "none"
        BY <1>1, <1>3 DEF UpdateInv, OneHelperPerJob
      <3>2. s = "done" => n \in Jobs /\ IsNew(n)'
        BY <1>1, <1>3 DEF IsNew
      <3>3. UiRuns /\ ui.downloaded # 0 => IsNew(ui.downloaded)
        BY <1>1 DEF UpdateInv, OneHelperPerJob
      <3>4. UiRuns' /\ ui'.downloaded # 0 =>
              jobs'[ui.downloaded].phase # "none" /\ helper'[ui.downloaded] = "none"
        BY <1>1, <2>3, <2>4, <3>3 DEF UiRuns, IsNew
      <3> QED BY <1>1, <2>1, <3>1, <3>2, <3>4 DEF OneHelperPerJob, IsNew
    <2> QED BY <1>1, <1>2, <1>3, <2>1, <2>2, <2>5, UiStep DEF UpdateTypes
  <1>4. ASSUME NEW n \in Jobs, jobs[n] = Unused,
               jobs' = [jobs EXCEPT ![n].phase = "downloaded"], Post("done", n)
        PROVE  UpdateInv'
    <2>1. helper[n] = "none"
      BY <1>4 DEF UpdateInv, OneHelperPerJob, Unused
    <2>2. /\ jobs' \in [Jobs -> JobFields] /\ jobs'[n].phase # "none"
          /\ \A k \in Jobs : /\ jobs'[k].authorized = jobs[k].authorized
                             /\ jobs'[k].phase = "none" => jobs[k].phase = "none"
      BY <1>1, <1>4 DEF UpdateTypes, JobFields, Phases
    <2> QED BY <1>3, <1>4, <2>1, <2>2 DEF Post
  <1>5. CASE Post("error", 0) /\ UNCHANGED jobs
    BY <1>1, <1>3, <1>5 DEF Post, UpdateTypes
  <1> QED BY <1>4, <1>5 DEF Download

\* pause_for_update
LEMMA PauseStep ==
    ASSUME UpdateInv, Pause
    PROVE  UpdateInv'
  <1>1. /\ app # "gone" /\ task.stage = "pause"
        /\ UNCHANGED <<ui, ready, app, jobs, helper, mutex, fresh>>
        /\ UpdateTypes /\ task # NoTask /\ ui.busy
    BY NoThreadOfUpdate DEF Pause, Untouched, UpdateInv, ThreadIsAwaited
  <1>2. ~ui.committed
    BY <1>1 DEF UpdateInv, ThreadIsAwaited
  <1>3. PICK s \in {"join", "done", "error"} :
          /\ task' = [task EXCEPT !.step = s, !.job = 0]
          /\ \/ s = "join" /\ sync' = Stopping(sync)
             \/ s = "done" /\ task.step = "join" /\ ~sync.worker /\ UNCHANGED sync
             \/ s = "error" /\ UNCHANGED sync
    BY DEF Pause, Post
  <1>4. task' \in TaskFields /\ task'.stage = "pause" /\ task'.step = s
    BY <1>1, <1>3 DEF UpdateTypes, TaskFields, Ends
  <1>5. sync' \in SyncFields /\ WorkerStaysPaused'
    BY <1>1, <1>3, <1>4
    DEF UpdateInv, WorkerStaysPaused, UpdateTypes, SyncFields, Stopping
  <1>6. OneHelperPerJob'
    BY <1>1, <1>4 DEF UpdateInv, OneHelperPerJob, IsNew, UiRuns
  <1> QED BY <1>1, <1>2, <1>4, <1>5, <1>6, UiStep DEF UpdateTypes

\* What the thread of a launch may rely on.
LEMMA Launching ==
    ASSUME UpdateInv, app # "gone", task.stage = "launch"
    PROVE  /\ UpdateTypes /\ task # NoTask /\ ui.busy /\ ~ui.committed /\ task.job \in Jobs
           /\ \A k \in Jobs : ~jobs[k].authorized
  <1>1. task # NoTask /\ ui.busy /\ ~ui.committed /\ task.job \in Jobs
    BY NoThreadOfUpdate DEF UpdateInv, ThreadIsAwaited
  <1> QED BY <1>1 DEF UpdateInv, ApprovalHolds

\* The thread of a launch goes on: the worker stays as it is.
LEMMA LaunchGoesOn ==
    ASSUME UpdateInv, app # "gone", task.stage = "launch",
           UNCHANGED <<ready, sync, app, helper, mutex, fresh>>,
           NEW s \in {"launched", "done", "error"},
           task' = [task EXCEPT !.step = s, !.job = task.job],
           ui' \in UiFields, ui'.busy = ui.busy, ui'.committed = ui.committed,
           ui'.closed = ui.closed, ui'.downloaded \in {0, ui.downloaded}, SameJobs,
           s = "done" => ui'.downloaded = 0 \/ ui'.job = task.job
    PROVE  UpdateInv'
  <1>1. /\ task' \in TaskFields /\ task'.stage = "launch" /\ task'.step = s
        /\ task'.job = task.job
    BY Launching DEF UpdateTypes, TaskFields, Ends
  <1>2. WorkerStaysPaused'
    BY <1>1 DEF UpdateInv, WorkerStaysPaused
  <1>3. OneHelperPerJob'
    <2>1. \A k \in Jobs : jobs'[k].phase = "none" => helper'[k] = "none"
      BY DEF UpdateInv, OneHelperPerJob, SameJobs
    <2>2. UiRuns' /\ ui'.downloaded # 0 => ui'.downloaded = task.job
      BY DEF UpdateInv, OneHelperPerJob, UiRuns
    <2> QED BY <1>1, <2>1, <2>2 DEF OneHelperPerJob
  <1> QED BY <1>1, <1>2, <1>3, Launching, UiStep DEF UpdateTypes, SameJobs

\* launch_update
LEMMA LaunchStep ==
    ASSUME UpdateInv, Launch
    PROVE  UpdateInv'
  <1> DEFINE n == task.job
  <1>1. /\ app # "gone" /\ task.stage = "launch"
        /\ UNCHANGED <<ready, sync, app, mutex, fresh>>
    BY DEF Launch, Untouched
  <1>2. UpdateTypes /\ n \in Jobs /\ ~ui.committed /\ ui.busy
    BY <1>1, Launching
  <1>3. SameJobs \/ jobs' # jobs
    BY <1>2 DEF SameJobs, UpdateTypes
  <1>4. CASE /\ task.step = "begin" /\ helper' = [helper EXCEPT ![n] = "verify"]
             /\ Post("poll", n) /\ UNCHANGED <<ui, jobs>>
    <2>1. /\ task' \in TaskFields /\ task'.stage = "launch" /\ task'.step = "poll"
          /\ task'.job = n
      BY <1>1, <1>2, <1>4 DEF Post, UpdateTypes, TaskFields, Ends
    <2>2. helper[n] = "none" /\ jobs[n].phase # "none"
      BY <1>1, <1>4 DEF UpdateInv, OneHelperPerJob, IsNew
    <2>3. /\ helper' \in [Jobs -> HelperSteps] /\ helper'[n] = "verify"
          /\ \A k \in Jobs : k # n => helper'[k] = helper[k]
      BY <1>2, <1>4 DEF UpdateTypes, HelperSteps
    <2>4. UpdateTypes' /\ ThreadIsAwaited' /\ WorkerStaysPaused'
      BY <1>1, <1>2, <1>4, <2>1, <2>3
      DEF UpdateInv, UpdateTypes, ThreadIsAwaited, WorkerStaysPaused
    <2>5. ApprovalHolds' /\ NoProgramDuringInstallation'
      BY <1>1, <1>4, <2>3 DEF UpdateInv, ApprovalHolds, NoProgramDuringInstallation
    <2>6. HelperIsAlone' /\ ProgramsKeepAway'
      BY <1>1, <2>2, <2>3 DEF UpdateInv, HelperIsAlone, ProgramsKeepAway, Holding
    <2>7. OneHelperPerJob'
      BY <1>1, <1>4, <2>1, <2>2, <2>3 DEF UpdateInv, OneHelperPerJob, UiRuns
    <2> QED BY <2>4, <2>5, <2>6, <2>7 DEF UpdateInv
  <1>5. ASSUME UNCHANGED helper, NEW s \in {"launched", "error"}, Post(s, n), UNCHANGED ui,
               jobs' = jobs \/ jobs' = CancelMark(n)
        PROVE  UpdateInv'
    <2>1. SameJobs
      BY <1>2, <1>5, MarkedOrNot
    <2> QED BY <1>1, <1>2, <1>5, <2>1, LaunchGoesOn DEF Post, UpdateTypes
  <1>6. CASE Launched(n) /\ UNCHANGED helper
    <2>1. CASE /\ ui' \in {[ui EXCEPT !.job = n], [ui EXCEPT !.downloaded = 0]}
               /\ Post("done", n)
               /\ jobs' = jobs \/ jobs' = CancelMark(n)
      <3>1. /\ ui' \in UiFields /\ ui'.busy = ui.busy /\ ui'.committed = ui.committed
            /\ ui'.closed = ui.closed /\ ui'.downloaded \in {0, ui.downloaded}
            /\ ui'.downloaded = 0 \/ ui'.job = n
        BY <1>2, <2>1 DEF UpdateTypes, UiFields
      <3>2. SameJobs
        BY <1>2, <2>1, MarkedOrNot
      <3> QED BY <1>1, <1>6, <2>1, <3>1, <3>2, LaunchGoesOn DEF Post
    <2>2. CASE /\ ui' = [[ui EXCEPT !.job = n] EXCEPT !.downloaded = 0]
               /\ Post("error", n) /\ UNCHANGED jobs
      <3>1. /\ ui' \in UiFields /\ ui'.busy = ui.busy /\ ui'.committed = ui.committed
            /\ ui'.closed = ui.closed /\ ui'.downloaded \in {0, ui.downloaded}
        BY <1>2, <2>2 DEF UpdateTypes, UiFields
      <3>2. SameJobs
        BY <1>2, <2>2, MarkedOrNot
      <3> QED BY <1>1, <1>6, <2>2, <3>1, <3>2, LaunchGoesOn DEF Post
    <2> QED BY <1>6, <2>1, <2>2 DEF Launched
  <1> QED BY <1>4, <1>5, <1>6 DEF Launch

\* The last step: the program agrees to be replaced.
LEMMA ApproveStep ==
    ASSUME UpdateInv, UiRuns, NEW n \in Jobs, Approve(n), task' = NoTask,
           UNCHANGED <<ready, helper, mutex, fresh>>
    PROVE  UpdateInv'
  <1>1. /\ app = "running" /\ ~ui.committed /\ UpdateTypes /\ app' = "closing"
        /\ \A k \in Jobs : ~jobs[k].authorized
        /\ ~jobs[n].cancel /\ jobs' = [jobs EXCEPT ![n].authorized = TRUE]
        /\ sync' = Stopping(sync)
    BY DEF UpdateInv, UiRuns, ThreadIsAwaited, ApprovalHolds, Approve, MayAuthorize, Leaves
  <1>2. ui' \in UiFields /\ ui'.closed /\ ui'.committed
    <2>1. PICK u : /\ u = [ui EXCEPT !.committed = TRUE, !.job = 0, !.busy = FALSE]
                   /\ ui' = [u EXCEPT !.closed = TRUE]
      BY DEF Approve, Leaves
    <2>2. u \in UiFields /\ u.committed
      BY <1>1, <2>1 DEF UpdateTypes, UiFields
    <2> QED BY <2>1, <2>2 DEF UiFields
  <1>3. /\ jobs' \in [Jobs -> JobFields] /\ ~jobs'[n].cancel
        /\ \A k \in Jobs : /\ k # n => ~jobs'[k].authorized
                           /\ jobs'[k].phase = jobs[k].phase
    BY <1>1 DEF UpdateTypes, JobFields
  <1>4. UpdateTypes'
    BY <1>1, <1>2, <1>3, NoThreadOfUpdate DEF UpdateTypes, Stopping, SyncFields
  <1>5. ThreadIsAwaited' /\ WorkerStaysPaused' /\ ~UiRuns'
    BY <1>1, <1>2, NoThreadOfUpdate DEF ThreadIsAwaited, WorkerStaysPaused, UiRuns
  <1>6. ApprovalHolds'
    BY <1>1, <1>2, <1>3 DEF UpdateInv, ApprovalHolds
  <1>7. HelperIsAlone' /\ NoProgramDuringInstallation' /\ ProgramsKeepAway'
    BY <1>1
    DEF UpdateInv, HelperIsAlone, NoProgramDuringInstallation, ProgramsKeepAway
  <1>8. OneHelperPerJob'
    BY <1>3, <1>5, NoThreadOfUpdate DEF UpdateInv, OneHelperPerJob
  <1> QED BY <1>4, <1>5, <1>6, <1>7, <1>8 DEF UpdateInv

\* _on_completed, after a download.
LEMMA DownloadCompleted ==
    ASSUME UpdateInv, UiRuns, task.stage = "download", task.step = "done",
           UNCHANGED <<ready, helper, mutex, fresh, sync, app, jobs>>,
           NEW u, u = [ui EXCEPT !.busy = FALSE],
           IF ui.cancelled THEN ui' = u /\ task' = NoTask
           ELSE IF ready THEN Handoff([u EXCEPT !.downloaded = task.job])
           ELSE ui' = [u EXCEPT !.downloaded = task.job] /\ task' = NoTask
    PROVE  UpdateInv'
  <1> DEFINE n == task.job
  <1>1. /\ UpdateTypes /\ n \in Jobs /\ IsNew(n) /\ ~ui.committed /\ app = "running"
        /\ ui.downloaded # 0 => IsNew(ui.downloaded)
    BY DEF UpdateInv, OneHelperPerJob, ThreadIsAwaited, UiRuns
  <1>2. SameJobs
    BY <1>1 DEF SameJobs, UpdateTypes
  <1>3. CASE ui' \in {u, [u EXCEPT !.downloaded = n]} /\ task' = NoTask
    <2>1. /\ ui' \in UiFields /\ ui'.committed = ui.committed
          /\ ui'.downloaded \in {ui.downloaded, n}
      BY <1>1, <1>3 DEF UpdateTypes, UiFields
    <2> QED BY <1>1, <1>2, <1>3, <2>1, IdleStep DEF UpdateTypes
  <1>4. CASE ready /\ Handoff([u EXCEPT !.downloaded = n])
    <2>1. PICK v : v = [u EXCEPT !.downloaded = n]
      OBVIOUS
    <2>2. /\ ui' = [v EXCEPT !.started = TRUE, !.busy = TRUE]
          /\ task' = [stage |-> "pause", step |-> "begin", job |-> 0]
      BY <1>4, <2>1 DEF Handoff, Run
    <2>3. v \in UiFields /\ v.committed = ui.committed /\ v.downloaded = n
      BY <1>1, <2>1 DEF UpdateTypes, UiFields
    <2>4. ui' \in UiFields /\ ui'.committed = ui.committed /\ ui'.downloaded = n /\ ui'.busy
      BY <2>2, <2>3 DEF UiFields
    <2>5. task' \in TaskFields /\ task'.stage = "pause" /\ task'.step = "begin"
      BY <2>2 DEF TaskFields, Ends
    <2>6. WorkerStaysPaused' /\ OneHelperPerJob'
      BY <1>1, <2>4, <2>5 DEF UpdateInv, WorkerStaysPaused, OneHelperPerJob, IsNew
    <2> QED BY <1>1, <2>4, <2>5, <2>6, UiStep DEF UpdateTypes
  <1> QED BY <1>3, <1>4

\* _on_completed, after the worker was paused.
LEMMA PauseCompleted ==
    ASSUME UpdateInv, UiRuns, task.stage = "pause", task.step = "done", Valid,
           ui.downloaded # 0, Run("launch", ui.downloaded),
           UNCHANGED <<ready, helper, mutex, fresh, sync, app, jobs, ui>>
    PROVE  UpdateInv'
  <1>1. /\ UpdateTypes /\ IsNew(ui.downloaded) /\ ~ui.committed /\ app = "running"
        /\ task # NoTask /\ ui.busy
    BY NoThreadOfUpdate DEF UpdateInv, OneHelperPerJob, ThreadIsAwaited, UiRuns
  <1>2. ui.downloaded \in Jobs
    BY <1>1 DEF UpdateTypes, UiFields
  <1>3. /\ task' \in TaskFields /\ task'.stage = "launch" /\ task'.step = "begin"
        /\ task'.job = ui.downloaded
    BY <1>2 DEF Run, TaskFields, Ends
  <1>4. WorkerStaysPaused'
    BY <1>3 DEF UpdateInv, WorkerStaysPaused
  <1>5. OneHelperPerJob'
    BY <1>1, <1>3 DEF UpdateInv, OneHelperPerJob, IsNew
  <1> QED BY <1>1, <1>2, <1>3, <1>4, <1>5, UiStep DEF UpdateTypes

\* _on_completed: whatever fails, or is not wanted any more, is let go.
LEMMA FailCompleted ==
    ASSUME UpdateInv, UiRuns, task.step \in {"done", "error"},
           task' = NoTask, UNCHANGED <<ready, app, helper, mutex, fresh>>,
           NEW u, u \in {[ui EXCEPT !.busy = FALSE],
                         [ui EXCEPT !.busy = FALSE, !.downloaded = 0]},
           task.stage = "launch" => task.step = "done" \/ u.downloaded = 0,
           Fail(u)
    PROVE  UpdateInv'
  <1>1. UpdateTypes /\ ~ui.committed /\ ready' \in BOOLEAN
    BY DEF UpdateInv, UpdateTypes, ThreadIsAwaited, UiRuns
  <1>2. /\ u \in UiFields /\ u.committed = ui.committed /\ u.job = ui.job
        /\ u.downloaded \in {0, ui.downloaded}
    BY <1>1 DEF UpdateTypes, UiFields
  <1>3. /\ ui' \in UiFields /\ sync' \in SyncFields /\ SameJobs
        /\ ui'.committed = ui.committed
        /\ ui'.downloaded # 0 => ui'.downloaded = u.downloaded /\ u.job = 0
    BY <1>1, <1>2, FailStep
  <1>4. ui'.downloaded # 0 => IsNew(ui'.downloaded)
    <2> SUFFICES ASSUME ui'.downloaded # 0
                 PROVE  IsNew(ui'.downloaded)
      OBVIOUS
    <2>1. ui'.downloaded = ui.downloaded /\ ui.job = 0 /\ u.downloaded # 0
      BY <1>2, <1>3
    <2>2. task.stage # "launch"
      <3> SUFFICES ASSUME task.stage = "launch"
                   PROVE  FALSE
        OBVIOUS
      <3>1. ui.downloaded = task.job /\ ui.job = task.job
        BY <2>1 DEF UpdateInv, OneHelperPerJob
      <3>2. task.job \in Jobs
        BY DEF UpdateInv, ThreadIsAwaited
      <3> QED BY <2>1, <3>1, <3>2, JobIsSome
    <2> QED BY <2>1, <2>2 DEF UpdateInv, OneHelperPerJob
  <1> QED BY <1>1, <1>3, <1>4, IdleStep

\* _on_completed
LEMMA CompletedStep ==
    ASSUME UpdateInv, Completed
    PROVE  UpdateInv'
  <1> DEFINE u == [ui EXCEPT !.busy = FALSE]
             n == task.job
  <1>1. /\ UiRuns /\ task.step \in {"done", "error"}
        /\ UNCHANGED <<ready, helper, mutex, fresh>> /\ UpdateTypes
    BY DEF Completed, UpdateInv
  <1>2. CASE /\ task.step = "error" /\ task' = NoTask /\ UNCHANGED app
             /\ Fail([u EXCEPT !.downloaded = IF task.stage = "launch" THEN 0 ELSE @])
    <2>1. PICK v : v = [u EXCEPT !.downloaded = IF task.stage = "launch" THEN 0 ELSE @]
      OBVIOUS
    <2>2. /\ v \in {u, [ui EXCEPT !.busy = FALSE, !.downloaded = 0]}
          /\ task.stage = "launch" => v.downloaded = 0
      BY <1>1, <2>1 DEF UpdateTypes, UiFields
    <2> QED BY <1>1, <1>2, <2>1, <2>2, FailCompleted
  <1>3. CASE /\ task.step = "done" /\ task.stage = "download"
             /\ UNCHANGED <<sync, app, jobs, faults>>
             /\ IF ui.cancelled THEN ui' = u /\ task' = NoTask
                ELSE IF ready THEN Handoff([u EXCEPT !.downloaded = n])
                ELSE ui' = [u EXCEPT !.downloaded = n] /\ task' = NoTask
    BY <1>1, <1>3, DownloadCompleted
  <1>4. CASE /\ task.step = "done" /\ task.stage = "pause" /\ UNCHANGED app
             /\ IF Valid /\ ui.downloaded # 0
                THEN Run("launch", ui.downloaded) /\ UNCHANGED <<ui, sync, jobs, faults>>
                ELSE task' = NoTask /\ Fail(u)
    BY <1>1, <1>4, PauseCompleted, FailCompleted
  <1>5. CASE /\ task.step = "done" /\ task.stage = "launch" /\ task' = NoTask
             /\ \/ Valid /\ Approve(n)
                \/ Fail(u) /\ UNCHANGED app
    <2>1. n \in Jobs
      BY <1>5 DEF UpdateInv, ThreadIsAwaited
    <2> QED BY <1>1, <1>5, <2>1, ApproveStep, FailCompleted
  <1> QED BY <1>2, <1>3, <1>4, <1>5 DEF Completed

\* What a helper leaves alone, whatever it does.
LEMMA HelperFrame ==
    ASSUME UpdateInv, NEW n \in Jobs, helper[n] # "none", HelperOnly,
           NEW pc \in HelperSteps \ {"none"}, helper' = [helper EXCEPT ![n] = pc],
           NEW phase \in Phases \ {"none"},
           jobs' = jobs \/ jobs' = [jobs EXCEPT ![n].phase = phase],
           mutex' \in Mutexes, fresh' \in Programs
    PROVE  /\ UpdateTypes' /\ ThreadIsAwaited' /\ WorkerStaysPaused' /\ OneHelperPerJob'
           /\ helper'[n] = pc /\ \A k \in Jobs : k # n => helper'[k] = helper[k]
           /\ \A k \in Jobs : /\ jobs'[k].authorized = jobs[k].authorized
                              /\ jobs'[k].cancel = jobs[k].cancel
  <1>1. /\ jobs' \in [Jobs -> JobFields]
        /\ \A k \in Jobs : /\ jobs'[k].authorized = jobs[k].authorized
                           /\ jobs'[k].cancel = jobs[k].cancel
                           /\ jobs'[k].phase = "none" => jobs[k].phase = "none"
    BY DEF UpdateInv, UpdateTypes, JobFields
  <1>2. /\ helper' \in [Jobs -> HelperSteps] /\ helper'[n] = pc
        /\ \A k \in Jobs : k # n => helper'[k] = helper[k]
    BY DEF UpdateInv, UpdateTypes
  <1>3. UNCHANGED <<ui, ready, task, sync, app>>
    BY DEF HelperOnly
  <1>4. UpdateTypes'
    BY <1>1, <1>2, <1>3 DEF UpdateInv, UpdateTypes
  <1>5. ThreadIsAwaited' /\ WorkerStaysPaused'
    BY <1>3 DEF UpdateInv, ThreadIsAwaited, WorkerStaysPaused
  <1>6. \A k \in Jobs : IsNew(k) => jobs'[k].phase # "none" /\ helper'[k] = "none"
    BY <1>1, <1>2 DEF IsNew
  <1>7. OneHelperPerJob'
    <2>1. \A k \in Jobs : jobs'[k].phase = "none" => helper'[k] = "none"
      BY <1>1, <1>2 DEF UpdateInv, OneHelperPerJob
    <2>2. task.stage = "launch" => task.job \in Jobs
      BY DEF UpdateInv, ThreadIsAwaited
    <2>3. ui.downloaded # 0 => ui.downloaded \in Jobs
      BY DEF UpdateInv, UpdateTypes, UiFields
    <2>4. UiRuns' = UiRuns
      BY <1>3 DEF UiRuns
    <2>5. task.stage = "download" /\ task.step = "done" => task.job \in Jobs /\ IsNew(task.job)'
      BY <1>3, <1>6 DEF UpdateInv, OneHelperPerJob, IsNew
    <2>6. task.stage = "launch" /\ task.step = "begin" => IsNew(task.job)'
      BY <1>3, <1>6, <2>2 DEF UpdateInv, OneHelperPerJob, IsNew
    <2>7. UiRuns /\ ui.downloaded # 0 /\ task.stage # "launch" => IsNew(ui.downloaded)'
      BY <1>3, <1>6, <2>3 DEF UpdateInv, OneHelperPerJob, IsNew
    <2> QED BY <1>3, <2>1, <2>4, <2>5, <2>6, <2>7 DEF UpdateInv, OneHelperPerJob
  <1> QED BY <1>1, <1>2, <1>4, <1>5, <1>7

\* A helper ends, and with it its hold on the update mutex.
LEMMA HelperEnds ==
    ASSUME UpdateInv, NEW n \in Jobs, helper[n] # "none", HelperOnly, UNCHANGED fresh,
           NEW pc \in {"done", "gave_up"}, NEW phase \in Phases \ {"none"},
           Phase(n, phase, pc),
           \/ helper[n] \in Holding /\ Frees
           \/ helper[n] \notin Holding /\ UNCHANGED mutex
    PROVE  UpdateInv'
  <1>1. /\ mutex' \in Mutexes /\ mutex'.application = mutex.application
        /\ mutex'.update = IF helper[n] \in Holding THEN 0 ELSE mutex.update
    BY DEF Frees, UpdateInv, UpdateTypes, Mutexes
  <1>2. fresh' \in Programs /\ pc \in HelperSteps \ {"none"} /\ pc \notin Holding
    BY DEF UpdateInv, UpdateTypes, HelperSteps, Holding
  <1>3. /\ UpdateTypes' /\ ThreadIsAwaited' /\ WorkerStaysPaused' /\ OneHelperPerJob'
        /\ helper'[n] = pc /\ \A k \in Jobs : k # n => helper'[k] = helper[k]
        /\ \A k \in Jobs : /\ jobs'[k].authorized = jobs[k].authorized
                           /\ jobs'[k].cancel = jobs[k].cancel
    BY <1>1, <1>2, HelperFrame DEF Phase
  <1>4. HelperIsAlone'
    BY <1>1, <1>2, <1>3, JobIsSome DEF UpdateInv, HelperIsAlone
  <1>5. ApprovalHolds'
    BY <1>3 DEF UpdateInv, ApprovalHolds, HelperOnly
  <1>6. ProgramsKeepAway'
    BY <1>2, <1>3 DEF UpdateInv, ProgramsKeepAway, HelperOnly
  <1>7. NoProgramDuringInstallation'
    BY <1>1, <1>3 DEF UpdateInv, NoProgramDuringInstallation
  <1> QED BY <1>3, <1>4, <1>5, <1>6, <1>7 DEF UpdateInv

\* A helper goes on and keeps the update mutex, or takes it.
LEMMA HelperGoesOn ==
    ASSUME UpdateInv, NEW n \in Jobs, helper[n] # "none", HelperOnly,
           NEW pc \in Holding, helper' = [helper EXCEPT ![n] = pc],
           NEW phase \in Phases \ {"none"},
           jobs' = jobs \/ jobs' = [jobs EXCEPT ![n].phase = phase],
           mutex' \in Mutexes, mutex'.application = mutex.application, mutex'.update = n,
           helper[n] \in Holding \/ mutex.update = 0,
           pc # "waiting" => app = "gone",
           pc \in {"elevate", "install", "start"} => jobs[n].authorized,
           pc = "install" => mutex.application = "none",
           \/ /\ UNCHANGED fresh /\ pc # "confirm"
              /\ app # "gone" \/ helper[n] \in Holding \ {"confirm"}
           \/ fresh' = [fresh EXCEPT !.next = "begins"] /\ pc = "confirm"
    PROVE  UpdateInv'
  <1>1. pc \in HelperSteps \ {"none"}
    BY DEF HelperSteps, Holding
  <1>8. /\ fresh' \in Programs /\ fresh'.other = fresh.other /\ fresh'.early = fresh.early
        /\ pc # "confirm" => fresh'.next = "none"
    BY DEF UpdateInv, UpdateTypes, Programs, ProgramsKeepAway
  <1>2. /\ UpdateTypes' /\ ThreadIsAwaited' /\ WorkerStaysPaused' /\ OneHelperPerJob'
        /\ helper'[n] = pc /\ \A k \in Jobs : k # n => helper'[k] = helper[k]
        /\ \A k \in Jobs : /\ jobs'[k].authorized = jobs[k].authorized
                           /\ jobs'[k].cancel = jobs[k].cancel
    BY <1>1, <1>8, HelperFrame
  <1>3. \A k \in Jobs : k # n => helper[k] \notin Holding
    BY JobIsSome DEF UpdateInv, HelperIsAlone
  <1>4. HelperIsAlone'
    BY <1>2, <1>3 DEF HelperIsAlone
  <1>5. ApprovalHolds'
    BY <1>2, JobIsSome DEF UpdateInv, ApprovalHolds, HelperOnly, Holding
  <1>6. ProgramsKeepAway'
    BY <1>2, <1>3, <1>8 DEF UpdateInv, ProgramsKeepAway, HelperOnly, Holding
  <1>7. NoProgramDuringInstallation'
    BY <1>2, <1>8 DEF UpdateInv, NoProgramDuringInstallation
  <1> QED BY <1>2, <1>4, <1>5, <1>6, <1>7 DEF UpdateInv

\* What a helper may rely on.
LEMMA HelperKnows ==
    ASSUME UpdateInv, NEW n \in Jobs
    PROVE  /\ UpdateTypes /\ mutex \in Mutexes
           /\ helper[n] \in Holding => mutex.update = n
           /\ helper[n] \in Holding \ {"waiting"} => app = "gone"
           /\ helper[n] \in {"elevate", "install", "start"} => jobs[n].authorized
  BY DEF UpdateInv, UpdateTypes, HelperIsAlone, ApprovalHolds, Holding

LEMMA VerifyStep ==
    ASSUME UpdateInv, NEW n \in Jobs, Verify(n)
    PROVE  UpdateInv'
  <1>1. /\ helper[n] = "verify" /\ HelperOnly /\ UNCHANGED fresh /\ mutex \in Mutexes
        /\ helper[n] \notin Holding
    BY HelperKnows DEF Verify, HelperAt, Holding
  <1>2. CASE /\ mutex.update = 0 /\ app # "gone" /\ Phase(n, "ready", "waiting")
             /\ mutex' = [mutex EXCEPT !.update = n]
    <2>1. /\ mutex' \in Mutexes /\ mutex'.application = mutex.application
          /\ mutex'.update = n
      BY <1>1, <1>2 DEF Mutexes
    <2>2. "ready" \in Phases \ {"none"} /\ "waiting" \in Holding
      BY DEF Phases, Holding
    <2> QED BY <1>1, <1>2, <2>1, <2>2, HelperGoesOn DEF Phase
  <1>3. CASE Phase(n, "failed", "done") /\ UNCHANGED mutex
    BY <1>1, <1>3, HelperEnds DEF Phases
  <1> QED BY <1>2, <1>3 DEF Verify

LEMMA AwaitExitStep ==
    ASSUME UpdateInv, NEW n \in Jobs, AwaitExit(n)
    PROVE  UpdateInv'
  <1>1. /\ helper[n] = "waiting" /\ HelperOnly /\ UNCHANGED fresh /\ mutex \in Mutexes
        /\ helper[n] \in Holding \ {"confirm"} /\ mutex.update = n
    BY HelperKnows DEF AwaitExit, HelperAt, Holding
  <1>2. CASE Phase(n, "cancelled", "done") /\ Frees
    BY <1>1, <1>2, HelperEnds DEF Phases
  <1>3. CASE Phase(n, "failed", "gave_up") /\ Frees
    BY <1>1, <1>3, HelperEnds DEF Phases
  <1>4. CASE /\ app = "gone" /\ helper' = [helper EXCEPT ![n] = "decide"]
             /\ UNCHANGED <<jobs, mutex>>
    <2>1. "decide" \in Holding /\ "failed" \in Phases \ {"none"}
      BY DEF Holding, Phases
    <2> QED BY <1>1, <1>4, <2>1, HelperGoesOn
  <1> QED BY <1>2, <1>3, <1>4 DEF AwaitExit

LEMMA InstallOrNotStep ==
    ASSUME UpdateInv, NEW n \in Jobs, InstallOrNot(n)
    PROVE  UpdateInv'
  <1>1. /\ helper[n] = "decide" /\ HelperOnly /\ UNCHANGED fresh /\ mutex \in Mutexes
        /\ helper[n] \in Holding \ {"confirm"} /\ mutex.update = n /\ app = "gone"
    BY HelperKnows DEF InstallOrNot, HelperAt, Holding
  <1>2. CASE Phase(n, "cancelled", "done") /\ Frees
    BY <1>1, <1>2, HelperEnds DEF Phases
  <1>3. CASE Phase(n, "failed", "done") /\ Frees
    BY <1>1, <1>3, HelperEnds DEF Phases
  <1>4. CASE MayInstall(n) /\ Phase(n, "installing", "elevate") /\ UNCHANGED mutex
    <2>1. "elevate" \in Holding /\ "installing" \in Phases \ {"none"}
      BY DEF Holding, Phases
    <2> QED BY <1>1, <1>4, <2>1, HelperGoesOn DEF Phase, MayInstall
  <1> QED BY <1>2, <1>3, <1>4 DEF InstallOrNot

LEMMA ElevateStep ==
    ASSUME UpdateInv, NEW n \in Jobs, Elevate(n)
    PROVE  UpdateInv'
  <1>1. /\ helper[n] = "elevate" /\ HelperOnly /\ UNCHANGED fresh /\ mutex \in Mutexes
        /\ helper[n] \in Holding \ {"confirm"} /\ mutex.update = n /\ app = "gone"
        /\ jobs[n].authorized
    BY HelperKnows DEF Elevate, HelperAt, Holding
  <1>2. "start" \in Holding /\ "install" \in Holding /\ "recovering" \in Phases \ {"none"}
    BY DEF Holding, Phases
  <1>3. CASE Phase(n, "recovering", "start") /\ UNCHANGED mutex
    BY <1>1, <1>2, <1>3, HelperGoesOn DEF Phase
  <1>4. CASE /\ mutex.application = "none" /\ helper' = [helper EXCEPT ![n] = "install"]
             /\ UNCHANGED <<jobs, mutex>>
    BY <1>1, <1>2, <1>4, HelperGoesOn
  <1>5. CASE Phase(n, "failed", "done") /\ Frees
    BY <1>1, <1>5, HelperEnds DEF Phases
  <1> QED BY <1>3, <1>4, <1>5 DEF Elevate

LEMMA InstallStep ==
    ASSUME UpdateInv, NEW n \in Jobs, Install(n)
    PROVE  UpdateInv'
  <1>1. /\ helper[n] = "install" /\ HelperOnly /\ UNCHANGED fresh /\ mutex \in Mutexes
        /\ helper[n] \in Holding \ {"confirm"} /\ mutex.update = n /\ app = "gone"
        /\ jobs[n].authorized
    BY HelperKnows DEF Install, HelperAt, Holding
  <1>2. CASE Phase(n, "starting", "start") /\ UNCHANGED mutex
    <2>1. "start" \in Holding /\ "starting" \in Phases \ {"none"}
      BY DEF Holding, Phases
    <2> QED BY <1>1, <1>2, <2>1, HelperGoesOn DEF Phase
  <1>3. CASE Phase(n, "reboot_required", "done") /\ Frees
    BY <1>1, <1>3, HelperEnds DEF Phases
  <1>4. CASE Phase(n, "failed", "done") /\ Frees
    BY <1>1, <1>4, HelperEnds DEF Phases
  <1> QED BY <1>2, <1>3, <1>4 DEF Install

LEMMA StartConfirmStep ==
    ASSUME UpdateInv, NEW n \in Jobs, StartApplication(n) \/ Confirm(n)
    PROVE  UpdateInv'
  <1>1. /\ helper[n] \in {"start", "confirm"} /\ HelperOnly /\ mutex \in Mutexes
        /\ helper[n] \in Holding /\ mutex.update = n /\ app = "gone"
    BY HelperKnows DEF StartApplication, Confirm, HelperAt, Holding
  <1>2. CASE /\ fresh' = [fresh EXCEPT !.next = "begins"]
             /\ helper' = [helper EXCEPT ![n] = "confirm"] /\ UNCHANGED <<jobs, mutex>>
    <2>1. "confirm" \in Holding /\ "starting" \in Phases \ {"none"}
      BY DEF Holding, Phases
    <2> QED BY <1>1, <1>2, <2>1, HelperGoesOn
  <1>3. ASSUME NEW phase \in Phases \ {"none"}, Phase(n, phase, "done"), Frees, UNCHANGED fresh
        PROVE  UpdateInv'
    BY <1>1, <1>3, HelperEnds
  <1> QED BY <1>2, <1>3 DEF StartApplication, Confirm, Phases

\* What the helper and the program that is replaced do not see: programs that
\* start meanwhile.
LEMMA ProgramStep ==
    ASSUME UpdateInv, ProgramOnly, jobs' \in [Jobs -> JobFields],
           \A k \in Jobs : /\ jobs'[k].phase = jobs[k].phase
                           /\ jobs'[k].cancel = jobs[k].cancel
                           /\ jobs'[k].authorized = jobs[k].authorized,
           mutex' \in Mutexes, mutex'.update = mutex.update,
           fresh' \in Programs, fresh'.next # "none" => fresh.next # "none",
           fresh'.other = "looked" => fresh'.early,
           fresh'.other \in {"none", "begins"} => ~fresh'.early,
           NoProgramDuringInstallation'
    PROVE  UpdateInv'
  <1>1. UNCHANGED <<ui, ready, task, sync, app, helper>>
    BY DEF ProgramOnly
  <1>2. UpdateTypes' /\ ThreadIsAwaited' /\ WorkerStaysPaused'
    BY <1>1 DEF UpdateInv, UpdateTypes, ThreadIsAwaited, WorkerStaysPaused
  <1>3. ApprovalHolds' /\ HelperIsAlone' /\ ProgramsKeepAway'
    BY <1>1 DEF UpdateInv, ApprovalHolds, HelperIsAlone, ProgramsKeepAway
  <1>4. OneHelperPerJob'
    <2>1. task.stage = "launch" => task.job \in Jobs
      BY DEF UpdateInv, ThreadIsAwaited
    <2>2. ui.downloaded # 0 => ui.downloaded \in Jobs
      BY DEF UpdateInv, UpdateTypes, UiFields
    <2> QED BY <1>1, <2>1, <2>2 DEF UpdateInv, OneHelperPerJob, IsNew, UiRuns
  <1> QED BY <1>2, <1>3, <1>4 DEF UpdateInv

LEMMA UserStartsStep ==
    ASSUME UpdateInv, UserStarts \/ UserQuits
    PROVE  UpdateInv'
  <1>1. /\ ProgramOnly /\ UNCHANGED jobs /\ mutex \in Mutexes /\ fresh \in Programs
        /\ jobs \in [Jobs -> JobFields]
    BY DEF UserStarts, UserQuits, UpdateInv, UpdateTypes
  <1>2. CASE UserStarts
    <2>1. /\ fresh.other = "none" /\ fresh' = [fresh EXCEPT !.other = "begins"]
          /\ UNCHANGED mutex
      BY <1>2 DEF UserStarts
    <2>2. /\ fresh' \in Programs /\ fresh'.other = "begins" /\ fresh'.next = fresh.next
          /\ fresh'.early = fresh.early
      BY <1>1, <2>1 DEF Programs
    <2>3. ~fresh.early
      BY <2>1 DEF UpdateInv, ProgramsKeepAway
    <2>4. NoProgramDuringInstallation'
      BY <1>1, <2>1, <2>2 DEF UpdateInv, NoProgramDuringInstallation, ProgramOnly
    <2> QED BY <1>1, <2>1, <2>2, <2>3, <2>4, ProgramStep
  <1>3. CASE UserQuits
    <2>1. /\ fresh' = [fresh EXCEPT !.other = "over"]
          /\ mutex' = [mutex EXCEPT !.application = "none"]
      BY <1>3 DEF UserQuits
    <2>2. /\ fresh' \in Programs /\ fresh'.other = "over" /\ fresh'.next = fresh.next
          /\ mutex' \in Mutexes /\ mutex'.update = mutex.update
          /\ mutex'.application = "none"
      BY <1>1, <2>1 DEF Programs, Mutexes
    <2>3. NoProgramDuringInstallation'
      BY <2>2 DEF NoProgramDuringInstallation
    <2> QED BY <1>1, <2>2, <2>3, ProgramStep
  <1> QED BY <1>2, <1>3

\* acquire_application_mutex looks first; a helper makes it turn back.
LEMMA LookStep ==
    ASSUME UpdateInv, NEW who \in {"other", "next"}, Look(who)
    PROVE  UpdateInv'
  <1>1. /\ ProgramOnly /\ UNCHANGED <<jobs, mutex>> /\ mutex \in Mutexes /\ fresh \in Programs
        /\ jobs \in [Jobs -> JobFields] /\ fresh[who] = "begins"
    BY DEF Look, UpdateInv, UpdateTypes
  <1>2. CASE who = "other"
    <2>1. fresh' = [fresh EXCEPT !.other = IF mutex.update # 0 THEN "over" ELSE "looked",
                                 !.early = mutex.update = 0]
      BY <1>2 DEF Look, Expected
    <2>2. /\ fresh' \in Programs /\ fresh'.next = fresh.next
          /\ fresh'.other = IF mutex.update # 0 THEN "over" ELSE "looked"
          /\ fresh'.early = (mutex.update = 0)
      BY <1>1, <2>1 DEF Programs
    <2>3. ~fresh.early
      BY <1>1, <1>2 DEF UpdateInv, ProgramsKeepAway
    <2>4. NoProgramDuringInstallation'
      BY <1>1, <2>3 DEF UpdateInv, NoProgramDuringInstallation, ProgramOnly
    <2> QED BY <1>1, <2>2, <2>4, ProgramStep
  <1>3. CASE who = "next"
    <2>1. PICK s \in {"over", "looked"} : fresh' = [fresh EXCEPT !.next = s]
      <3>1. fresh' = [fresh EXCEPT
                !.next = IF mutex.update # 0 /\ ~Expected(who) THEN "over" ELSE "looked",
                !.early = @]
        BY <1>3 DEF Look
      <3> QED BY <1>1, <3>1 DEF Programs
    <2>2. /\ fresh' \in Programs /\ fresh'.other = fresh.other /\ fresh'.early = fresh.early
      BY <1>1, <2>1 DEF Programs
    <2>3. fresh.next # "none"
      BY <1>1, <1>3
    <2>4. NoProgramDuringInstallation'
      BY <1>1, <2>2 DEF UpdateInv, NoProgramDuringInstallation, ProgramOnly
    <2> QED BY <1>1, <2>2, <2>3, <2>4, ProgramStep DEF UpdateInv, ProgramsKeepAway
  <1> QED BY <1>2, <1>3

\* Then it takes the mutex of the program.
LEMMA AcquireStep ==
    ASSUME UpdateInv, NEW who \in {"other", "next"}, Acquire(who)
    PROVE  UpdateInv'
  <1>1. /\ ProgramOnly /\ UNCHANGED jobs /\ mutex \in Mutexes /\ fresh \in Programs
        /\ jobs \in [Jobs -> JobFields] /\ fresh[who] = "looked"
        /\ UNCHANGED helper
    BY DEF Acquire, UpdateInv, UpdateTypes, ProgramOnly
  <1>2. PICK s \in {"over", "running"} : fresh' = [fresh EXCEPT ![who] = s]
    BY DEF Acquire
  <1>3. /\ fresh' \in Programs /\ fresh'.early = fresh.early
        /\ fresh'.other = fresh.other \/ fresh'.other = s
        /\ fresh'.next = fresh.next \/ fresh.next = "looked"
    BY <1>1, <1>2 DEF Programs
  <1>4. mutex' = mutex \/ mutex' = [mutex EXCEPT !.application = who]
    BY DEF Acquire
  <1>5. mutex' \in Mutexes /\ mutex'.update = mutex.update
    BY <1>1, <1>4 DEF Mutexes
  <1>6. NoProgramDuringInstallation'
    <2>1. CASE who = "other"
      BY <1>1, <1>3, <2>1 DEF UpdateInv, ProgramsKeepAway, NoProgramDuringInstallation
    <2>2. CASE who = "next"
      BY <1>1, <2>2 DEF UpdateInv, ProgramsKeepAway, NoProgramDuringInstallation, Holding
    <2> QED BY <2>1, <2>2
  <1> QED BY <1>1, <1>3, <1>5, <1>6, ProgramStep DEF UpdateInv, ProgramsKeepAway

\* acknowledge_update_startup
LEMMA AcknowledgeStep ==
    ASSUME UpdateInv, AcknowledgeStart
    PROVE  UpdateInv'
  <1>1. /\ ProgramOnly /\ mutex \in Mutexes /\ fresh \in Programs
        /\ jobs \in [Jobs -> JobFields] /\ fresh.next = "running" /\ UNCHANGED helper
        /\ mutex.update \in Jobs
    BY DEF AcknowledgeStart, Expected, UpdateInv, UpdateTypes, ProgramOnly, Mutexes
  <1>2. CASE /\ jobs' = [jobs EXCEPT ![mutex.update].started = TRUE]
             /\ UNCHANGED <<fresh, mutex>>
    <2>1. /\ jobs' \in [Jobs -> JobFields]
          /\ \A k \in Jobs : /\ jobs'[k].phase = jobs[k].phase
                             /\ jobs'[k].cancel = jobs[k].cancel
                             /\ jobs'[k].authorized = jobs[k].authorized
      BY <1>1, <1>2 DEF JobFields
    <2>2. NoProgramDuringInstallation'
      BY <1>1, <1>2 DEF UpdateInv, NoProgramDuringInstallation
    <2> QED BY <1>1, <1>2, <2>1, <2>2, ProgramStep DEF UpdateInv, ProgramsKeepAway
  <1>3. CASE /\ fresh' = [fresh EXCEPT !.next = "over"]
             /\ mutex' = [mutex EXCEPT !.application = "none"] /\ UNCHANGED jobs
    <2>1. /\ fresh' \in Programs /\ fresh'.other = fresh.other
          /\ fresh'.early = fresh.early /\ mutex' \in Mutexes
          /\ mutex'.update = mutex.update /\ mutex'.application = "none"
      BY <1>1, <1>3 DEF Programs, Mutexes
    <2>2. NoProgramDuringInstallation'
      BY <2>1 DEF NoProgramDuringInstallation
    <2> QED BY <1>1, <1>3, <2>1, <2>2, ProgramStep DEF UpdateInv, ProgramsKeepAway
  <1> QED BY <1>2, <1>3 DEF AcknowledgeStart

LEMMA UpdateStep == UpdateInv /\ [UpdateNext]_updateVars => UpdateInv'
  <1> SUFFICES ASSUME UpdateInv, [UpdateNext]_updateVars
               PROVE  UpdateInv'
    OBVIOUS
  <1>1. CASE UserActs \/ WorkerLeaves \/ Completed \/ Exit
    BY <1>1, IdleUiStep, DestroyedStep, BeginInstallStep, QuitStep, GoneStep, UserStartsStep,
       WorkerLeavesStep, CompletedStep
    DEF UserActs
  <1>2. CASE Thread
    BY <1>2, DownloadStep, PauseStep, LaunchStep DEF Thread
  <1>3. CASE AcknowledgeStart \/ \E who \in {"other", "next"} : Program(who)
    BY <1>3, AcknowledgeStep, LookStep, AcquireStep DEF Program
  <1>4. CASE \E n \in Jobs : Helper(n)
    BY <1>4, VerifyStep, AwaitExitStep, InstallOrNotStep, ElevateStep, InstallStep,
       StartConfirmStep
    DEF Helper
  <1>5. CASE UNCHANGED updateVars
    <2>1. UNCHANGED <<ui, ready, task, sync, app, jobs, helper, mutex, fresh>>
      BY <1>5 DEF updateVars
    <2>2. UpdateTypes' /\ ThreadIsAwaited' /\ WorkerStaysPaused' /\ ApprovalHolds'
      BY <2>1 DEF UpdateInv, UpdateTypes, ThreadIsAwaited, WorkerStaysPaused, ApprovalHolds
    <2>3. HelperIsAlone' /\ ProgramsKeepAway' /\ NoProgramDuringInstallation'
      BY <2>1 DEF UpdateInv, HelperIsAlone, ProgramsKeepAway, NoProgramDuringInstallation
    <2>4. OneHelperPerJob'
      BY <2>1 DEF UpdateInv, OneHelperPerJob, IsNew, UiRuns
    <2> QED BY <2>2, <2>3, <2>4 DEF UpdateInv
  <1> QED BY <1>1, <1>2, <1>3, <1>4, <1>5 DEF UpdateNext

\* One thread, one helper and one approval at a time: what the processes of an
\* update know of each other, at every point of it.
THEOREM UpdateInvariant == UpdateSpec => []UpdateInv
  <1>1. UpdateInit => UpdateInv
    <2> SUFFICES ASSUME UpdateInit
                 PROVE  UpdateInv
      OBVIOUS
    <2>1. UpdateTypes
      BY NoThreadOfUpdate
      DEF UpdateInit, UpdateTypes, UiFields, SyncFields, JobFields, Phases, HelperSteps,
          Mutexes, Programs, Unused
    <2>2. ThreadIsAwaited /\ WorkerStaysPaused
      BY NoThreadOfUpdate DEF UpdateInit, ThreadIsAwaited, WorkerStaysPaused
    <2>3. ApprovalHolds /\ HelperIsAlone /\ NoProgramDuringInstallation
      BY JobIsSome
      DEF UpdateInit, ApprovalHolds, HelperIsAlone, NoProgramDuringInstallation, Holding, Unused
    <2>4. ProgramsKeepAway /\ OneHelperPerJob
      BY NoThreadOfUpdate DEF UpdateInit, ProgramsKeepAway, OneHelperPerJob
    <2> QED BY <2>1, <2>2, <2>3, <2>4 DEF UpdateInv
  <1> QED BY <1>1, UpdateStep, PTL DEF UpdateSpec

\* Nobody but the window that hears of a launch agrees to the replacement.
LEMMA CommittedStays ==
    ASSUME UpdateInv, UserActs \/ WorkerLeaves \/ Thread \/ Exit
    PROVE  ui'.committed = ui.committed
  <1>1. UpdateTypes /\ ui \in UiFields
    BY DEF UpdateInv, UpdateTypes
  <1>2. CASE ShowOffer \/ Disturb \/ Reject
    BY <1>1, <1>2 DEF ShowOffer, Disturb, Reject, UiFields
  <1>3. CASE Destroyed
    <2>1. PICK u : u = [ui EXCEPT !.dialog = FALSE, !.cancelled = TRUE]
      OBVIOUS
    <2>2. u \in UiFields /\ u.committed = ui.committed /\ u.job = ui.job
      BY <1>1, <2>1 DEF UiFields
    <2>3. ui' = u \/ Fail(u)
      BY <1>3, <2>1 DEF Destroyed
    <2> QED BY <1>1, <2>2, <2>3, FailStep
  <1>4. CASE BeginInstall
    <2>1. CASE ui' = [ui EXCEPT !.downloaded = 0]
      BY <1>1, <2>1 DEF UiFields
    <2>2. ASSUME NEW u, u = [ui EXCEPT !.job = 0, !.cancelled = FALSE,
                                !.downloaded = IF ui.job = 0 THEN @ ELSE 0],
                 \/ ui' = u \/ ui' = [u EXCEPT !.busy = TRUE]
                 \/ ui' = [u EXCEPT !.started = TRUE, !.busy = TRUE]
          PROVE  ui'.committed = ui.committed
      <3>1. u \in UiFields /\ u.committed = ui.committed
        BY <1>1, <2>2 DEF UiFields
      <3> QED BY <2>2, <3>1 DEF UiFields
    <2> QED BY <1>4, <2>1, <2>2 DEF BeginInstall, Handoff
  <1>5. CASE Quit
    <2>1. PICK u : /\ u \in {[ui EXCEPT !.cancelled = TRUE, !.job = 0],
                             [ui EXCEPT !.cancelled = TRUE]}
                   /\ ui' = [u EXCEPT !.closed = TRUE]
      BY <1>5 DEF Quit, Leaves
    <2>2. u \in UiFields /\ u.committed = ui.committed
      BY <1>1, <2>1 DEF UiFields
    <2> QED BY <2>1, <2>2 DEF UiFields
  <1>6. CASE Thread
    <2>1. CASE Launch
      <3>1. CASE Launched(task.job)
        <4>1. \/ ui' \in {[ui EXCEPT !.job = task.job], [ui EXCEPT !.downloaded = 0]}
              \/ ui' = [[ui EXCEPT !.job = task.job] EXCEPT !.downloaded = 0]
          BY <3>1 DEF Launched
        <4> QED BY <1>1, <4>1 DEF UiFields
      <3>2. CASE UNCHANGED ui
        BY <3>2
      <3> QED BY <2>1, <3>1, <3>2 DEF Launch
    <2>2. CASE Download \/ Pause
      BY <2>2 DEF Download, Pause
    <2> QED BY <1>6, <2>1, <2>2 DEF Thread
  <1>7. CASE WorkerLeaves \/ Exit \/ ProgramKilled \/ UserStarts \/ UserQuits
    BY <1>7 DEF WorkerLeaves, Exit, ProgramKilled, Gone, UserStarts, UserQuits, ProgramOnly
  <1> QED BY <1>2, <1>3, <1>4, <1>5, <1>6, <1>7 DEF UserActs

\* It agrees when a launch has come back, to what is still wanted, and nothing
\* is being entered.
LEMMA CompletedCommits ==
    ASSUME UpdateInv, Completed, ~ui.committed, ui'.committed
    PROVE  task.stage = "launch" /\ Valid
  <1> DEFINE u == [ui EXCEPT !.busy = FALSE]
  <1>1. UpdateTypes /\ ui \in UiFields
    BY DEF UpdateInv, UpdateTypes
  <1>2. ASSUME NEW v \in {u, [u EXCEPT !.downloaded = IF task.stage = "launch" THEN 0 ELSE @]},
               Fail(v)
        PROVE  FALSE
    <2>1. v \in UiFields /\ v.committed = ui.committed /\ v.job = ui.job
      BY <1>1, <1>2 DEF UiFields
    <2> QED BY <1>1, <1>2, <2>1, FailStep
  <1>3. ASSUME NEW v \in {u, [u EXCEPT !.downloaded = task.job]},
               ui' = v \/ ui' = [v EXCEPT !.started = TRUE, !.busy = TRUE]
        PROVE  FALSE
    <2>1. v \in UiFields /\ v.committed = ui.committed
      BY <1>1, <1>3 DEF UpdateTypes, UiFields, TaskFields
    <2> QED BY <1>3, <2>1 DEF UiFields
  <1>4. ui' # ui
    OBVIOUS
  <1>5. CASE task.step = "error"
    BY <1>2, <1>5 DEF Completed
  <1>6. CASE task.step = "done" /\ task.stage = "download"
    BY <1>3, <1>6 DEF Completed, Handoff
  <1>7. CASE task.step = "done" /\ task.stage = "pause"
    BY <1>2, <1>4, <1>7 DEF Completed
  <1>8. CASE task.step = "done" /\ task.stage = "launch"
    BY <1>2, <1>8 DEF Completed
  <1> QED BY <1>5, <1>6, <1>7, <1>8 DEF Completed

\* From the consent of the user to the end of the installer, nothing runs and
\* nothing is installed that was not agreed to.
THEOREM InstallationStaysGuarded == UpdateSpec => InstallationIsGuarded
  <1>1. UpdateInv => InstallsWhatWasApproved /\ NoProgramDuringInstallation
    BY DEF UpdateInv, InstallsWhatWasApproved, ApprovalHolds
  <1>2. UpdateInv /\ [UpdateNext]_updateVars =>
          [~ui.committed /\ ui'.committed => ready /\ ~sync.worker /\ ~sync.resume]_updateVars
    <2> SUFFICES ASSUME UpdateInv, UpdateNext, ~ui.committed, ui'.committed
                 PROVE  ready /\ ~sync.worker /\ ~sync.resume
      OBVIOUS
    <2>1. Completed
      <3>1. ASSUME UNCHANGED ui
            PROVE  FALSE
        BY <3>1
      <3>2. ASSUME \/ AcknowledgeStart \/ \E n \in Jobs : Helper(n)
                   \/ \E who \in {"other", "next"} : Program(who)
            PROVE  UNCHANGED ui
        BY <3>2 DEF AcknowledgeStart, Program, Look, Acquire, ProgramOnly, Helper, Verify,
                    AwaitExit, InstallOrNot, Elevate, Install, StartApplication, Confirm,
                    HelperOnly
      <3> QED BY <3>1, <3>2, CommittedStays DEF UpdateNext
    <2>2. task.stage = "launch" /\ Valid
      BY <2>1, CompletedCommits
    <2> QED BY <2>2 DEF Valid, UpdateInv, WorkerStaysPaused
  <1> QED BY <1>1, <1>2, UpdateInvariant, PTL
          DEF UpdateSpec, InstallationIsGuarded, QuietWhenApproved

=============================================================================
