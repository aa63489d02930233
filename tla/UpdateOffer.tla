----------------------------- MODULE UpdateOffer -----------------------------
(***************************************************************************)
(* From the search for an update to an installer on the disk: the requests *)
(* of check_update, the download into a directory of its own, and what the *)
(* controller offers and keeps.                                            *)
(* (check_update, verify_manifest and download_update of                   *)
(* src/mdlogger/updater.py; update_controller.py.)                         *)
(*                                                                         *)
(* The release page may change between any two requests, so every request  *)
(* is answered with anything.  A manifest nobody signed has no signature.  *)
(* The directories survive the program, which may end at any point.  What  *)
(* happens after the hand-over is Update's.                                *)
(***************************************************************************)
EXTENDS Naturals, FiniteSets

CONSTANTS
    MaxRelease,   \* bound: versions of the program
    Builds,       \* installers
    Authentic,    \* manifests the key of the publisher has signed
    MaxDirs,      \* bound: downloads
    None          \* no file, no manifest

Versions == 1..MaxRelease
Dirs == 1..MaxDirs
Manifests == [version : Versions, build : Builds]

ASSUME OfferAssumption ==
    /\ MaxRelease \in Nat \ {0} /\ MaxDirs \in Nat
    /\ Authentic \subseteq Manifests
    /\ None \notin Builds /\ None \notin Manifests

VARIABLES
    current,   \* the program that runs
    expired,   \* manifests whose signature is no longer valid
    offer,     \* fields of UpdateController: _plan, _dialog, _deferred_offer,
               \* _cancelled, _downloaded
    thread,    \* the thread of UpdateController._run
    dirs,      \* the directories of the update cache
    broken     \* history: directories whose download or removal was cut off

offerVars == <<current, expired, offer, thread, dirs, broken>>

NoPlan ==
    [plan |-> None, dialog |-> FALSE, waiting |-> FALSE, cancelled |-> FALSE, downloaded |-> 0]
NoThread == [step |-> "none", version |-> 0, manifest |-> None, dir |-> 0]
Empty ==
    [there |-> TRUE, part |-> None, installer |-> None, manifest |-> None, signature |-> None]
NoDirectory == [Empty EXCEPT !.there = FALSE]

OfferInit ==
    /\ current \in Versions
    /\ expired = {}
    /\ offer = NoPlan /\ thread = NoThread
    /\ dirs = [d \in Dirs |-> NoDirectory]
    /\ broken = {}

At(step) == thread.step = step
NoThreadRuns == thread = NoThread
Done == thread' = NoThread
Goes(step) == thread' = [thread EXCEPT !.step = step]

-----------------------------------------------------------------------------
(* Looking for an update.                                                  *)

\* (A slip: whatever was signed and is not expired will do.)
VerifiedSignature(m, s, v) == s = m /\ m \in Authentic \ expired

\* verify_manifest
Verified(m, s, v) == s = m /\ m \in Authentic \ expired /\ m.version = v /\ v > current

Search ==
    /\ NoThreadRuns /\ ~offer.dialog
    /\ thread' = [NoThread EXCEPT !.step = "release"]
    /\ offer' = [offer EXCEPT !.cancelled = FALSE, !.waiting = FALSE]
    /\ UNCHANGED <<current, expired, dirs, broken>>

\* The latest release, if it is newer and complete.
ReadRelease ==
    /\ At("release")
    /\ \/ Done
       \/ \E v \in Versions :
            /\ v > current
            /\ thread' = [thread EXCEPT !.step = "manifest", !.version = v]
    /\ UNCHANGED <<current, expired, offer, dirs, broken>>

ReadManifest ==
    /\ At("manifest")
    /\ \/ Done
       \/ \E m \in Manifests :
            thread' = [thread EXCEPT !.step = "signature", !.manifest = m]
    /\ UNCHANGED <<current, expired, offer, dirs, broken>>

\* The release names another size, or that of the manifest.
ReadSignature ==
    /\ At("signature")
    /\ \/ Done
       \/ /\ \E s \in Authentic : Verified(thread.manifest, s, thread.version)
          /\ Goes("found")
    /\ UNCHANGED <<current, expired, offer, dirs, broken>>

Offer(shown) ==
    offer' = [offer EXCEPT !.plan = thread.manifest, !.downloaded = 0,
                     !.dialog = shown, !.waiting = ~shown]

\* The search ends; without a request of the user the offer waits until
\* nothing else is on the screen.
Found ==
    /\ At("found") /\ Done
    /\ \E shown \in BOOLEAN : Offer(shown)
    /\ UNCHANGED <<current, expired, dirs, broken>>

ShowWaiting ==
    /\ NoThreadRuns /\ offer.waiting
    /\ offer' = [offer EXCEPT !.waiting = FALSE, !.dialog = TRUE]
    /\ UNCHANGED <<current, expired, thread, dirs, broken>>

-----------------------------------------------------------------------------
(* Downloading.                                                            *)

\* The user gives up, or the dialog is destroyed with its window.
RejectOffer ==
    /\ offer.dialog /\ ~At("launch")
    /\ offer' = [offer EXCEPT !.dialog = FALSE, !.cancelled = TRUE]
    /\ UNCHANGED <<current, expired, thread, dirs, broken>>

\* _begin_install: an installer that is there is handed over at once.
BeginDownload ==
    /\ NoThreadRuns /\ offer.dialog
    /\ offer' = [offer EXCEPT !.cancelled = FALSE]
    /\ thread' = IF offer.downloaded # 0
               THEN [NoThread EXCEPT !.step = "launch", !.dir = offer.downloaded]
               ELSE [NoThread EXCEPT !.step = "verify", !.manifest = offer.plan]
    /\ UNCHANGED <<current, expired, dirs, broken>>

Here == dirs[thread.dir]
Writes(dir) == dirs' = [dirs EXCEPT ![thread.dir] = dir]

\* The plan is verified again, the directory is new.
MakeDirectory ==
    /\ At("verify")
    /\ \/ Done /\ UNCHANGED dirs
       \/ /\ Verified(thread.manifest, thread.manifest, thread.manifest.version)
          /\ \E d \in Dirs :
                /\ dirs[d] = NoDirectory /\ d \notin broken
                /\ dirs' = [dirs EXCEPT ![d] = Empty]
                /\ thread' = [thread EXCEPT !.step = "stream", !.dir = d]
    /\ UNCHANGED <<current, expired, offer, broken>>

\* Whatever comes is written, until the end, an error or a cancellation.
Stream ==
    /\ At("stream")
    /\ \/ \E b \in Builds \cup {None} : Writes([Here EXCEPT !.part = b]) /\ Goes("clean")
       \/ /\ ~offer.cancelled
          /\ \E b \in Builds : Writes([Here EXCEPT !.part = b])
          /\ Goes("digest")
    /\ UNCHANGED <<current, expired, offer, broken>>

Digest ==
    /\ At("digest")
    /\ IF Here.part = thread.manifest.build THEN Goes("write") ELSE Goes("clean")
    /\ UNCHANGED <<current, expired, offer, dirs, broken>>

\* update.json, and then update.json.sig; None stands for what is not whole.
WriteManifest ==
    /\ At("write")
    /\ \/ Writes([Here EXCEPT !.manifest = thread.manifest]) /\ Goes("sign")
       \/ Goes("clean") /\ UNCHANGED dirs
    /\ UNCHANGED <<current, expired, offer, broken>>

WriteSignature ==
    /\ At("sign")
    /\ \/ Writes([Here EXCEPT !.signature = thread.manifest]) /\ Goes("publish")
       \/ Goes("clean") /\ UNCHANGED dirs
    /\ UNCHANGED <<current, expired, offer, broken>>

\* The installer gets its name last of all.
Publish ==
    /\ At("publish")
    /\ \/ Writes([Here EXCEPT !.installer = Here.part, !.part = None]) /\ Goes("done")
       \/ Goes("clean") /\ UNCHANGED dirs
    /\ UNCHANGED <<current, expired, offer, broken>>

\* The files in the order they are removed, and then the directory.
RemovalOrder == <<"part", "installer", "manifest", "signature">>

\* One file after the other; a file that cannot be removed ends it.
Remove ==
    /\ At("clean")
    /\ LET left == {i \in DOMAIN RemovalOrder : Here[RemovalOrder[i]] # None} IN
       IF left = {} THEN Writes(NoDirectory) /\ Done
       ELSE /\ \E i \in left :
                  /\ \A j \in left : i <= j
                  /\ Writes([Here EXCEPT ![RemovalOrder[i]] = None])
            /\ UNCHANGED thread
    /\ UNCHANGED <<current, expired, offer, broken>>

RemovalFails ==
    /\ At("clean") /\ Done
    /\ broken' = broken \cup {thread.dir}
    /\ UNCHANGED <<current, expired, offer, dirs>>

\* The download has ended: it is handed over or kept, unless it was given up
\* meanwhile; then the directory stays.
Downloaded ==
    /\ At("done")
    /\ IF offer.cancelled THEN Done /\ UNCHANGED offer
       ELSE /\ offer' = [offer EXCEPT !.downloaded = thread.dir]
            /\ \/ Done
               \/ thread' = [NoThread EXCEPT !.step = "launch", !.dir = offer'.downloaded]
    /\ UNCHANGED <<current, expired, dirs, broken>>

-----------------------------------------------------------------------------
(* Handing over, the end of the program, time.                             *)

\* What the helper and the program it waits for make of it.
MayBeInstalled(dir) ==
    /\ Verified(dir.manifest, dir.signature, dir.manifest.version)
    /\ dir.installer = dir.manifest.build

\* The program is not ready; the helper does not start or refuses; or the
\* program makes way for the next one, or for itself if the user declines.
LaunchInstaller ==
    /\ At("launch") /\ Done
    /\ \/ offer' = [offer EXCEPT !.downloaded = 0] /\ UNCHANGED current
       \/ UNCHANGED <<offer, current>>
       \/ /\ Here.installer # None /\ MayBeInstalled(Here)
          /\ current' \in {current, Here.manifest.version}
          /\ offer' = NoPlan
    /\ UNCHANGED <<expired, dirs, broken>>

\* The program ends; its thread with it, whatever it is at.
EndProgram ==
    /\ offer' = NoPlan /\ Done
    /\ broken' = broken \cup ({thread.dir} \ {0})
    /\ UNCHANGED <<current, expired, dirs>>

Expire ==
    /\ \E m \in Authentic : expired' = expired \cup {m}
    /\ UNCHANGED <<current, offer, thread, dirs, broken>>

OfferNext ==
    \/ Search \/ ReadRelease \/ ReadManifest \/ ReadSignature \/ Found \/ ShowWaiting
    \/ RejectOffer \/ BeginDownload \/ MakeDirectory \/ Stream \/ Digest
    \/ WriteManifest \/ WriteSignature \/ Publish \/ Remove \/ RemovalFails
    \/ Downloaded \/ LaunchInstaller \/ EndProgram \/ Expire

OfferSpec == OfferInit /\ [][OfferNext]_offerVars

-----------------------------------------------------------------------------
Steps == {"none", "release", "manifest", "signature", "found", "verify", "stream", "digest",
          "write", "sign", "publish", "clean", "done", "launch"}
MaybeManifest == Manifests \cup {None}
MaybeBuild == Builds \cup {None}

OfferTypeOK ==
    /\ current \in Versions /\ expired \subseteq Authentic
    /\ offer \in [plan : MaybeManifest, dialog : BOOLEAN, waiting : BOOLEAN,
               cancelled : BOOLEAN, downloaded : {0} \cup Dirs]
    /\ thread \in [step : Steps, version : {0} \cup Versions,
                 manifest : MaybeManifest, dir : {0} \cup Dirs]
    /\ dirs \in [Dirs -> [there : BOOLEAN, part : MaybeBuild, installer : MaybeBuild,
                          manifest : MaybeManifest, signature : MaybeManifest]]
    /\ broken \subseteq Dirs

\* Whatever the release page answers and wherever a download is cut off: a
\* file with the name of an installer is the build that a signed manifest
\* beside it names.
InstallersAreSigned ==
    \A d \in Dirs : dirs[d].installer # None =>
        /\ dirs[d].manifest \in Authentic /\ dirs[d].signature = dirs[d].manifest
        /\ dirs[d].installer = dirs[d].manifest.build

\* What is offered was signed for a version newer than the program, also when
\* the page mixed the files of two releases.
OffersAreNewer ==
    offer.plan # None => offer.plan \in Authentic /\ offer.plan.version > current

\* The installer that is kept, and handed over without being asked for again,
\* is that of the version the dialog names.
KeepsWhatIsOffered ==
    offer.downloaded # 0 =>
        /\ dirs[offer.downloaded].installer # None
        /\ dirs[offer.downloaded].manifest = offer.plan

\* A download that fails or is cancelled leaves nothing, unless the program
\* ended or a file could not be removed.
NothingHalfIsLeft ==
    \A d \in Dirs : dirs[d].there /\ dirs[d].installer = None => d = thread.dir \/ d \in broken

\* What is offered, stored and kept is one signed version newer than the
\* program, whatever the page answers and wherever a download is cut off.
OffersAreSound ==
    InstallersAreSigned /\ OffersAreNewer /\ KeepsWhatIsOffered /\ NothingHalfIsLeft
=============================================================================
