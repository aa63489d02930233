---------------------------- MODULE ReleasePolicy ----------------------------
(***************************************************************************)
(* The release policy: the lowest version that may go online, as a start   *)
(* of the program hears it from the server or reads it from its cache.     *)
(* (src/mdlogger/release_policy.py, its use in app.py, the table of        *)
(* migration 0012.)                                                        *)
(*                                                                         *)
(* The verdict of a start holds until the program ends.  The cache is      *)
(* written to a temporary file that then takes its name; whatever fails on *)
(* the way is ignored, and the program may be killed between any two       *)
(* steps.  An answer that is cut off raises an exception that only app.py  *)
(* catches: the start goes online, and the cache is not read.              *)
(***************************************************************************)
EXTENDS Naturals

CONSTANTS
    MaxVersion,   \* bound: versions of the program
    MaxTime       \* bound: days of the clock and of effective_at

ASSUME PolicyAssumption == MaxVersion \in Nat \ {0} /\ MaxTime \in Nat

VARIABLES
    row,       \* the row of release_policies of this platform
    now,
    installed, \* the version that is installed
    start,     \* where the start is, what decided it and what it decided
    cache,     \* release_policy_cache.json
    tmp,       \* the temporary file beside it
    may,       \* history: policies the cache may hold after the last attempt
    served     \* history: minimums the server ever had

policyVars == <<row, now, installed, start, cache, tmp, may, served>>

\* A minimum that parse_version reads as nothing is version 0; one at which
\* it raises (a digit int() does not take) lets every version go online too.
Policies == [minimum : 0..MaxVersion, effective : 0..MaxTime]

\* No such file; a file that was not written to its end.
NoFile == [minimum |-> 0, effective |-> 0, kind |-> "none"]
Torn == [minimum |-> 0, effective |-> 0, kind |-> "torn"]
File(p) == [minimum |-> p.minimum, effective |-> p.effective, kind |-> "policy"]
CacheFiles == {NoFile, Torn} \cup {File(p) : p \in Policies}

\* What a start was decided by.
Deciders == {"nobody", "policy", "cache", "exception"}
Off == [pc |-> "off", from |-> NoFile, online |-> FALSE, by |-> "nobody"]

PolicyInit ==
    /\ row \in {p \in Policies : p.effective = 0}
    /\ now = 0
    /\ installed \in 1..MaxVersion
    /\ start = Off
    /\ cache = NoFile /\ tmp = NoFile
    /\ may = {NoFile}
    /\ served = {row.minimum}

-----------------------------------------------------------------------------
\* _gate_allows, and "no policy, no restriction".
Allows(f) == f.kind = "policy" => f.minimum <= installed

\* What the start goes on with: this policy decides.
Decide(f, by) == start' = [pc |-> "on", from |-> f, online |-> Allows(f), by |-> by]

\* fetch: the answer is the row of this platform.
Fetch ==
    /\ start.pc = "off"
    /\ start' = [Off EXCEPT !.pc = "save", !.from = File(row)]
    /\ may' = may \cup {File(row)}
    /\ UNCHANGED <<row, now, installed, cache, tmp, served>>

\* load_cached_policy: a file that cannot be read is no policy.
Cached == IF cache.kind = "policy" THEN cache ELSE NoFile

\* No server is configured, fetch gave None (no connection, a status other
\* than 200, an answer that is not a policy): the cache decides.
FallBack ==
    /\ start.pc = "off" /\ Decide(Cached, "cache")
    /\ UNCHANGED <<row, now, installed, cache, tmp, may, served>>

\* An exception that fetch does not take for a failed query, an answer whose
\* body is cut off (IncompleteRead): app.py goes online with no policy.
FetchRaises ==
    /\ start.pc = "off" /\ Decide(NoFile, "exception")
    /\ UNCHANGED <<row, now, installed, cache, tmp, may, served>>

\* (A slip: the cache itself is written, and may be left half-written.)
SaveTmpInPlace ==
    /\ start.pc = "save"
    /\ start' = [start EXCEPT !.pc = "replace"] /\ cache' = Torn
    /\ tmp' = start.from
    /\ UNCHANGED <<row, now, installed, may, served>>

\* save_cached_policy: the temporary file; the start goes on if it fails.
SaveTmp ==
    /\ start.pc = "save"
    /\ \/ start' = [start EXCEPT !.pc = "replace"] /\ tmp' = start.from
       \/ Decide(start.from, "policy") /\ tmp' \in {tmp, Torn}
    /\ UNCHANGED <<row, now, installed, cache, may, served>>

\* ... and its new name.
Replace ==
    /\ start.pc = "replace"
    /\ \/ cache' = tmp /\ tmp' = NoFile /\ may' = {tmp}
       \/ UNCHANGED <<cache, tmp, may>>
    /\ Decide(start.from, "policy")
    /\ UNCHANGED <<row, now, installed, served>>

\* The program ends, or is killed while it starts.
EndStart ==
    /\ start.pc # "off" /\ start' = Off
    /\ UNCHANGED <<row, now, installed, cache, tmp, may, served>>

\* A reset of the local data removes both files.
ResetData ==
    /\ start.pc = "on"
    /\ cache' = NoFile /\ tmp' = NoFile /\ may' = {NoFile}
    /\ UNCHANGED <<row, now, installed, start, served>>

\* A newer version is installed.
InstallNewer ==
    /\ start.pc = "off" /\ installed < MaxVersion /\ installed' = installed + 1
    /\ UNCHANGED <<row, now, start, cache, tmp, may, served>>

\* The operator changes the row, from now on or from a later day on.
SetPolicy ==
    /\ \E p \in Policies :
        /\ p.effective >= now
        /\ row' = p /\ served' = served \cup {p.minimum}
    /\ UNCHANGED <<now, installed, start, cache, tmp, may>>

Tick ==
    /\ now < MaxTime /\ now' = now + 1
    /\ UNCHANGED <<row, installed, start, cache, tmp, may, served>>

PolicyNext ==
    \/ Fetch \/ FallBack \/ FetchRaises \/ SaveTmp \/ Replace \/ EndStart
    \/ ResetData \/ InstallNewer \/ SetPolicy \/ Tick

PolicySpec == PolicyInit /\ [][PolicyNext]_policyVars

-----------------------------------------------------------------------------
PolicyTypeOK ==
    /\ row \in Policies /\ now \in 0..MaxTime /\ installed \in 1..MaxVersion
    /\ start \in [pc : {"off", "save", "replace", "on"}, from : CacheFiles,
                 online : BOOLEAN, by : Deciders]
    /\ cache \in CacheFiles /\ tmp \in CacheFiles
    /\ may \subseteq CacheFiles /\ served \subseteq 0..MaxVersion

\* A start that goes on without an answer goes online only if some policy that
\* may be the last one stored lets this version: neither an outage nor a start
\* killed while it stored a policy unblocks a version that was blocked.  An
\* exception in the query does unblock it (app.py catches it and goes online).
OutageNeverUnblocks ==
    [][start.pc = "off" /\ start'.online /\ start'.by # "exception" =>
          \E f \in may :
              f.kind # "torn" /\ (f.kind = "policy" => f.minimum <= installed)]_policyVars

\* A version is kept offline only by a minimum above it that the server once
\* had: an update lifts the block, on a start without the server as well.
BlockedForAReason ==
    start.pc = "on" /\ ~start.online => \E m \in served : m > installed

\* The policy holds through outages and crashes, and holds back no version
\* for nothing (resolve_release_policy).
PolicyIsEnforced == OutageNeverUnblocks /\ []BlockedForAReason

\* "If the query fails, the last cache is used": every start that goes on
\* without an answer decides by the cache.  (The comment in app.py.)
FailureUsesCache ==
    [][start.pc = "off" /\ start'.pc = "on" => start'.online = Allows(Cached)]_policyVars
=============================================================================
