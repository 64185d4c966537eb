--------------------------- MODULE ArtifactStore ---------------------------
(***************************************************************************)
(* Artifacts and their garbage collection (runtime/application/artifacts.py, *)
(* infrastructure/artifacts/local.py, repositories/artifacts.py).          *)
(*                                                                         *)
(* Bytes live in the file system, under the hash of their content, in one  *)
(* of two directories: objects and quarantine.  A row of mra.artifact says *)
(* that a hash is in use, a row of mra.artifact_gc_candidate how far its   *)
(* collection is.  No transaction spans the two: every operation below is  *)
(* a chain of steps, each one transaction or one file operation under the  *)
(* file lock of its hash, and its process may die between any two.         *)
(*                                                                         *)
(* Transactions on a hash that decide something hold its advisory lock, or *)
(* lock the artifact's row, so each is one step.  An exception ends the    *)
(* operation, as the death of its process does: a step whose guard fails   *)
(* is left by Abandon.                                                     *)
(***************************************************************************)
EXTENDS FiniteSets

CONSTANTS
    Hash,           \* content hashes
    Publisher,      \* processes in publish
    Verifier,       \* processes in verify
    Scanner,        \* processes in scan_orphans
    Deleter,        \* processes in delete_quarantined
    NoToken,        \* operation_token IS NULL
    NoHash

ASSUME TokenAssumption == NoToken \notin Scanner /\ NoHash \notin Hash

VARIABLES
    object,         \* the file in objects: "NONE", "SOUND" or "DAMAGED"
    vault,          \* hashes with a file in quarantine
    row,            \* integrity_state of the artifact, "NONE" without a row
    keep,           \* "PINNED", "UNTIL" a time still to come, or "NO"
    bound,          \* rows that gc_status looks for refer to the artifact
    loose,          \* rows that it does not look for do
    cand,           \* state of the candidate, "NONE" without a row
    tied,           \* candidates whose artifact_id is set
    due,            \* candidates whose grace_until has passed
    token,          \* operation_token: the scanner that drew it
    pub, ver, scan, del,    \* where each process is
    decayed         \* hashes that ever lost bytes to something outside (history)

bytes   == <<object, vault>>
rows    == <<row, keep, bound, loose>>
gc      == <<cand, tied, due, token>>
workers == <<pub, ver, scan, del>>
vars    == <<bytes, rows, gc, workers, decayed>>

Integrity == {"AVAILABLE", "MISSING", "CORRUPT", "QUARANTINED", "DELETED"}
Condemned == {"QUARANTINE_PENDING", "QUARANTINED", "DELETE_PENDING", "DELETED"}

Resting  == [at |-> "IDLE", hash |-> NoHash]
Unsure   == [at |-> "IDLE", hash |-> NoHash, saw |-> "NONE", found |-> "NONE"]
Unlisted == [at |-> "IDLE", hash |-> NoHash, objects |-> {}, vault |-> {},
             todo |-> {}, token |-> NoToken]
Undecided == [at |-> "IDLE", hash |-> NoHash, token |-> NoToken]

Init ==
    /\ object = [h \in Hash |-> "NONE"]
    /\ vault = {}
    /\ row = [h \in Hash |-> "NONE"]
    /\ keep = [h \in Hash |-> "NO"]
    /\ bound = {}
    /\ loose = {}
    /\ cand = [h \in Hash |-> "NONE"]
    /\ tied = {}
    /\ due = {}
    /\ token = [h \in Hash |-> NoToken]
    /\ pub = [p \in Publisher |-> Resting]
    /\ ver = [v \in Verifier |-> Unsure]
    /\ scan = [s \in Scanner |-> Unlisted]
    /\ del = [d \in Deleter |-> Undecided]
    /\ decayed = {}

-----------------------------------------------------------------------------
(* gc_status and the file operations.                                      *)
Pinned(h) == keep[h] # "NO" \/ row[h] \in {"MISSING", "CORRUPT"}

\* Mutant of Held: a reference does not protect.
HeldByPinOnly(h) == Pinned(h)

\* gc_status: referenced or pinned.
Held(h) == h \in bound \/ Pinned(h)

\* LocalArtifactStore.quarantine.  With a file in both directories it raises,
\* and without one: OneRoot, and a step that is not taken.
Quarantine(h) ==
    \/ h \in vault /\ UNCHANGED bytes
    \/ /\ h \notin vault
       /\ object[h] # "NONE"
       /\ object' = [object EXCEPT ![h] = "NONE"]
       /\ vault' = vault \cup {h}

\* is_quarantined, then LocalArtifactStore.delete_quarantined.
Unlink(h) ==
    /\ h \in vault => object[h] = "NONE"
    /\ vault' = vault \ {h}
    /\ UNCHANGED object

\* LocalArtifactStore.verify, as the integrity state record_verification makes
\* of its result.
Verdict(h) ==
    IF h \in vault
    THEN IF object[h] = "NONE" THEN "MISSING" ELSE "CORRUPT"
    ELSE [NONE |-> "MISSING", SOUND |-> "AVAILABLE", DAMAGED |-> "CORRUPT"][object[h]]

-----------------------------------------------------------------------------
(* publish.                                                                *)
\* Mutant of PublishBytes: the quarantine is not looked at.
PublishBytesOverQuarantine(p, h) ==
    /\ pub[p].at = "IDLE"
    /\ object[h] # "DAMAGED"
    /\ object' = [object EXCEPT ![h] = "SOUND"]
    /\ pub' = [pub EXCEPT ![p] = [at |-> "WRITTEN", hash |-> h]]
    /\ UNCHANGED <<vault, rows, gc, ver, scan, del, decayed>>

\* publish_bytes: under the file lock, a link to new bytes, or a look at those
\* that are there.
PublishBytes(p, h) ==
    /\ pub[p].at = "IDLE"
    /\ h \notin vault
    /\ object[h] # "DAMAGED"
    /\ object' = [object EXCEPT ![h] = "SOUND"]
    /\ pub' = [pub EXCEPT ![p] = [at |-> "WRITTEN", hash |-> h]]
    /\ UNCHANGED <<vault, rows, gc, ver, scan, del, decayed>>

VerifyPublished(p) ==
    /\ pub[p].at = "WRITTEN"
    /\ Verdict(pub[p].hash) = "AVAILABLE"
    /\ pub' = [pub EXCEPT ![p].at = "VERIFIED"]
    /\ UNCHANGED <<bytes, rows, gc, ver, scan, del, decayed>>

\* Mutant of Admissible: any candidate may be registered.
AdmissibleAlways(h) == TRUE

\* register refuses a hash that is under quarantine or deletion.
Admissible(h) == cand[h] \in {"NONE", "OBSERVED", "CLEARED"}

\* The publishing transaction: register, then record_verification of what was
\* verified before it.  A row that is there must have the same metadata.
Register(p, k) ==
    LET h == pub[p].hash IN
    /\ pub[p].at = "VERIFIED"
    /\ Admissible(h)
    /\ row[h] # "NONE" => keep[h] = k
    /\ row[h] \in {"NONE", "AVAILABLE", "MISSING", "CORRUPT"}
    /\ row' = [row EXCEPT ![h] = "AVAILABLE"]
    /\ keep' = [keep EXCEPT ![h] = k]
    /\ IF cand[h] = "OBSERVED"
       THEN /\ cand' = [cand EXCEPT ![h] = "CLEARED"]
            /\ tied' = tied \cup {h}
       ELSE UNCHANGED <<cand, tied>>
    /\ pub' = [pub EXCEPT ![p] = Resting]
    /\ UNCHANGED <<bytes, bound, loose, due, token, ver, scan, del, decayed>>

\* A Run's configuration, a capture, a dataset or the like is bound to the
\* artifact: its row is AVAILABLE and locked FOR SHARE to the end of the binding
\* transaction, which begin_quarantine waits for.
Bind(h) ==
    /\ row[h] = "AVAILABLE"
    /\ bound' = bound \cup {h}
    /\ UNCHANGED <<bytes, row, keep, loose, gc, workers, decayed>>

\* An artifact is bound in the same way by a row that gc_status does not count: a
\* universe's scope, an experiment, an evaluation protocol, a model's version...
BindLoosely(h) ==
    /\ row[h] = "AVAILABLE"
    /\ loose' = loose \cup {h}
    /\ UNCHANGED <<bytes, row, keep, bound, gc, workers, decayed>>

\* retention_until passes.
RetentionEnds(h) ==
    /\ keep[h] = "UNTIL"
    /\ keep' = [keep EXCEPT ![h] = "NO"]
    /\ UNCHANGED <<bytes, row, bound, loose, gc, workers, decayed>>

-----------------------------------------------------------------------------
(* verify.                                                                 *)
Preflight(v, h) ==
    /\ ver[v].at = "IDLE"
    /\ row[h] \in {"AVAILABLE", "MISSING", "CORRUPT"}
    /\ ver' = [ver EXCEPT ![v] =
                  [at |-> "READ", hash |-> h, saw |-> row[h], found |-> "NONE"]]
    /\ UNCHANGED <<bytes, rows, gc, pub, scan, del, decayed>>

Look(v) ==
    /\ ver[v].at = "READ"
    /\ ver' = [ver EXCEPT ![v].at = "LOOKED", ![v].found = Verdict(ver[v].hash)]
    /\ UNCHANGED <<bytes, rows, gc, pub, scan, del, decayed>>

\* The row is what preflight read, and not under collection.
Unmoved(v) == row[ver[v].hash] = ver[v].saw

\* record_verification, if the row is as it was.
RecordVerification(v) ==
    /\ ver[v].at = "LOOKED"
    /\ Unmoved(v)
    /\ row' = [row EXCEPT ![ver[v].hash] = ver[v].found]
    /\ ver' = [ver EXCEPT ![v] = Unsure]
    /\ UNCHANGED <<bytes, keep, bound, loose, gc, pub, scan, del, decayed>>

-----------------------------------------------------------------------------
(* scan_orphans.                                                           *)
ListObjects(s) ==
    /\ scan[s].at = "IDLE"
    /\ scan' = [scan EXCEPT ![s] =
           [Unlisted EXCEPT !.at = "LISTED",
                            !.objects = {h \in Hash : object[h] # "NONE"}]]
    /\ UNCHANGED <<bytes, rows, gc, pub, ver, del, decayed>>

ListQuarantine(s) ==
    /\ scan[s].at = "LISTED"
    /\ scan' = [scan EXCEPT ![s].at = "NEXT", ![s].vault = vault,
                            ![s].todo = scan[s].objects \cup vault]
    /\ UNCHANGED <<bytes, rows, gc, pub, ver, del, decayed>>

\* What the status of a listed hash sends the scan to.  "NEXT": to another hash.
Course(s, h) ==
    CASE cand[h] = "DELETED" -> IF h \in scan[s].objects THEN "REMOVE" ELSE "ERASE"
      [] cand[h] = "OBSERVED" /\ Held(h) -> "CLEAR"
      [] cand[h] \in {"NONE", "CLEARED"} /\ ~Held(h) -> "OBSERVE"
      [] cand[h] = "OBSERVED" /\ ~Held(h) /\ h \in due -> "BEGIN"
      [] cand[h] = "QUARANTINE_PENDING" /\ ~Held(h) -> "MOVE"
      [] OTHER -> "NEXT"

\* Bytes in quarantine that no candidate accounts for end the scan.
Stray(s, h) == Course(s, h) = "OBSERVE" /\ h \in scan[s].vault

\* The scan reads gc_status of its next hash.
Inspect(s, h) ==
    /\ scan[s].at = "NEXT"
    /\ h \in scan[s].todo
    /\ ~Stray(s, h)
    /\ scan' = [scan EXCEPT ![s].at = Course(s, h), ![s].hash = h, ![s].todo = @ \ {h},
                            ![s].token = token[h]]
    /\ UNCHANGED <<bytes, rows, gc, pub, ver, del, decayed>>

\* The scan goes on to step a of its hash, or to its next hash.
GoOn(s, a) == scan' = [scan EXCEPT ![s].at = a]

Finish(s) ==
    /\ scan[s].at = "NEXT" /\ scan[s].todo = {}
    /\ scan' = [scan EXCEPT ![s] = Unlisted]
    /\ UNCHANGED <<bytes, rows, gc, pub, ver, del, decayed>>

\* The bytes of a deleted artifact were published again: off with them.
Remove(s) ==
    /\ scan[s].at = "REMOVE"
    /\ Quarantine(scan[s].hash)
    /\ GoOn(s, "ERASE")
    /\ UNCHANGED <<rows, gc, pub, ver, del, decayed>>

Erase(s) ==
    /\ scan[s].at = "ERASE"
    /\ Unlink(scan[s].hash)
    /\ GoOn(s, "NEXT")
    /\ UNCHANGED <<rows, gc, pub, ver, del, decayed>>

\* observe_gc_candidate.  A hash that was cleared starts a new observation.
Observe(s) ==
    LET h == scan[s].hash IN
    /\ scan[s].at = "OBSERVE"
    /\ IF Held(h)
       THEN UNCHANGED gc
       ELSE /\ cand[h] \in {"NONE", "OBSERVED", "CLEARED"}
            /\ cand' = [cand EXCEPT ![h] = "OBSERVED"]
            /\ tied' = IF row[h] = "NONE" THEN tied ELSE tied \cup {h}
            /\ due' = IF cand[h] = "OBSERVED" THEN due ELSE due \ {h}
            /\ UNCHANGED token
    /\ GoOn(s, "NEXT")
    /\ UNCHANGED <<bytes, rows, pub, ver, del, decayed>>

GraceEnds(h) ==
    /\ cand[h] = "OBSERVED"
    /\ h \notin due
    /\ due' = due \cup {h}
    /\ UNCHANGED <<bytes, rows, cand, tied, token, workers, decayed>>

\* clear_gc_candidate: on what the scan read, which it does not read again.
Clear(s) ==
    LET h == scan[s].hash IN
    /\ scan[s].at = "CLEAR"
    /\ cand[h] = "OBSERVED"
    /\ cand' = [cand EXCEPT ![h] = "CLEARED"]
    /\ token' = [token EXCEPT ![h] = NoToken]
    /\ GoOn(s, "NEXT")
    /\ UNCHANGED <<bytes, rows, tied, due, pub, ver, del, decayed>>

\* Mutant of MayQuarantine: what the scan read is not read again.
MayQuarantineAsRead(h) == cand[h] = "OBSERVED" /\ row[h] \in {"NONE", "AVAILABLE"}

\* What begin_quarantine looks at, with the artifact's row locked.
MayQuarantine(h) ==
    /\ ~Held(h)
    /\ cand[h] = "OBSERVED"
    /\ h \in due
    /\ row[h] \in {"NONE", "AVAILABLE"}

BeginQuarantine(s) ==
    LET h == scan[s].hash IN
    /\ scan[s].at = "BEGIN"
    /\ MayQuarantine(h)
    /\ cand' = [cand EXCEPT ![h] = "QUARANTINE_PENDING"]
    /\ row' = [row EXCEPT ![h] = IF @ = "NONE" THEN "NONE" ELSE "QUARANTINED"]
    /\ token' = [token EXCEPT ![h] = s]
    /\ scan' = [scan EXCEPT ![s].at = "MOVE", ![s].token = s]
    /\ UNCHANGED <<bytes, keep, bound, loose, tied, due, pub, ver, del, decayed>>

Move(s) ==
    /\ scan[s].at = "MOVE"
    /\ Quarantine(scan[s].hash)
    /\ GoOn(s, "FINISH")
    /\ UNCHANGED <<rows, gc, pub, ver, del, decayed>>

\* finish_quarantine.  A second scan that comes to it finds the token stale.
FinishQuarantine(s) ==
    LET h == scan[s].hash IN
    /\ scan[s].at = "FINISH"
    /\ cand[h] = "QUARANTINE_PENDING"
    /\ token[h] = scan[s].token
    /\ h \in tied => row[h] = "QUARANTINED"
    /\ cand' = [cand EXCEPT ![h] = "QUARANTINED"]
    /\ GoOn(s, "NEXT")
    /\ UNCHANGED <<bytes, rows, tied, due, token, pub, ver, del, decayed>>

\* A scan that is run again under its scan_id finds the receipt of its earlier
\* transaction and goes on without one.
Replay(s) ==
    /\ \/ scan[s].at \in {"OBSERVE", "CLEAR"} /\ cand[scan[s].hash] # "NONE"
       \/ scan[s].at = "FINISH" /\ cand[scan[s].hash] # "QUARANTINE_PENDING"
    /\ GoOn(s, "NEXT")
    /\ UNCHANGED <<bytes, rows, gc, pub, ver, del, decayed>>

-----------------------------------------------------------------------------
(* delete_quarantined.                                                     *)
\* Mutant of DeleteCourse: the bytes go before the decision.
DeleteCourseBytesFirst(h) == "UNLINK"

DeleteCourse(h) == IF cand[h] = "QUARANTINED" THEN "BEGIN" ELSE "UNLINK"

StartDelete(d, h) ==
    /\ del[d].at = "IDLE"
    /\ ~Held(h)
    /\ cand[h] \in {"QUARANTINED", "DELETE_PENDING"}
    /\ del' = [del EXCEPT ![d] =
                  [at |-> DeleteCourse(h), hash |-> h, token |-> token[h]]]
    /\ UNCHANGED <<bytes, rows, gc, pub, ver, scan, decayed>>

\* begin_delete, or the receipt of an earlier call with the same key.
BeginDelete(d) ==
    LET h == del[d].hash IN
    /\ del[d].at = "BEGIN"
    /\ \/ /\ ~Held(h)
          /\ cand[h] = "QUARANTINED"
          /\ cand' = [cand EXCEPT ![h] = "DELETE_PENDING"]
          /\ token' = [token EXCEPT ![h] = del[d].token]
       \/ /\ cand[h] \in {"DELETE_PENDING", "DELETED"}
          /\ UNCHANGED <<cand, token>>
    /\ del' = [del EXCEPT ![d].at = "UNLINK"]
    /\ UNCHANGED <<bytes, rows, tied, due, pub, ver, scan, decayed>>

DeleteBytes(d) ==
    /\ del[d].at = "UNLINK"
    /\ Unlink(del[d].hash)
    /\ del' = [del EXCEPT ![d].at = "FINISH"]
    /\ UNCHANGED <<rows, gc, pub, ver, scan, decayed>>

\* Mutant of FinishDelete: the artifact's row is left as it is.
FinishDeleteCandidateOnly(d) ==
    LET h == del[d].hash IN
    /\ del[d].at = "FINISH"
    /\ cand[h] = "DELETE_PENDING"
    /\ cand' = [cand EXCEPT ![h] = "DELETED"]
    /\ del' = [del EXCEPT ![d] = Undecided]
    /\ UNCHANGED <<bytes, rows, tied, due, token, pub, ver, scan, decayed>>

\* finish_delete; a second call with the same key ends without it.
FinishDelete(d) ==
    LET h == del[d].hash IN
    /\ del[d].at = "FINISH"
    /\ cand[h] = "DELETE_PENDING"
    /\ token[h] = del[d].token
    /\ cand' = [cand EXCEPT ![h] = "DELETED"]
    /\ row' = [row EXCEPT ![h] = IF h \in tied THEN "DELETED" ELSE @]
    /\ del' = [del EXCEPT ![d] = Undecided]
    /\ UNCHANGED <<bytes, keep, bound, loose, tied, due, token, pub, ver, scan, decayed>>

-----------------------------------------------------------------------------
\* An exception ends an operation, or its process dies.
Abandon ==
    /\ \/ \E p \in Publisher : /\ pub[p].at # "IDLE"
                               /\ pub' = [pub EXCEPT ![p] = Resting]
                               /\ UNCHANGED <<ver, scan, del>>
       \/ \E v \in Verifier : /\ ver[v].at # "IDLE"
                              /\ ver' = [ver EXCEPT ![v] = Unsure]
                              /\ UNCHANGED <<pub, scan, del>>
       \/ \E s \in Scanner : /\ scan[s].at # "IDLE"
                             /\ scan' = [scan EXCEPT ![s] = Unlisted]
                             /\ UNCHANGED <<pub, ver, del>>
       \/ \E d \in Deleter : /\ del[d].at # "IDLE"
                             /\ del' = [del EXCEPT ![d] = Undecided]
                             /\ UNCHANGED <<pub, ver, scan>>
    /\ UNCHANGED <<bytes, rows, gc, decayed>>

\* Something outside damages or removes a file in objects.
Decay(h) ==
    /\ object[h] # "NONE"
    /\ \E o \in {"NONE", "DAMAGED"} : object' = [object EXCEPT ![h] = o]
    /\ decayed' = decayed \cup {h}
    /\ UNCHANGED <<vault, rows, gc, workers>>

PublisherNext(p) ==
    \/ \E h \in Hash : PublishBytes(p, h)
    \/ VerifyPublished(p)
    \/ \E k \in {"NO", "UNTIL", "PINNED"} : Register(p, k)

VerifierNext(v) ==
    \/ \E h \in Hash : Preflight(v, h)
    \/ Look(v)
    \/ RecordVerification(v)

ScannerNext(s) ==
    \/ ListObjects(s) \/ ListQuarantine(s) \/ Finish(s)
    \/ \E h \in Hash : Inspect(s, h)
    \/ Remove(s) \/ Erase(s)
    \/ Observe(s) \/ Clear(s)
    \/ BeginQuarantine(s) \/ Move(s) \/ FinishQuarantine(s)
    \/ Replay(s)

DeleterNext(d) ==
    \/ \E h \in Hash : StartDelete(d, h)
    \/ BeginDelete(d) \/ DeleteBytes(d) \/ FinishDelete(d)

Next ==
    \/ \E p \in Publisher : PublisherNext(p)
    \/ \E v \in Verifier : VerifierNext(v)
    \/ \E s \in Scanner : ScannerNext(s)
    \/ \E d \in Deleter : DeleterNext(d)
    \/ \E h \in Hash : \/ Bind(h) \/ BindLoosely(h)
                       \/ RetentionEnds(h) \/ GraceEnds(h) \/ Decay(h)
    \/ Abandon

Spec == Init /\ [][Next]_vars

-----------------------------------------------------------------------------
(* Properties.                                                             *)
Steps == {"IDLE", "LISTED", "NEXT", "REMOVE", "ERASE", "OBSERVE", "CLEAR",
          "BEGIN", "MOVE", "FINISH"}

StoreTypeOK ==
    /\ object \in [Hash -> {"NONE", "SOUND", "DAMAGED"}]
    /\ vault \subseteq Hash
    /\ row \in [Hash -> Integrity \cup {"NONE"}]
    /\ keep \in [Hash -> {"NO", "UNTIL", "PINNED"}]
    /\ bound \subseteq Hash /\ loose \subseteq Hash
    /\ cand \in [Hash -> Condemned \cup {"NONE", "OBSERVED", "CLEARED"}]
    /\ tied \subseteq Hash /\ due \subseteq Hash
    /\ token \in [Hash -> Scanner \cup {NoToken}]
    /\ decayed \subseteq Hash

PubRecord  == [at : {"IDLE", "WRITTEN", "VERIFIED"}, hash : Hash \cup {NoHash}]
VerRecord  == [at : {"IDLE", "READ", "LOOKED"}, hash : Hash \cup {NoHash},
               saw : Integrity \cup {"NONE"}, found : Integrity \cup {"NONE"}]
ScanRecord == [at : Steps, hash : Hash \cup {NoHash}, objects : SUBSET Hash,
               vault : SUBSET Hash, todo : SUBSET Hash,
               token : Scanner \cup {NoToken}]
DelRecord  == [at : {"IDLE", "BEGIN", "UNLINK", "FINISH"}, hash : Hash \cup {NoHash},
               token : Scanner \cup {NoToken}]

WorkerTypeOK ==
    /\ pub \in [Publisher -> PubRecord]
    /\ ver \in [Verifier -> VerRecord]
    /\ scan \in [Scanner -> ScanRecord]
    /\ del \in [Deleter -> DelRecord]

\* Files, rows and processes are of their types.
TypeOK == StoreTypeOK /\ WorkerTypeOK

\* What a counted row refers to, and what is pinned, is out of reach of the
\* collector: begun or not, no scan with an old status, and no call to
\* delete, gets at its bytes.
HeldIsNotCollected ==
    \A h \in Hash : Held(h) => cand[h] \notin Condemned /\ h \notin vault

\* An AVAILABLE artifact has its bytes in objects, and an artifact is found
\* MISSING or CORRUPT only if something outside the store got at its bytes:
\* neither a crash, nor collection, nor a publication of the same bytes that
\* it crosses makes it so.
RowTellsTruth ==
    \A h \in Hash \ decayed :
        /\ row[h] = "AVAILABLE" => object[h] = "SOUND" /\ h \notin vault
        /\ row[h] \notin {"MISSING", "CORRUPT"}

\* No hash has a file in both directories.
OneRoot == \A h \in Hash : h \in vault => object[h] = "NONE"

\* Bytes in quarantine, or on the list of them that a scan works from, have a
\* candidate that says so: the scan's "no PostgreSQL GC candidate" never
\* strikes.
QuarantineIsOwned ==
    /\ \A h \in vault : cand[h] \in Condemned
    /\ \A s \in Scanner : \A h \in scan[s].vault : cand[h] \in Condemned

\* The artifact's row and the candidate agree on how far the collection is, and
\* the candidate names the artifact whose row it will end.
RowAgreesWithCandidate ==
    \A h \in Hash :
        /\ cand[h] \in {"QUARANTINE_PENDING", "QUARANTINED", "DELETE_PENDING"} =>
               row[h] \in {"NONE", "QUARANTINED"}
        /\ cand[h] = "DELETED" => row[h] \in {"NONE", "DELETED"}
        /\ row[h] = "QUARANTINED" => cand[h] \in Condemned \ {"DELETED"}
        /\ row[h] = "DELETED" => cand[h] = "DELETED"
        /\ cand[h] \in Condemned => (h \in tied <=> row[h] # "NONE")

\* Bytes leave quarantine only to be deleted, after the decision is committed.
ErasedAfterDecision ==
    [][\A h \in Hash : h \in vault /\ h \notin vault' =>
           cand[h] \in {"DELETE_PENDING", "DELETED"}]_vars

\* The life of a hash, as its row and its candidate tell it.
Life(h) ==
    CASE cand[h] = "DELETED" -> "GONE"
      [] cand[h] \in Condemned \ {"DELETED"} -> "CONDEMNED"
      [] OTHER -> IF row[h] = "NONE" THEN "FREE" ELSE "LIVE"

Lifecycle == INSTANCE ContentLifecycle
    WITH life <- [h \in Hash |-> Life(h)], bound <- bound,
         present <- {h \in Hash : object[h] = "SOUND"}, lost <- decayed

\* Rows, files and processes together are a store that condemns nothing bound,
\* brings nothing back, and withdraws nothing that it has not condemned.
ImplementsLifecycle == Lifecycle!Spec

\* Nothing that the code binds is ever collected: as the documents have it.
ReferencedNeverCollected ==
    \A h \in Hash : h \in bound \cup loose => cand[h] \notin Condemned
=============================================================================
