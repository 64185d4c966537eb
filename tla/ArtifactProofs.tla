--------------------------- MODULE ArtifactProofs ---------------------------
(***************************************************************************)
(* The safety of the artifact store, for any number of hashes and          *)
(* processes.                                                              *)
(*                                                                         *)
(* The properties of ArtifactStore are not inductive: what a process may   *)
(* do next rests on what it, or another, did before.  The invariant below  *)
(* adds what each process may count on at each of its steps.               *)
(***************************************************************************)
EXTENDS ArtifactStore, TLAPS

\* A candidate that is observed or further names the artifact of its hash, if
\* it has one; one that names an artifact has one to name.
TiedToRow ==
    \A h \in Hash : /\ h \in tied => row[h] # "NONE"
                    /\ cand[h] = "OBSERVED" /\ row[h] # "NONE" => h \in tied

\* Bytes that were published stay in objects until their hash is condemned.
PublishedStays ==
    \A p \in Publisher : pub[p].at # "IDLE" =>
        /\ pub[p].hash \in Hash
        /\ \/ pub[p].hash \in decayed
           \/ cand[pub[p].hash] \in Condemned
           \/ object[pub[p].hash] = "SOUND"

Healthy == {"AVAILABLE", "MISSING", "CORRUPT"}

\* A verifier's row may have entered collection since preflight, and then stays
\* there; if not, its verdict on unharmed bytes is that they are available.
VerdictStands ==
    \A v \in Verifier :
        /\ ver[v].at # "IDLE" =>
              /\ ver[v].hash \in Hash
              /\ ver[v].saw \in Healthy
              /\ row[ver[v].hash] # "NONE"
        /\ ver[v].at = "LOOKED" =>
              /\ ver[v].found \in Healthy
              /\ row[ver[v].hash] \in Healthy /\ ver[v].hash \notin decayed =>
                     ver[v].found = "AVAILABLE"

\* A scan moves and removes bytes of a condemned hash only.
ScanHasGrounds ==
    \A s \in Scanner :
        /\ scan[s].at \notin {"IDLE", "LISTED", "NEXT"} => scan[s].hash \in Hash
        /\ scan[s].at \in {"MOVE", "FINISH"} => cand[scan[s].hash] \in Condemned
        /\ scan[s].at \in {"REMOVE", "ERASE"} => cand[scan[s].hash] = "DELETED"

\* A deletion touches bytes only of a hash whose deletion was decided.
DeleteHasGrounds ==
    \A d \in Deleter :
        /\ del[d].at # "IDLE" => del[d].hash \in Hash
        /\ del[d].at \in {"UNLINK", "FINISH"} =>
               cand[del[d].hash] \in {"DELETE_PENDING", "DELETED"}

Inv ==
    /\ TypeOK
    /\ HeldIsNotCollected
    /\ RowTellsTruth
    /\ OneRoot
    /\ QuarantineIsOwned
    /\ RowAgreesWithCandidate
    /\ TiedToRow
    /\ PublishedStays
    /\ VerdictStands
    /\ ScanHasGrounds
    /\ DeleteHasGrounds

LEMMA InitInv == Init => Inv
  BY DEF Init, Inv, TypeOK, StoreTypeOK, WorkerTypeOK, HeldIsNotCollected, RowTellsTruth, OneRoot,
     QuarantineIsOwned, RowAgreesWithCandidate, TiedToRow, PublishedStays,
     VerdictStands, ScanHasGrounds, DeleteHasGrounds, Held, Pinned, Integrity,
     Condemned, Resting, Unsure, Unlisted, Undecided, Steps,
     PubRecord, VerRecord, ScanRecord, DelRecord

\* Going on to another step leaves a scan a scan.
LEMMA GoOnType ==
  ASSUME TypeOK, NEW s \in Scanner, NEW a \in Steps, GoOn(s, a)
  PROVE  scan' \in [Scanner -> ScanRecord]
  BY DEF TypeOK, WorkerTypeOK, GoOn, ScanRecord

LEMMA PublishBytesInv ==
  ASSUME Inv, NEW p \in Publisher, NEW h \in Hash, PublishBytes(p, h)
  PROVE  Inv'
<1>1. StoreTypeOK'
  BY DEF Inv, TypeOK, StoreTypeOK, PublishBytes, rows, gc
<1>2. WorkerTypeOK'
  BY DEF Inv, TypeOK, WorkerTypeOK, PublishBytes, PubRecord
<1>3. RowTellsTruth'
  BY DEF RowTellsTruth, Inv, PublishBytes, rows, gc
<1>4. OneRoot'
  BY DEF OneRoot, Inv, PublishBytes, rows, gc
<1>5. PublishedStays'
  BY DEF PublishedStays, Inv, PublishBytes, rows, gc, TypeOK, StoreTypeOK,
     WorkerTypeOK, PubRecord
<1>6. /\ HeldIsNotCollected' /\ QuarantineIsOwned' /\ RowAgreesWithCandidate'
      /\ TiedToRow' /\ VerdictStands' /\ ScanHasGrounds' /\ DeleteHasGrounds'
  BY DEF Inv, PublishBytes, rows, gc, HeldIsNotCollected, QuarantineIsOwned,
     RowAgreesWithCandidate, TiedToRow, VerdictStands, ScanHasGrounds,
     DeleteHasGrounds, Held, Pinned
<1> QED  BY <1>1, <1>2, <1>3, <1>4, <1>5, <1>6 DEF Inv, TypeOK

LEMMA VerifyPublishedInv ==
  ASSUME Inv, NEW p \in Publisher, VerifyPublished(p)
  PROVE  Inv'
<1>1. WorkerTypeOK'
  BY DEF Inv, TypeOK, WorkerTypeOK, VerifyPublished, PubRecord
<1>2. PublishedStays'
  BY DEF PublishedStays, Inv, VerifyPublished, Verdict, bytes, rows, gc
<1>3. /\ StoreTypeOK' /\ HeldIsNotCollected' /\ RowTellsTruth' /\ OneRoot'
      /\ QuarantineIsOwned' /\ RowAgreesWithCandidate' /\ TiedToRow'
      /\ VerdictStands' /\ ScanHasGrounds' /\ DeleteHasGrounds'
  BY DEF Inv, VerifyPublished, TypeOK, bytes, rows, gc, StoreTypeOK,
     HeldIsNotCollected, RowTellsTruth, OneRoot, QuarantineIsOwned,
     RowAgreesWithCandidate, TiedToRow, VerdictStands, ScanHasGrounds,
     DeleteHasGrounds, Held, Pinned
<1> QED  BY <1>1, <1>2, <1>3 DEF Inv, TypeOK

LEMMA RegisterInv ==
  ASSUME Inv, NEW p \in Publisher, NEW k \in {"NO", "UNTIL", "PINNED"}, Register(p, k)
  PROVE  Inv'
<1>1. StoreTypeOK'
  BY DEF Inv, TypeOK, StoreTypeOK, Register, Admissible, bytes, Integrity,
     Condemned, WorkerTypeOK, PubRecord, ScanHasGrounds, DeleteHasGrounds,
     PublishedStays, VerdictStands, Healthy
<1>2. WorkerTypeOK'
  BY DEF Inv, TypeOK, WorkerTypeOK, Register, PubRecord, Resting
<1>3. HeldIsNotCollected'
  BY DEF HeldIsNotCollected, Inv, Register, Admissible, bytes, Resting, Held,
     Pinned, TypeOK, StoreTypeOK, WorkerTypeOK, PubRecord, Condemned, Integrity,
     RowAgreesWithCandidate, QuarantineIsOwned
<1>4. RowTellsTruth'
  BY DEF RowTellsTruth, Inv, Register, Admissible, bytes, Resting, TypeOK,
     StoreTypeOK, WorkerTypeOK, PubRecord, Condemned, Integrity, Held, Pinned,
     RowAgreesWithCandidate, QuarantineIsOwned, HeldIsNotCollected,
     ScanHasGrounds, DeleteHasGrounds, TiedToRow, OneRoot, PublishedStays,
     VerdictStands, Healthy, Steps
<1>5. QuarantineIsOwned'
  <2>1. \A x \in Hash : cand[x] \in Condemned => cand'[x] \in Condemned
    BY DEF Inv, TypeOK, StoreTypeOK, Register, Admissible, Condemned
  <2>2. vault' = vault /\ scan' = scan
    BY DEF Register, bytes
  <2> QED  BY <2>1, <2>2 DEF Inv, TypeOK, StoreTypeOK, WorkerTypeOK, ScanRecord,
                          QuarantineIsOwned
<1>6. RowAgreesWithCandidate'
  BY DEF RowAgreesWithCandidate, Inv, Register, Admissible, bytes, Resting,
     TypeOK, StoreTypeOK, WorkerTypeOK, PubRecord, Condemned, Integrity, Held,
     Pinned
<1>7. TiedToRow'
  BY DEF TiedToRow, Inv, Register, Admissible, bytes, Resting, TypeOK,
     StoreTypeOK, WorkerTypeOK, PubRecord
<1>8. PublishedStays'
  BY DEF PublishedStays, Inv, Register, Admissible, bytes, Resting, TypeOK,
     StoreTypeOK, WorkerTypeOK, PubRecord, Condemned, Integrity, Held, Pinned
<1>9. VerdictStands'
  BY DEF VerdictStands, Inv, Register, Admissible, bytes, Resting, Healthy
<1>10. ScanHasGrounds'
  BY DEF ScanHasGrounds, Inv, Register, Admissible, bytes, Resting, TypeOK,
     StoreTypeOK, WorkerTypeOK, PubRecord, Condemned, Integrity, Held, Pinned
<1>11. DeleteHasGrounds'
  BY DEF DeleteHasGrounds, Inv, Register, Admissible, bytes, Resting, TypeOK,
     StoreTypeOK, WorkerTypeOK, PubRecord
<1>12. /\ OneRoot'
  BY DEF Inv, Register, bytes, OneRoot
<1> QED  BY <1>1, <1>2, <1>3, <1>4, <1>5, <1>6, <1>7, <1>8, <1>9, <1>10, <1>11, <1>12 DEF Inv, TypeOK

LEMMA PreflightInv ==
  ASSUME Inv, NEW v \in Verifier, NEW h \in Hash, Preflight(v, h)
  PROVE  Inv'
<1>1. WorkerTypeOK'
  BY DEF Inv, TypeOK, WorkerTypeOK, Preflight, VerRecord, StoreTypeOK
<1>2. VerdictStands'
  BY DEF VerdictStands, Inv, Preflight, bytes, rows, gc, Healthy
<1>3. /\ StoreTypeOK' /\ HeldIsNotCollected' /\ RowTellsTruth' /\ OneRoot'
      /\ QuarantineIsOwned' /\ RowAgreesWithCandidate' /\ TiedToRow'
      /\ PublishedStays' /\ ScanHasGrounds' /\ DeleteHasGrounds'
  BY DEF Inv, Preflight, TypeOK, bytes, rows, gc, StoreTypeOK,
     HeldIsNotCollected, RowTellsTruth, OneRoot, QuarantineIsOwned,
     RowAgreesWithCandidate, TiedToRow, PublishedStays, ScanHasGrounds,
     DeleteHasGrounds, Held, Pinned
<1> QED  BY <1>1, <1>2, <1>3 DEF Inv, TypeOK

LEMMA LookInv ==
  ASSUME Inv, NEW v \in Verifier, Look(v)
  PROVE  Inv'
<1>1. WorkerTypeOK'
  <2>1. Verdict(ver[v].hash) \in Integrity
    BY DEF Inv, TypeOK, StoreTypeOK, VerdictStands, Look, Verdict, Integrity
  <2> QED  BY <2>1 DEF Inv, TypeOK, WorkerTypeOK, Look, VerRecord
<1>2. VerdictStands'
  BY DEF VerdictStands, Inv, Look, Verdict, bytes, rows, gc, Healthy, TypeOK,
     StoreTypeOK, WorkerTypeOK, VerRecord, Condemned, Integrity, Held, Pinned,
     RowAgreesWithCandidate, QuarantineIsOwned, HeldIsNotCollected,
     RowTellsTruth, ScanHasGrounds, DeleteHasGrounds, TiedToRow
<1>3. /\ StoreTypeOK' /\ HeldIsNotCollected' /\ RowTellsTruth' /\ OneRoot'
      /\ QuarantineIsOwned' /\ RowAgreesWithCandidate' /\ TiedToRow'
      /\ PublishedStays' /\ ScanHasGrounds' /\ DeleteHasGrounds'
  BY DEF Inv, Look, TypeOK, bytes, rows, gc, StoreTypeOK, HeldIsNotCollected,
     RowTellsTruth, OneRoot, QuarantineIsOwned, RowAgreesWithCandidate,
     TiedToRow, PublishedStays, ScanHasGrounds, DeleteHasGrounds, Held, Pinned
<1> QED  BY <1>1, <1>2, <1>3 DEF Inv, TypeOK

LEMMA RecordVerificationInv ==
  ASSUME Inv, NEW v \in Verifier, RecordVerification(v)
  PROVE  Inv'
<1>1. StoreTypeOK'
  BY DEF Inv, TypeOK, StoreTypeOK, RecordVerification, Unmoved, bytes, gc,
     Integrity, Condemned, WorkerTypeOK, VerRecord
<1>2. WorkerTypeOK'
  BY DEF Inv, TypeOK, WorkerTypeOK, RecordVerification, VerRecord, Unsure
<1>3. HeldIsNotCollected'
  BY DEF HeldIsNotCollected, Inv, RecordVerification, Unmoved, bytes, gc,
     Unsure, Held, Pinned, TypeOK, StoreTypeOK, WorkerTypeOK, VerRecord,
     Condemned, Integrity, RowAgreesWithCandidate, QuarantineIsOwned,
     RowTellsTruth, ScanHasGrounds, DeleteHasGrounds, TiedToRow, OneRoot,
     PublishedStays, VerdictStands, Healthy, Steps
<1>4. RowTellsTruth'
  BY DEF RowTellsTruth, Inv, RecordVerification, Unmoved, bytes, gc, Unsure,
     TypeOK, StoreTypeOK, WorkerTypeOK, VerRecord, Condemned, Integrity, Held,
     Pinned, RowAgreesWithCandidate, QuarantineIsOwned, HeldIsNotCollected,
     ScanHasGrounds, DeleteHasGrounds, TiedToRow, OneRoot, PublishedStays,
     VerdictStands, Healthy, Steps
<1>5. RowAgreesWithCandidate'
  BY DEF RowAgreesWithCandidate, Inv, RecordVerification, Unmoved, bytes, gc,
     Unsure, TypeOK, StoreTypeOK, WorkerTypeOK, VerRecord, Condemned, Integrity,
     Held, Pinned, QuarantineIsOwned, HeldIsNotCollected, RowTellsTruth,
     ScanHasGrounds, DeleteHasGrounds, TiedToRow, OneRoot, PublishedStays,
     VerdictStands, Healthy, Steps
<1>6. TiedToRow'
  BY DEF TiedToRow, Inv, RecordVerification, Unmoved, bytes, gc, Unsure, TypeOK,
     StoreTypeOK, WorkerTypeOK, VerRecord, Condemned, Integrity, Held, Pinned,
     RowAgreesWithCandidate, QuarantineIsOwned, HeldIsNotCollected,
     RowTellsTruth, ScanHasGrounds, DeleteHasGrounds, OneRoot, PublishedStays,
     VerdictStands, Healthy, Steps
<1>7. VerdictStands'
  BY DEF VerdictStands, Inv, RecordVerification, Unmoved, bytes, gc, Unsure,
     Healthy
<1>8. /\ OneRoot' /\ QuarantineIsOwned' /\ PublishedStays' /\ ScanHasGrounds'
      /\ DeleteHasGrounds'
  BY DEF Inv, RecordVerification, bytes, gc, OneRoot, QuarantineIsOwned,
     PublishedStays, ScanHasGrounds, DeleteHasGrounds
<1> QED  BY <1>1, <1>2, <1>3, <1>4, <1>5, <1>6, <1>7, <1>8 DEF Inv, TypeOK

LEMMA ListObjectsInv ==
  ASSUME Inv, NEW s \in Scanner, ListObjects(s)
  PROVE  Inv'
<1>1. WorkerTypeOK'
  BY DEF Inv, TypeOK, WorkerTypeOK, ListObjects, Steps, ScanRecord, Unlisted
<1>2. QuarantineIsOwned'
  BY DEF QuarantineIsOwned, Inv, ListObjects, bytes, rows, gc, Unlisted
<1>3. ScanHasGrounds'
  BY DEF ScanHasGrounds, Inv, ListObjects, bytes, rows, gc, Unlisted
<1>4. /\ StoreTypeOK' /\ HeldIsNotCollected' /\ RowTellsTruth' /\ OneRoot'
      /\ RowAgreesWithCandidate' /\ TiedToRow' /\ PublishedStays'
      /\ VerdictStands' /\ DeleteHasGrounds'
  BY DEF Inv, ListObjects, TypeOK, bytes, rows, gc, StoreTypeOK,
     HeldIsNotCollected, RowTellsTruth, OneRoot, RowAgreesWithCandidate,
     TiedToRow, PublishedStays, VerdictStands, DeleteHasGrounds, Held, Pinned
<1> QED  BY <1>1, <1>2, <1>3, <1>4 DEF Inv, TypeOK

LEMMA ListQuarantineInv ==
  ASSUME Inv, NEW s \in Scanner, ListQuarantine(s)
  PROVE  Inv'
<1>1. WorkerTypeOK'
  <2>1. vault \subseteq Hash /\ scan[s] \in ScanRecord
    BY DEF Inv, TypeOK, StoreTypeOK, WorkerTypeOK
  <2>2. [scan[s] EXCEPT !.at = "NEXT", !.vault = vault,
                        !.todo = scan[s].objects \cup vault] \in ScanRecord
    BY <2>1 DEF ScanRecord, Steps
  <2>3. scan' \in [Scanner -> ScanRecord]
    BY <2>2 DEF Inv, TypeOK, WorkerTypeOK, ListQuarantine
  <2> QED  BY <2>3 DEF Inv, TypeOK, WorkerTypeOK, ListQuarantine
<1>2. QuarantineIsOwned'
  BY DEF QuarantineIsOwned, Inv, ListQuarantine, bytes, rows, gc, TypeOK,
     StoreTypeOK, WorkerTypeOK, ScanRecord
<1>3. ScanHasGrounds'
  BY DEF ScanHasGrounds, Inv, ListQuarantine, bytes, rows, gc, TypeOK,
     StoreTypeOK, WorkerTypeOK, ScanRecord
<1>4. /\ StoreTypeOK' /\ HeldIsNotCollected' /\ RowTellsTruth' /\ OneRoot'
      /\ RowAgreesWithCandidate' /\ TiedToRow' /\ PublishedStays'
      /\ VerdictStands' /\ DeleteHasGrounds'
  BY DEF Inv, ListQuarantine, TypeOK, bytes, rows, gc, StoreTypeOK,
     HeldIsNotCollected, RowTellsTruth, OneRoot, RowAgreesWithCandidate,
     TiedToRow, PublishedStays, VerdictStands, DeleteHasGrounds, Held, Pinned
<1> QED  BY <1>1, <1>2, <1>3, <1>4 DEF Inv, TypeOK

LEMMA FinishInv ==
  ASSUME Inv, NEW s \in Scanner, Finish(s)
  PROVE  Inv'
<1>1. WorkerTypeOK'
  BY DEF Inv, TypeOK, WorkerTypeOK, Finish, Steps, ScanRecord, Unlisted
<1>2. QuarantineIsOwned'
  BY DEF QuarantineIsOwned, Inv, Finish, bytes, rows, gc, Unlisted
<1>3. ScanHasGrounds'
  BY DEF ScanHasGrounds, Inv, Finish, bytes, rows, gc, Unlisted
<1>4. /\ StoreTypeOK' /\ HeldIsNotCollected' /\ RowTellsTruth' /\ OneRoot'
      /\ RowAgreesWithCandidate' /\ TiedToRow' /\ PublishedStays'
      /\ VerdictStands' /\ DeleteHasGrounds'
  BY DEF Inv, Finish, TypeOK, bytes, rows, gc, StoreTypeOK, HeldIsNotCollected,
     RowTellsTruth, OneRoot, RowAgreesWithCandidate, TiedToRow, PublishedStays,
     VerdictStands, DeleteHasGrounds, Held, Pinned
<1> QED  BY <1>1, <1>2, <1>3, <1>4 DEF Inv, TypeOK

LEMMA InspectInv ==
  ASSUME Inv, NEW s \in Scanner, NEW h \in Hash, Inspect(s, h)
  PROVE  Inv'
<1>1. WorkerTypeOK'
  <2>1. Course(s, h) \in Steps
    BY DEF Course, Steps
  <2> QED  BY <2>1 DEF Inv, TypeOK, StoreTypeOK, WorkerTypeOK, Inspect, ScanRecord
<1>2. QuarantineIsOwned'
  <2>1. UNCHANGED <<vault, cand>>
    BY DEF Inspect, bytes, gc
  <2>2. \A t \in Scanner : scan'[t].vault = scan[t].vault
    BY DEF Inv, TypeOK, WorkerTypeOK, ScanRecord, Inspect
  <2> QED  BY <2>1, <2>2 DEF Inv, TypeOK, StoreTypeOK, WorkerTypeOK, ScanRecord,
                          QuarantineIsOwned
<1>3. ScanHasGrounds'
  <2>1. scan' = [scan EXCEPT ![s] = [scan[s] EXCEPT !.at = Course(s, h), !.hash = h,
                                         !.todo = @ \ {h}, !.token = token[h]]]
    BY DEF Inspect
  <2>2. scan'[s].at = Course(s, h) /\ scan'[s].hash = h
    BY <2>1 DEF Inv, TypeOK, WorkerTypeOK, ScanRecord
  <2>3. /\ Course(s, h) \in {"MOVE", "FINISH"} => cand[h] \in Condemned
        /\ Course(s, h) \in {"REMOVE", "ERASE"} => cand[h] = "DELETED"
    BY DEF Course, Condemned
  <2>4. \A t \in Scanner \ {s} : scan'[t] = scan[t]
    BY <2>1 DEF Inv, TypeOK, WorkerTypeOK
  <2>5. UNCHANGED cand
    BY DEF Inspect, gc
  <2> QED  BY <2>2, <2>3, <2>4, <2>5 DEF Inv, ScanHasGrounds
<1>4. /\ StoreTypeOK' /\ HeldIsNotCollected' /\ RowTellsTruth' /\ OneRoot'
      /\ RowAgreesWithCandidate' /\ TiedToRow' /\ PublishedStays'
      /\ VerdictStands' /\ DeleteHasGrounds'
  BY DEF Inv, Inspect, TypeOK, GoOn, bytes, rows, gc, StoreTypeOK,
     HeldIsNotCollected, RowTellsTruth, OneRoot, RowAgreesWithCandidate,
     TiedToRow, PublishedStays, VerdictStands, DeleteHasGrounds, Held, Pinned
<1> QED  BY <1>1, <1>2, <1>3, <1>4 DEF Inv, TypeOK

LEMMA RemoveInv ==
  ASSUME Inv, NEW s \in Scanner, Remove(s)
  PROVE  Inv'
<1>1. StoreTypeOK'
  BY DEF Inv, TypeOK, StoreTypeOK, Remove, Quarantine, bytes, rows, gc,
     Integrity, Condemned, WorkerTypeOK, ScanRecord, ScanHasGrounds,
     DeleteHasGrounds, PublishedStays, VerdictStands, Healthy
<1>2. WorkerTypeOK'
  BY GoOnType DEF Inv, TypeOK, WorkerTypeOK, Remove, Steps
<1>3. HeldIsNotCollected'
  BY DEF HeldIsNotCollected, Inv, Remove, Quarantine, GoOn, bytes, rows, gc,
     Held, Pinned, TypeOK, StoreTypeOK, WorkerTypeOK, ScanRecord, Condemned,
     Integrity, RowAgreesWithCandidate, QuarantineIsOwned, RowTellsTruth,
     ScanHasGrounds, DeleteHasGrounds, TiedToRow
<1>4. RowTellsTruth'
  BY DEF RowTellsTruth, Inv, Remove, Quarantine, GoOn, bytes, rows, gc, TypeOK,
     StoreTypeOK, WorkerTypeOK, ScanRecord, Condemned, Integrity, Held, Pinned,
     RowAgreesWithCandidate, QuarantineIsOwned, HeldIsNotCollected,
     ScanHasGrounds, DeleteHasGrounds, TiedToRow
<1>5. OneRoot'
  BY DEF OneRoot, Inv, Remove, Quarantine, GoOn, bytes, rows, gc, TypeOK,
     StoreTypeOK, WorkerTypeOK, ScanRecord
<1>6. QuarantineIsOwned'
  BY DEF QuarantineIsOwned, Inv, Remove, Quarantine, GoOn, bytes, rows, gc,
     TypeOK, StoreTypeOK, WorkerTypeOK, ScanRecord, Condemned, Integrity, Held,
     Pinned, RowAgreesWithCandidate, HeldIsNotCollected, RowTellsTruth,
     ScanHasGrounds, DeleteHasGrounds, TiedToRow
<1>7. PublishedStays'
  BY DEF PublishedStays, Inv, Remove, Quarantine, GoOn, bytes, rows, gc, TypeOK,
     StoreTypeOK, WorkerTypeOK, ScanRecord, Condemned, Integrity, Held, Pinned,
     RowAgreesWithCandidate, QuarantineIsOwned, HeldIsNotCollected,
     RowTellsTruth, ScanHasGrounds, DeleteHasGrounds, TiedToRow
<1>8. ScanHasGrounds'
  BY DEF ScanHasGrounds, Inv, Remove, Quarantine, GoOn, bytes, rows, gc
<1>9. /\ RowAgreesWithCandidate' /\ TiedToRow' /\ VerdictStands'
      /\ DeleteHasGrounds'
  BY DEF Inv, Remove, Quarantine, GoOn, bytes, rows, gc, RowAgreesWithCandidate,
     TiedToRow, VerdictStands, DeleteHasGrounds
<1> QED  BY <1>1, <1>2, <1>3, <1>4, <1>5, <1>6, <1>7, <1>8, <1>9 DEF Inv, TypeOK

LEMMA EraseInv ==
  ASSUME Inv, NEW s \in Scanner, Erase(s)
  PROVE  Inv'
<1>1. StoreTypeOK'
  BY DEF Inv, TypeOK, StoreTypeOK, Erase, Unlink, rows, gc
<1>2. WorkerTypeOK'
  BY GoOnType DEF Inv, TypeOK, WorkerTypeOK, Erase, Steps
<1>3. HeldIsNotCollected'
  BY DEF HeldIsNotCollected, Inv, Erase, Unlink, GoOn, rows, gc, Held, Pinned
<1>4. RowTellsTruth'
  BY DEF RowTellsTruth, Inv, Erase, Unlink, GoOn, rows, gc
<1>5. OneRoot'
  BY DEF OneRoot, Inv, Erase, Unlink, GoOn, rows, gc
<1>6. QuarantineIsOwned'
  BY DEF QuarantineIsOwned, Inv, Erase, Unlink, GoOn, rows, gc
<1>7. ScanHasGrounds'
  BY DEF ScanHasGrounds, Inv, Erase, Unlink, GoOn, rows, gc
<1>8. /\ RowAgreesWithCandidate' /\ TiedToRow' /\ PublishedStays'
      /\ VerdictStands' /\ DeleteHasGrounds'
  BY DEF Inv, Erase, Unlink, GoOn, rows, gc, RowAgreesWithCandidate, TiedToRow,
     PublishedStays, VerdictStands, DeleteHasGrounds
<1> QED  BY <1>1, <1>2, <1>3, <1>4, <1>5, <1>6, <1>7, <1>8 DEF Inv, TypeOK

LEMMA ObserveInv ==
  ASSUME Inv, NEW s \in Scanner, Observe(s)
  PROVE  Inv'
<1>1. StoreTypeOK'
  BY DEF Inv, TypeOK, StoreTypeOK, Observe, bytes, rows, gc, Integrity,
     Condemned, WorkerTypeOK, ScanRecord, ScanHasGrounds, DeleteHasGrounds,
     PublishedStays, VerdictStands, Healthy
<1>2. WorkerTypeOK'
  BY GoOnType DEF Inv, TypeOK, WorkerTypeOK, Observe, Steps
<1>3. HeldIsNotCollected'
  BY DEF HeldIsNotCollected, Inv, Observe, GoOn, bytes, rows, gc, Held, Pinned,
     TypeOK, StoreTypeOK, WorkerTypeOK, ScanRecord
<1>4. QuarantineIsOwned'
  <2>1. \A x \in Hash : cand[x] \in Condemned => cand'[x] \in Condemned
    BY DEF Inv, TypeOK, StoreTypeOK, Observe, Condemned, gc
  <2>2. vault' = vault /\ \A t \in Scanner : scan'[t].vault = scan[t].vault
    BY DEF Inv, TypeOK, WorkerTypeOK, ScanRecord, Observe, GoOn, bytes
  <2> QED  BY <2>1, <2>2 DEF Inv, TypeOK, StoreTypeOK, WorkerTypeOK, ScanRecord,
                          QuarantineIsOwned
<1>5. RowAgreesWithCandidate'
  BY DEF RowAgreesWithCandidate, Inv, Observe, GoOn, bytes, rows, gc, TypeOK,
     StoreTypeOK, WorkerTypeOK, ScanRecord, Condemned, Integrity, Held, Pinned
<1>6. TiedToRow'
  BY DEF TiedToRow, Inv, Observe, GoOn, bytes, rows, gc, TypeOK, StoreTypeOK,
     WorkerTypeOK, ScanRecord
<1>7. PublishedStays'
  BY DEF PublishedStays, Inv, Observe, GoOn, bytes, rows, gc, TypeOK,
     StoreTypeOK, WorkerTypeOK, ScanRecord, Condemned, Integrity, Held, Pinned
<1>8. ScanHasGrounds'
  BY DEF ScanHasGrounds, Inv, Observe, GoOn, bytes, rows, gc, TypeOK,
     StoreTypeOK, WorkerTypeOK, ScanRecord, Condemned, Integrity, Held, Pinned
<1>9. DeleteHasGrounds'
  BY DEF DeleteHasGrounds, Inv, Observe, GoOn, bytes, rows, gc, TypeOK,
     StoreTypeOK, WorkerTypeOK, ScanRecord
<1>10. /\ RowTellsTruth' /\ OneRoot' /\ VerdictStands'
  BY DEF Inv, Observe, GoOn, bytes, rows, gc, RowTellsTruth, OneRoot,
     VerdictStands
<1> QED  BY <1>1, <1>2, <1>3, <1>4, <1>5, <1>6, <1>7, <1>8, <1>9, <1>10 DEF Inv, TypeOK

LEMMA ClearInv ==
  ASSUME Inv, NEW s \in Scanner, Clear(s)
  PROVE  Inv'
<1>1. StoreTypeOK'
  BY DEF Inv, TypeOK, StoreTypeOK, Clear, bytes, rows
<1>2. WorkerTypeOK'
  BY GoOnType DEF Inv, TypeOK, WorkerTypeOK, Clear, Steps
<1>3. HeldIsNotCollected'
  BY DEF HeldIsNotCollected, Inv, Clear, GoOn, bytes, rows, Held, Pinned,
     TypeOK, StoreTypeOK, WorkerTypeOK, ScanRecord, Condemned, Integrity
<1>4. QuarantineIsOwned'
  BY DEF QuarantineIsOwned, Inv, Clear, GoOn, bytes, rows, TypeOK, StoreTypeOK,
     WorkerTypeOK, ScanRecord, Condemned, Integrity, Held, Pinned
<1>5. RowAgreesWithCandidate'
  BY DEF RowAgreesWithCandidate, Inv, Clear, GoOn, bytes, rows, TypeOK,
     StoreTypeOK, WorkerTypeOK, ScanRecord, Condemned, Integrity, Held, Pinned
<1>6. TiedToRow'
  BY DEF TiedToRow, Inv, Clear, GoOn, bytes, rows
<1>7. PublishedStays'
  BY DEF PublishedStays, Inv, Clear, GoOn, bytes, rows, TypeOK, StoreTypeOK,
     WorkerTypeOK, ScanRecord, Condemned, Integrity, Held, Pinned
<1>8. ScanHasGrounds'
  BY DEF ScanHasGrounds, Inv, Clear, GoOn, bytes, rows, TypeOK, StoreTypeOK,
     WorkerTypeOK, ScanRecord, Condemned, Integrity, Held, Pinned
<1>9. DeleteHasGrounds'
  BY DEF DeleteHasGrounds, Inv, Clear, GoOn, bytes, rows
<1>10. /\ RowTellsTruth' /\ OneRoot' /\ VerdictStands'
  BY DEF Inv, Clear, GoOn, bytes, rows, RowTellsTruth, OneRoot, VerdictStands
<1> QED  BY <1>1, <1>2, <1>3, <1>4, <1>5, <1>6, <1>7, <1>8, <1>9, <1>10 DEF Inv, TypeOK

LEMMA BeginQuarantineInv ==
  ASSUME Inv, NEW s \in Scanner, BeginQuarantine(s)
  PROVE  Inv'
<1>1. StoreTypeOK'
  BY DEF Inv, TypeOK, StoreTypeOK, BeginQuarantine, MayQuarantine, bytes,
     Integrity, Condemned
<1>2. WorkerTypeOK'
  BY DEF Inv, TypeOK, WorkerTypeOK, BeginQuarantine, Steps, ScanRecord
<1>3. HeldIsNotCollected'
  BY DEF HeldIsNotCollected, Inv, BeginQuarantine, MayQuarantine, bytes, Held,
     Pinned
<1>4. RowTellsTruth'
  BY DEF RowTellsTruth, Inv, BeginQuarantine, MayQuarantine, bytes
<1>5. QuarantineIsOwned'
  <2>1. \A x \in Hash : cand[x] \in Condemned => cand'[x] \in Condemned
    BY DEF Inv, TypeOK, StoreTypeOK, BeginQuarantine, MayQuarantine, Condemned
  <2>2. vault' = vault /\ \A t \in Scanner : scan'[t].vault = scan[t].vault
    BY DEF Inv, TypeOK, WorkerTypeOK, ScanRecord, BeginQuarantine, bytes
  <2> QED  BY <2>1, <2>2 DEF Inv, TypeOK, StoreTypeOK, WorkerTypeOK, ScanRecord,
                          QuarantineIsOwned
<1>6. RowAgreesWithCandidate'
  BY DEF RowAgreesWithCandidate, Inv, BeginQuarantine, MayQuarantine, bytes,
     TypeOK, StoreTypeOK, WorkerTypeOK, ScanRecord, Condemned, Integrity, Held,
     Pinned, QuarantineIsOwned, HeldIsNotCollected, RowTellsTruth,
     ScanHasGrounds, DeleteHasGrounds, TiedToRow
<1>7. TiedToRow'
  BY DEF TiedToRow, Inv, BeginQuarantine, MayQuarantine, bytes
<1>8. PublishedStays'
  BY DEF PublishedStays, Inv, BeginQuarantine, MayQuarantine, bytes, TypeOK,
     StoreTypeOK, WorkerTypeOK, ScanRecord, Condemned, Integrity, Held, Pinned
<1>9. VerdictStands'
  BY DEF VerdictStands, Inv, BeginQuarantine, MayQuarantine, bytes, Healthy
<1>10. ScanHasGrounds'
  BY DEF ScanHasGrounds, Inv, BeginQuarantine, MayQuarantine, bytes, TypeOK,
     StoreTypeOK, WorkerTypeOK, ScanRecord, Condemned, Integrity, Held, Pinned
<1>11. DeleteHasGrounds'
  BY DEF DeleteHasGrounds, Inv, BeginQuarantine, MayQuarantine, bytes
<1>12. /\ OneRoot'
  BY DEF Inv, BeginQuarantine, bytes, OneRoot
<1> QED  BY <1>1, <1>2, <1>3, <1>4, <1>5, <1>6, <1>7, <1>8, <1>9, <1>10, <1>11, <1>12 DEF Inv, TypeOK

LEMMA MoveInv ==
  ASSUME Inv, NEW s \in Scanner, Move(s)
  PROVE  Inv'
<1>1. StoreTypeOK'
  BY DEF Inv, TypeOK, StoreTypeOK, Move, Quarantine, bytes, rows, gc, Integrity,
     Condemned, WorkerTypeOK, ScanRecord, ScanHasGrounds, DeleteHasGrounds,
     PublishedStays, VerdictStands, Healthy
<1>2. WorkerTypeOK'
  BY GoOnType DEF Inv, TypeOK, WorkerTypeOK, Move, Steps
<1>3. HeldIsNotCollected'
  BY DEF HeldIsNotCollected, Inv, Move, Quarantine, GoOn, bytes, rows, gc, Held,
     Pinned, TypeOK, StoreTypeOK, WorkerTypeOK, ScanRecord, Condemned,
     Integrity, RowAgreesWithCandidate, QuarantineIsOwned, RowTellsTruth,
     ScanHasGrounds, DeleteHasGrounds, TiedToRow
<1>4. RowTellsTruth'
  BY DEF RowTellsTruth, Inv, Move, Quarantine, GoOn, bytes, rows, gc, TypeOK,
     StoreTypeOK, WorkerTypeOK, ScanRecord, Condemned, Integrity, Held, Pinned,
     RowAgreesWithCandidate, QuarantineIsOwned, HeldIsNotCollected,
     ScanHasGrounds, DeleteHasGrounds, TiedToRow
<1>5. OneRoot'
  BY DEF OneRoot, Inv, Move, Quarantine, GoOn, bytes, rows, gc, TypeOK,
     StoreTypeOK, WorkerTypeOK, ScanRecord
<1>6. QuarantineIsOwned'
  BY DEF QuarantineIsOwned, Inv, Move, Quarantine, GoOn, bytes, rows, gc,
     TypeOK, StoreTypeOK, WorkerTypeOK, ScanRecord, Condemned, Integrity, Held,
     Pinned, RowAgreesWithCandidate, HeldIsNotCollected, RowTellsTruth,
     ScanHasGrounds, DeleteHasGrounds, TiedToRow
<1>7. PublishedStays'
  BY DEF PublishedStays, Inv, Move, Quarantine, GoOn, bytes, rows, gc, TypeOK,
     StoreTypeOK, WorkerTypeOK, ScanRecord, Condemned, Integrity, Held, Pinned,
     RowAgreesWithCandidate, QuarantineIsOwned, HeldIsNotCollected,
     RowTellsTruth, ScanHasGrounds, DeleteHasGrounds, TiedToRow
<1>8. ScanHasGrounds'
  BY DEF ScanHasGrounds, Inv, Move, Quarantine, GoOn, bytes, rows, gc
<1>9. /\ RowAgreesWithCandidate' /\ TiedToRow' /\ VerdictStands'
      /\ DeleteHasGrounds'
  BY DEF Inv, Move, Quarantine, GoOn, bytes, rows, gc, RowAgreesWithCandidate,
     TiedToRow, VerdictStands, DeleteHasGrounds
<1> QED  BY <1>1, <1>2, <1>3, <1>4, <1>5, <1>6, <1>7, <1>8, <1>9 DEF Inv, TypeOK

LEMMA FinishQuarantineInv ==
  ASSUME Inv, NEW s \in Scanner, FinishQuarantine(s)
  PROVE  Inv'
<1>1. StoreTypeOK'
  BY DEF Inv, TypeOK, StoreTypeOK, FinishQuarantine, bytes, rows, Integrity,
     Condemned
<1>2. WorkerTypeOK'
  BY GoOnType DEF Inv, TypeOK, WorkerTypeOK, FinishQuarantine, Steps
<1>3. HeldIsNotCollected'
  BY DEF HeldIsNotCollected, Inv, FinishQuarantine, GoOn, bytes, rows, Held,
     Pinned, TypeOK, StoreTypeOK, WorkerTypeOK, ScanRecord
<1>4. QuarantineIsOwned'
  BY DEF QuarantineIsOwned, Inv, FinishQuarantine, GoOn, bytes, rows, TypeOK,
     StoreTypeOK, WorkerTypeOK, ScanRecord, Condemned, Integrity, Held, Pinned
<1>5. RowAgreesWithCandidate'
  BY DEF RowAgreesWithCandidate, Inv, FinishQuarantine, GoOn, bytes, rows,
     TypeOK, StoreTypeOK, WorkerTypeOK, ScanRecord, Condemned, Integrity, Held,
     Pinned
<1>6. TiedToRow'
  BY DEF TiedToRow, Inv, FinishQuarantine, GoOn, bytes, rows
<1>7. PublishedStays'
  BY DEF PublishedStays, Inv, FinishQuarantine, GoOn, bytes, rows, TypeOK,
     StoreTypeOK, WorkerTypeOK, ScanRecord, Condemned, Integrity, Held, Pinned
<1>8. ScanHasGrounds'
  BY DEF ScanHasGrounds, Inv, FinishQuarantine, GoOn, bytes, rows, TypeOK,
     StoreTypeOK, WorkerTypeOK, ScanRecord, Condemned, Integrity, Held, Pinned
<1>9. DeleteHasGrounds'
  BY DEF DeleteHasGrounds, Inv, FinishQuarantine, GoOn, bytes, rows
<1>10. /\ RowTellsTruth' /\ OneRoot' /\ VerdictStands'
  BY DEF Inv, FinishQuarantine, GoOn, bytes, rows, RowTellsTruth, OneRoot,
     VerdictStands
<1> QED  BY <1>1, <1>2, <1>3, <1>4, <1>5, <1>6, <1>7, <1>8, <1>9, <1>10 DEF Inv, TypeOK

LEMMA ReplayInv ==
  ASSUME Inv, NEW s \in Scanner, Replay(s)
  PROVE  Inv'
<1>1. WorkerTypeOK'
  BY GoOnType DEF Inv, TypeOK, WorkerTypeOK, Replay, Steps
<1>2. QuarantineIsOwned'
  BY DEF QuarantineIsOwned, Inv, Replay, GoOn, bytes, rows, gc
<1>3. ScanHasGrounds'
  BY DEF ScanHasGrounds, Inv, Replay, GoOn, bytes, rows, gc
<1>4. /\ StoreTypeOK' /\ HeldIsNotCollected' /\ RowTellsTruth' /\ OneRoot'
      /\ RowAgreesWithCandidate' /\ TiedToRow' /\ PublishedStays'
      /\ VerdictStands' /\ DeleteHasGrounds'
  BY DEF Inv, Replay, TypeOK, GoOn, bytes, rows, gc, StoreTypeOK,
     HeldIsNotCollected, RowTellsTruth, OneRoot, RowAgreesWithCandidate,
     TiedToRow, PublishedStays, VerdictStands, DeleteHasGrounds, Held, Pinned
<1> QED  BY <1>1, <1>2, <1>3, <1>4 DEF Inv, TypeOK

LEMMA StartDeleteInv ==
  ASSUME Inv, NEW d \in Deleter, NEW h \in Hash, StartDelete(d, h)
  PROVE  Inv'
<1>1. WorkerTypeOK'
  BY DEF Inv, TypeOK, WorkerTypeOK, StartDelete, DelRecord, StoreTypeOK,
     DeleteCourse
<1>2. DeleteHasGrounds'
  BY DEF DeleteHasGrounds, Inv, StartDelete, DeleteCourse, bytes, rows, gc
<1>3. /\ StoreTypeOK' /\ HeldIsNotCollected' /\ RowTellsTruth' /\ OneRoot'
      /\ QuarantineIsOwned' /\ RowAgreesWithCandidate' /\ TiedToRow'
      /\ PublishedStays' /\ VerdictStands' /\ ScanHasGrounds'
  BY DEF Inv, StartDelete, TypeOK, bytes, rows, gc, StoreTypeOK,
     HeldIsNotCollected, RowTellsTruth, OneRoot, QuarantineIsOwned,
     RowAgreesWithCandidate, TiedToRow, PublishedStays, VerdictStands,
     ScanHasGrounds, Held, Pinned
<1> QED  BY <1>1, <1>2, <1>3 DEF Inv, TypeOK

LEMMA BeginDeleteInv ==
  ASSUME Inv, NEW d \in Deleter, BeginDelete(d)
  PROVE  Inv'
<1>1. StoreTypeOK'
  BY DEF Inv, TypeOK, StoreTypeOK, BeginDelete, bytes, rows, Integrity,
     Condemned, WorkerTypeOK, DelRecord
<1>2. WorkerTypeOK'
  BY DEF Inv, TypeOK, WorkerTypeOK, BeginDelete, DelRecord
<1>3. HeldIsNotCollected'
  BY DEF HeldIsNotCollected, Inv, BeginDelete, bytes, rows, Held, Pinned,
     TypeOK, StoreTypeOK, WorkerTypeOK, DelRecord
<1>4. QuarantineIsOwned'
  <2>1. \A x \in Hash : cand[x] \in Condemned => cand'[x] \in Condemned
    BY DEF Inv, TypeOK, StoreTypeOK, BeginDelete, Condemned
  <2>2. vault' = vault /\ scan' = scan
    BY DEF BeginDelete, bytes
  <2> QED  BY <2>1, <2>2 DEF Inv, TypeOK, StoreTypeOK, WorkerTypeOK, ScanRecord,
                          QuarantineIsOwned
<1>5. RowAgreesWithCandidate'
  BY DEF RowAgreesWithCandidate, Inv, BeginDelete, bytes, rows, TypeOK,
     StoreTypeOK, WorkerTypeOK, DelRecord, Condemned, Integrity, Held, Pinned
<1>6. TiedToRow'
  BY DEF TiedToRow, Inv, BeginDelete, bytes, rows, TypeOK, StoreTypeOK,
     WorkerTypeOK, DelRecord
<1>7. PublishedStays'
  BY DEF PublishedStays, Inv, BeginDelete, bytes, rows, TypeOK, StoreTypeOK,
     WorkerTypeOK, DelRecord, Condemned, Integrity, Held, Pinned
<1>8. ScanHasGrounds'
  BY DEF ScanHasGrounds, Inv, BeginDelete, bytes, rows, TypeOK, StoreTypeOK,
     WorkerTypeOK, DelRecord, Condemned, Integrity, Held, Pinned
<1>9. DeleteHasGrounds'
  BY DEF DeleteHasGrounds, Inv, BeginDelete, bytes, rows, TypeOK, StoreTypeOK,
     WorkerTypeOK, DelRecord
<1>10. /\ RowTellsTruth' /\ OneRoot' /\ VerdictStands'
  BY DEF Inv, BeginDelete, bytes, rows, RowTellsTruth, OneRoot, VerdictStands
<1> QED  BY <1>1, <1>2, <1>3, <1>4, <1>5, <1>6, <1>7, <1>8, <1>9, <1>10 DEF Inv, TypeOK

LEMMA DeleteBytesInv ==
  ASSUME Inv, NEW d \in Deleter, DeleteBytes(d)
  PROVE  Inv'
<1>1. StoreTypeOK'
  BY DEF Inv, TypeOK, StoreTypeOK, DeleteBytes, Unlink, rows, gc
<1>2. WorkerTypeOK'
  BY DEF Inv, TypeOK, WorkerTypeOK, DeleteBytes, DelRecord
<1>3. HeldIsNotCollected'
  BY DEF HeldIsNotCollected, Inv, DeleteBytes, Unlink, rows, gc, Held, Pinned
<1>4. RowTellsTruth'
  BY DEF RowTellsTruth, Inv, DeleteBytes, Unlink, rows, gc
<1>5. OneRoot'
  BY DEF OneRoot, Inv, DeleteBytes, Unlink, rows, gc
<1>6. QuarantineIsOwned'
  BY DEF QuarantineIsOwned, Inv, DeleteBytes, Unlink, rows, gc
<1>7. DeleteHasGrounds'
  BY DEF DeleteHasGrounds, Inv, DeleteBytes, Unlink, rows, gc
<1>8. /\ RowAgreesWithCandidate' /\ TiedToRow' /\ PublishedStays'
      /\ VerdictStands' /\ ScanHasGrounds'
  BY DEF Inv, DeleteBytes, Unlink, rows, gc, RowAgreesWithCandidate, TiedToRow,
     PublishedStays, VerdictStands, ScanHasGrounds
<1> QED  BY <1>1, <1>2, <1>3, <1>4, <1>5, <1>6, <1>7, <1>8 DEF Inv, TypeOK

LEMMA FinishDeleteInv ==
  ASSUME Inv, NEW d \in Deleter, FinishDelete(d)
  PROVE  Inv'
<1>1. StoreTypeOK'
  BY DEF Inv, TypeOK, StoreTypeOK, FinishDelete, bytes, Integrity, Condemned
<1>2. WorkerTypeOK'
  BY DEF Inv, TypeOK, WorkerTypeOK, FinishDelete, DelRecord, Undecided
<1>3. HeldIsNotCollected'
  BY DEF HeldIsNotCollected, Inv, FinishDelete, bytes, Undecided, Held, Pinned,
     TypeOK, StoreTypeOK, WorkerTypeOK, DelRecord
<1>4. RowTellsTruth'
  BY DEF RowTellsTruth, Inv, FinishDelete, bytes, Undecided
<1>5. QuarantineIsOwned'
  BY DEF QuarantineIsOwned, Inv, FinishDelete, bytes, Undecided, TypeOK,
     StoreTypeOK, WorkerTypeOK, DelRecord, Condemned, Integrity, Held, Pinned
<1>6. RowAgreesWithCandidate'
  BY DEF RowAgreesWithCandidate, Inv, FinishDelete, bytes, Undecided, TypeOK,
     StoreTypeOK, WorkerTypeOK, DelRecord
<1>7. TiedToRow'
  BY DEF TiedToRow, Inv, FinishDelete, bytes, Undecided
<1>8. PublishedStays'
  BY DEF PublishedStays, Inv, FinishDelete, bytes, Undecided, TypeOK,
     StoreTypeOK, WorkerTypeOK, DelRecord, Condemned, Integrity, Held, Pinned
<1>9. VerdictStands'
  BY DEF VerdictStands, Inv, FinishDelete, bytes, Undecided, Healthy
<1>10. ScanHasGrounds'
  BY DEF ScanHasGrounds, Inv, FinishDelete, bytes, Undecided, TypeOK,
     StoreTypeOK, WorkerTypeOK, DelRecord, Condemned, Integrity, Held, Pinned
<1>11. DeleteHasGrounds'
  BY DEF DeleteHasGrounds, Inv, FinishDelete, bytes, Undecided
<1>12. /\ OneRoot'
  BY DEF Inv, FinishDelete, bytes, OneRoot
<1> QED  BY <1>1, <1>2, <1>3, <1>4, <1>5, <1>6, <1>7, <1>8, <1>9, <1>10, <1>11, <1>12 DEF Inv, TypeOK

LEMMA BindInv ==
  ASSUME Inv, NEW h \in Hash, Bind(h)
  PROVE  Inv'
<1>1. StoreTypeOK'
  BY DEF Inv, TypeOK, StoreTypeOK, Bind, bytes, gc, workers
<1>2. HeldIsNotCollected'
  BY DEF HeldIsNotCollected, Inv, Bind, bytes, gc, workers, Held, Pinned,
     TypeOK, StoreTypeOK, WorkerTypeOK, Condemned, Integrity,
     RowAgreesWithCandidate, QuarantineIsOwned
<1>3. /\ WorkerTypeOK' /\ RowTellsTruth' /\ OneRoot' /\ QuarantineIsOwned'
      /\ RowAgreesWithCandidate' /\ TiedToRow' /\ PublishedStays'
      /\ VerdictStands' /\ ScanHasGrounds' /\ DeleteHasGrounds'
  BY DEF Inv, Bind, TypeOK, bytes, gc, workers, WorkerTypeOK, RowTellsTruth,
     OneRoot, QuarantineIsOwned, RowAgreesWithCandidate, TiedToRow,
     PublishedStays, VerdictStands, ScanHasGrounds, DeleteHasGrounds
<1> QED  BY <1>1, <1>2, <1>3 DEF Inv, TypeOK

LEMMA BindLooselyInv ==
  ASSUME Inv, NEW h \in Hash, BindLoosely(h)
  PROVE  Inv'
<1>1. StoreTypeOK'
  BY DEF Inv, TypeOK, StoreTypeOK, BindLoosely, bytes, gc, workers
<1>2. /\ WorkerTypeOK' /\ HeldIsNotCollected' /\ RowTellsTruth' /\ OneRoot'
      /\ QuarantineIsOwned' /\ RowAgreesWithCandidate' /\ TiedToRow'
      /\ PublishedStays' /\ VerdictStands' /\ ScanHasGrounds'
      /\ DeleteHasGrounds'
  BY DEF Inv, BindLoosely, TypeOK, bytes, gc, workers, WorkerTypeOK,
     HeldIsNotCollected, RowTellsTruth, OneRoot, QuarantineIsOwned,
     RowAgreesWithCandidate, TiedToRow, PublishedStays, VerdictStands,
     ScanHasGrounds, DeleteHasGrounds, Held, Pinned
<1> QED  BY <1>1, <1>2 DEF Inv, TypeOK

LEMMA RetentionEndsInv ==
  ASSUME Inv, NEW h \in Hash, RetentionEnds(h)
  PROVE  Inv'
<1>1. StoreTypeOK'
  BY DEF Inv, TypeOK, StoreTypeOK, RetentionEnds, bytes, gc, workers
<1>2. HeldIsNotCollected'
  BY DEF HeldIsNotCollected, Inv, RetentionEnds, bytes, gc, workers, Held,
     Pinned
<1>3. /\ WorkerTypeOK' /\ RowTellsTruth' /\ OneRoot' /\ QuarantineIsOwned'
      /\ RowAgreesWithCandidate' /\ TiedToRow' /\ PublishedStays'
      /\ VerdictStands' /\ ScanHasGrounds' /\ DeleteHasGrounds'
  BY DEF Inv, RetentionEnds, TypeOK, bytes, gc, workers, WorkerTypeOK,
     RowTellsTruth, OneRoot, QuarantineIsOwned, RowAgreesWithCandidate,
     TiedToRow, PublishedStays, VerdictStands, ScanHasGrounds, DeleteHasGrounds
<1> QED  BY <1>1, <1>2, <1>3 DEF Inv, TypeOK

LEMMA GraceEndsInv ==
  ASSUME Inv, NEW h \in Hash, GraceEnds(h)
  PROVE  Inv'
<1>1. StoreTypeOK'
  BY DEF Inv, TypeOK, StoreTypeOK, GraceEnds, bytes, rows, workers
<1>2. /\ WorkerTypeOK' /\ HeldIsNotCollected' /\ RowTellsTruth' /\ OneRoot'
      /\ QuarantineIsOwned' /\ RowAgreesWithCandidate' /\ TiedToRow'
      /\ PublishedStays' /\ VerdictStands' /\ ScanHasGrounds'
      /\ DeleteHasGrounds'
  BY DEF Inv, GraceEnds, TypeOK, bytes, rows, workers, WorkerTypeOK,
     HeldIsNotCollected, RowTellsTruth, OneRoot, QuarantineIsOwned,
     RowAgreesWithCandidate, TiedToRow, PublishedStays, VerdictStands,
     ScanHasGrounds, DeleteHasGrounds, Held, Pinned
<1> QED  BY <1>1, <1>2 DEF Inv, TypeOK

LEMMA DecayInv ==
  ASSUME Inv, NEW h \in Hash, Decay(h)
  PROVE  Inv'
<1>1. StoreTypeOK'
  BY DEF Inv, TypeOK, StoreTypeOK, Decay, rows, gc, workers
<1>2. RowTellsTruth'
  BY DEF RowTellsTruth, Inv, Decay, rows, gc, workers
<1>3. OneRoot'
  BY DEF OneRoot, Inv, Decay, rows, gc, workers
<1>4. PublishedStays'
  BY DEF PublishedStays, Inv, Decay, rows, gc, workers
<1>5. VerdictStands'
  BY DEF VerdictStands, Inv, Decay, rows, gc, workers, Healthy
<1>6. /\ WorkerTypeOK' /\ HeldIsNotCollected' /\ QuarantineIsOwned'
      /\ RowAgreesWithCandidate' /\ TiedToRow' /\ ScanHasGrounds'
      /\ DeleteHasGrounds'
  BY DEF Inv, Decay, TypeOK, rows, gc, workers, WorkerTypeOK,
     HeldIsNotCollected, QuarantineIsOwned, RowAgreesWithCandidate, TiedToRow,
     ScanHasGrounds, DeleteHasGrounds, Held, Pinned
<1> QED  BY <1>1, <1>2, <1>3, <1>4, <1>5, <1>6 DEF Inv, TypeOK

LEMMA AbandonInv ==
  ASSUME Inv, Abandon
  PROVE  Inv'
<1>1. WorkerTypeOK'
  <2> USE DEF Inv, TypeOK, WorkerTypeOK, Abandon
  <2>1. pub' \in [Publisher -> PubRecord]
    BY DEF Resting, PubRecord
  <2>2. ver' \in [Verifier -> VerRecord]
    BY DEF Unsure, VerRecord
  <2>3. scan' \in [Scanner -> ScanRecord]
    BY DEF Unlisted, ScanRecord, Steps
  <2>4. del' \in [Deleter -> DelRecord]
    BY DEF Undecided, DelRecord
  <2> QED  BY <2>1, <2>2, <2>3, <2>4
<1>2. QuarantineIsOwned'
  BY DEF QuarantineIsOwned, Inv, Abandon, bytes, rows, gc, Resting, Unsure,
     Unlisted, Undecided, TypeOK, StoreTypeOK, WorkerTypeOK, PubRecord,
     VerRecord, ScanRecord, DelRecord
<1>3. PublishedStays'
  BY DEF PublishedStays, Inv, Abandon, bytes, rows, gc, Resting, Unsure,
     Unlisted, Undecided, TypeOK, StoreTypeOK, WorkerTypeOK, PubRecord,
     VerRecord, ScanRecord, DelRecord
<1>4. VerdictStands'
  BY DEF VerdictStands, Inv, Abandon, bytes, rows, gc, Resting, Unsure,
     Unlisted, Undecided, Healthy, TypeOK, StoreTypeOK, WorkerTypeOK, PubRecord,
     VerRecord, ScanRecord, DelRecord
<1>5. ScanHasGrounds'
  BY DEF ScanHasGrounds, Inv, Abandon, bytes, rows, gc, Resting, Unsure,
     Unlisted, Undecided, TypeOK, StoreTypeOK, WorkerTypeOK, PubRecord,
     VerRecord, ScanRecord, DelRecord
<1>6. DeleteHasGrounds'
  BY DEF DeleteHasGrounds, Inv, Abandon, bytes, rows, gc, Resting, Unsure,
     Unlisted, Undecided, TypeOK, StoreTypeOK, WorkerTypeOK, PubRecord,
     VerRecord, ScanRecord, DelRecord
<1>7. /\ StoreTypeOK' /\ HeldIsNotCollected' /\ RowTellsTruth' /\ OneRoot'
      /\ RowAgreesWithCandidate' /\ TiedToRow'
  BY DEF Inv, Abandon, TypeOK, bytes, rows, gc, StoreTypeOK, HeldIsNotCollected,
     RowTellsTruth, OneRoot, RowAgreesWithCandidate, TiedToRow, Held, Pinned
<1> QED  BY <1>1, <1>2, <1>3, <1>4, <1>5, <1>6, <1>7 DEF Inv, TypeOK

LEMMA StepInv == Inv /\ [Next]_vars => Inv'
<1> SUFFICES ASSUME Inv, [Next]_vars PROVE Inv'
  OBVIOUS
<1>1. CASE \E p \in Publisher : PublisherNext(p)
  BY <1>1, PublishBytesInv, VerifyPublishedInv, RegisterInv DEF PublisherNext
<1>2. CASE \E v \in Verifier : VerifierNext(v)
  BY <1>2, PreflightInv, LookInv, RecordVerificationInv DEF VerifierNext
<1>3. CASE \E s \in Scanner : ScannerNext(s)
  BY <1>3, ListObjectsInv, ListQuarantineInv, FinishInv, InspectInv, RemoveInv,
     EraseInv, ObserveInv, ClearInv, BeginQuarantineInv, MoveInv,
     FinishQuarantineInv, ReplayInv DEF ScannerNext
<1>4. CASE \E d \in Deleter : DeleterNext(d)
  BY <1>4, StartDeleteInv, BeginDeleteInv, DeleteBytesInv, FinishDeleteInv
     DEF DeleterNext
<1>5. CASE \E h \in Hash : Bind(h) \/ BindLoosely(h) \/ RetentionEnds(h)
                             \/ GraceEnds(h) \/ Decay(h)
  BY <1>5, BindInv, BindLooselyInv, RetentionEndsInv, GraceEndsInv, DecayInv
<1>6. CASE Abandon
  BY <1>6, AbandonInv
<1>7. CASE UNCHANGED vars
  BY <1>7 DEF vars, bytes, rows, gc, workers, Inv, TypeOK, StoreTypeOK, WorkerTypeOK,
     HeldIsNotCollected, RowTellsTruth, OneRoot, QuarantineIsOwned,
     RowAgreesWithCandidate, TiedToRow, PublishedStays, VerdictStands,
     ScanHasGrounds, DeleteHasGrounds, Held, Pinned
<1> QED  BY <1>1, <1>2, <1>3, <1>4, <1>5, <1>6, <1>7 DEF Next

\* The invariant holds in every state.
THEOREM StoreInvariant == Spec => []Inv
  BY InitInv, StepInv, PTL DEF Spec

\* Files, rows and processes are always of their types.
THEOREM StoreTypes == Spec => []TypeOK
<1>1. Inv => TypeOK
  BY DEF Inv
<1> QED  BY <1>1, StoreInvariant, PTL

\* HeldIsNotCollected: nothing counted or pinned is ever in quarantine or on its
\* way there.
THEOREM HeldIsSafe == Spec => []HeldIsNotCollected
<1>1. Inv => HeldIsNotCollected
  BY DEF Inv
<1> QED  BY <1>1, StoreInvariant, PTL

\* RowTellsTruth: an AVAILABLE row has its bytes, unless something outside took
\* them.
THEOREM RowsTellTruth == Spec => []RowTellsTruth
<1>1. Inv => RowTellsTruth
  BY DEF Inv
<1> QED  BY <1>1, StoreInvariant, PTL

\* OneRoot: no file operation ever finds a hash in both directories.
THEOREM DirectoriesAgree == Spec => []OneRoot
<1>1. Inv => OneRoot
  BY DEF Inv
<1> QED  BY <1>1, StoreInvariant, PTL

\* QuarantineIsOwned: no scan ever raises on finding bytes in quarantine that
\* no candidate accounts for.
THEOREM VaultIsOwned == Spec => []QuarantineIsOwned
<1>1. Inv => QuarantineIsOwned
  BY DEF Inv
<1> QED  BY <1>1, StoreInvariant, PTL

\* RowAgreesWithCandidate: row and candidate tell one story at every step of a
\* collection.
THEOREM RowsAgree == Spec => []RowAgreesWithCandidate
<1>1. Inv => RowAgreesWithCandidate
  BY DEF Inv
<1> QED  BY <1>1, StoreInvariant, PTL

-----------------------------------------------------------------------------
(* What a step does to the files in quarantine.                            *)
LEMMA StepErases ==
  ASSUME Inv, [Next]_vars, NEW x \in Hash, x \in vault, x \notin vault'
  PROVE  cand[x] \in {"DELETE_PENDING", "DELETED"}
<1>1. ~ UNCHANGED vault
  OBVIOUS
<1>2. CASE \E s \in Scanner : Erase(s)
  BY <1>2 DEF Erase, Unlink, Inv, ScanHasGrounds
<1>3. CASE \E d \in Deleter : DeleteBytes(d)
  BY <1>3 DEF DeleteBytes, Unlink, Inv, DeleteHasGrounds
<1>4. CASE \E s \in Scanner : Remove(s) \/ Move(s)
  BY <1>4 DEF Remove, Move, Quarantine, bytes
<1>5. CASE UNCHANGED vars
  BY <1>1, <1>5 DEF vars, bytes
<1>6. \A p \in Publisher : ~PublisherNext(p)
  BY <1>1 DEF PublisherNext, PublishBytes, VerifyPublished, Register, bytes
<1>7. \A v \in Verifier : ~VerifierNext(v)
  BY <1>1 DEF VerifierNext, Preflight, Look, RecordVerification, bytes
<1>8. ASSUME NEW s \in Scanner, ScannerNext(s)
      PROVE  Erase(s) \/ Remove(s) \/ Move(s)
  <2>1. ASSUME NEW h \in Hash PROVE ~Inspect(s, h)
    BY <1>1 DEF Inspect, bytes
  <2>2. ~(ListObjects(s) \/ ListQuarantine(s) \/ Finish(s) \/ Replay(s))
    BY <1>1 DEF ListObjects, ListQuarantine, Finish, Replay, bytes
  <2>3. ~(Observe(s) \/ Clear(s) \/ BeginQuarantine(s) \/ FinishQuarantine(s))
    BY <1>1 DEF Observe, Clear, BeginQuarantine, FinishQuarantine, bytes
  <2> QED  BY <1>8, <2>1, <2>2, <2>3 DEF ScannerNext
<1>9. \A d \in Deleter : DeleterNext(d) => DeleteBytes(d)
  BY <1>1 DEF DeleterNext, StartDelete, BeginDelete, FinishDelete, bytes
<1>10. \A h \in Hash : ~(Bind(h) \/ BindLoosely(h) \/ RetentionEnds(h)
                           \/ GraceEnds(h) \/ Decay(h))
  BY <1>1 DEF Bind, BindLoosely, RetentionEnds, GraceEnds, Decay, bytes
<1>11. ~Abandon
  BY <1>1 DEF Abandon, bytes
<1> QED  BY <1>2, <1>3, <1>4, <1>5, <1>6, <1>7, <1>8, <1>9, <1>10, <1>11 DEF Next

\* ErasedAfterDecision: bytes leave quarantine only once their deletion is
\* committed.
THEOREM ErasureIsDecided == Spec => ErasedAfterDecision
<1>1. Inv /\ [Next]_vars =>
        [\A h \in Hash : h \in vault /\ h \notin vault' =>
             cand[h] \in {"DELETE_PENDING", "DELETED"}]_vars
  BY StepErases
<1> QED  BY <1>1, StoreInvariant, PTL DEF Spec, ErasedAfterDecision

-----------------------------------------------------------------------------
(* The store implements the life cycle of content.                         *)
Lives    == [h \in Hash |-> Life(h)]
Readable == {h \in Hash : object[h] = "SOUND"}

\* Only a change of what Life tells apart is a change of Life.
LEMMA SameLife ==
  ASSUME \A h \in Hash : /\ row'[h] = "NONE" <=> row[h] = "NONE"
                         /\ cand'[h] = "DELETED" <=> cand[h] = "DELETED"
                         /\ cand'[h] \in Condemned <=> cand[h] \in Condemned
  PROVE  Lives' = Lives
  BY DEF Lives, Life, Condemned

\* What the abstract machine sees of a step that changes none of its variables.
LEMMA Stutter ==
  ASSUME Lives' = Lives, UNCHANGED <<bound, object, decayed>>
  PROVE  UNCHANGED Lifecycle!lifecycleVars
  BY DEF Lives, Lifecycle!lifecycleVars

LEMMA QuietStutters ==
  ASSUME UNCHANGED <<row, cand, bound, object, decayed>>
  PROVE  UNCHANGED Lifecycle!lifecycleVars
<1>1. Lives' = Lives
  BY SameLife
<1> QED  BY <1>1, Stutter

LEMMA PublishBytesStores ==
  ASSUME Inv, NEW p \in Publisher, NEW h \in Hash, PublishBytes(p, h)
  PROVE  Lifecycle!Store(h)
<1>1. Lives' = Lives
  BY SameLife DEF PublishBytes, rows, gc
<1>2. Readable' = Readable \cup {h}
  BY DEF Inv, TypeOK, StoreTypeOK, PublishBytes, Readable
<1> QED  BY <1>1, <1>2 DEF Lifecycle!Store, PublishBytes, rows, Lives, Readable

LEMMA RegisterRegisters ==
  ASSUME Inv, NEW p \in Publisher, NEW k \in {"NO", "UNTIL", "PINNED"}, Register(p, k)
  PROVE  \/ \E h \in Hash : Lifecycle!Register(h)
         \/ UNCHANGED Lifecycle!lifecycleVars
<1> DEFINE h == pub[p].hash
<1>1. /\ h \in Hash
      /\ cand[h] \in {"NONE", "OBSERVED", "CLEARED"}
      /\ h \in decayed \/ object[h] = "SOUND"
  BY DEF Inv, PublishedStays, Register, Admissible, Condemned
<1>2. /\ \A x \in Hash \ {h} : row'[x] = row[x] /\ cand'[x] = cand[x]
      /\ row'[h] = "AVAILABLE" /\ cand'[h] \in {"NONE", "OBSERVED", "CLEARED"}
      /\ UNCHANGED <<bound, object, decayed>>
  BY <1>1 DEF Inv, TypeOK, StoreTypeOK, Register, bytes
<1>3. CASE row[h] = "NONE"
  <2>1. Lives' = [Lives EXCEPT ![h] = "LIVE"] /\ Lives[h] = "FREE"
    BY <1>1, <1>2, <1>3 DEF Lives, Life, Condemned
  <2>2. Lifecycle!Register(h)
    BY <1>1, <1>2, <2>1 DEF Lifecycle!Register, Lives
  <2> QED  BY <1>1, <2>2
<1>4. CASE row[h] # "NONE"
  <2>1. Lives' = Lives
    BY <1>1, <1>2, <1>4, SameLife DEF Condemned
  <2> QED  BY <1>2, <2>1, Stutter
<1> QED  BY <1>3, <1>4

LEMMA RecordStutters ==
  ASSUME Inv, NEW v \in Verifier, RecordVerification(v)
  PROVE  UNCHANGED Lifecycle!lifecycleVars
<1>1. Lives' = Lives
  BY SameLife DEF Inv, TypeOK, StoreTypeOK, VerdictStands, RecordVerification,
     Healthy, gc
<1> QED  BY <1>1, Stutter DEF RecordVerification, bytes

LEMMA BindBinds ==
  ASSUME Inv, NEW h \in Hash, Bind(h) PROVE Lifecycle!Bind(h)
<1>1. Lives[h] = "LIVE"
  BY DEF Bind, Inv, RowAgreesWithCandidate, Lives, Life, Condemned
<1>2. Lives' = Lives
  BY SameLife DEF Bind, gc
<1> QED  BY <1>1, <1>2 DEF Lifecycle!Bind, Bind, Lives, bytes

\* A file that goes to quarantine is one of a condemned hash.
LEMMA QuarantineWithdraws ==
  ASSUME Inv, NEW h \in Hash, Quarantine(h), cand[h] \in Condemned,
         UNCHANGED <<rows, gc, decayed>>
  PROVE  Lifecycle!Withdraw(h) \/ UNCHANGED Lifecycle!lifecycleVars
<1>1. Lives' = Lives
  BY SameLife DEF rows, gc
<1>2. CASE UNCHANGED bytes
  BY <1>1, <1>2, Stutter DEF bytes, rows
<1>3. CASE object' = [object EXCEPT ![h] = "NONE"]
  <2>1. Readable' = Readable \ {h}
    BY <1>3 DEF Inv, TypeOK, StoreTypeOK, Readable
  <2>2. Lives[h] \in {"CONDEMNED", "GONE"}
    BY DEF Lives, Life, Condemned
  <2> QED  BY <1>1, <2>1, <2>2 DEF Lifecycle!Withdraw, Lives, Readable, rows
<1> QED  BY <1>2, <1>3 DEF Quarantine

LEMMA CollectStutters ==
  ASSUME Inv, NEW s \in Scanner, Observe(s) \/ Clear(s) \/ FinishQuarantine(s)
  PROVE  UNCHANGED Lifecycle!lifecycleVars
<1>1. Lives' = Lives
  BY SameLife DEF Inv, TypeOK, StoreTypeOK, ScanHasGrounds, Observe, Clear,
     FinishQuarantine, Condemned, rows, gc
<1> QED  BY <1>1, Stutter DEF Observe, Clear, FinishQuarantine, rows, bytes

LEMMA BeginQuarantineCondemns ==
  ASSUME Inv, NEW s \in Scanner, BeginQuarantine(s)
  PROVE  \E h \in Hash : Lifecycle!Condemn(h)
<1> DEFINE h == scan[s].hash
<1>1. h \in Hash /\ h \notin bound /\ cand[h] = "OBSERVED"
  BY DEF Inv, ScanHasGrounds, BeginQuarantine, MayQuarantine, Held
<1>2. /\ \A x \in Hash \ {h} : row'[x] = row[x] /\ cand'[x] = cand[x]
      /\ cand'[h] = "QUARANTINE_PENDING"
      /\ UNCHANGED <<bound, object, decayed>>
  BY <1>1 DEF Inv, TypeOK, StoreTypeOK, BeginQuarantine, bytes
<1>3. Lives' = [Lives EXCEPT ![h] = "CONDEMNED"] /\ Lives[h] \in {"FREE", "LIVE"}
  BY <1>1, <1>2 DEF Lives, Life, Condemned
<1>4. Lifecycle!Condemn(h)
  BY <1>1, <1>2, <1>3 DEF Lifecycle!Condemn, Lives
<1> QED  BY <1>1, <1>4

LEMMA BeginDeleteStutters ==
  ASSUME Inv, NEW d \in Deleter, BeginDelete(d)
  PROVE  UNCHANGED Lifecycle!lifecycleVars
<1>1. Lives' = Lives
  BY SameLife DEF Inv, TypeOK, StoreTypeOK, DeleteHasGrounds, BeginDelete,
     Condemned, rows
<1> QED  BY <1>1, Stutter DEF BeginDelete, rows, bytes

LEMMA FinishDeleteForgets ==
  ASSUME Inv, NEW d \in Deleter, FinishDelete(d)
  PROVE  \E h \in Hash : Lifecycle!Forget(h)
<1> DEFINE h == del[d].hash
<1>1. h \in Hash /\ cand[h] = "DELETE_PENDING"
  BY DEF Inv, DeleteHasGrounds, FinishDelete
<1>2. /\ \A x \in Hash \ {h} : row'[x] = row[x] /\ cand'[x] = cand[x]
      /\ cand'[h] = "DELETED"
      /\ UNCHANGED <<bound, object, decayed>>
  BY <1>1 DEF Inv, TypeOK, StoreTypeOK, FinishDelete, bytes
<1>3. Lives' = [Lives EXCEPT ![h] = "GONE"] /\ Lives[h] = "CONDEMNED"
  BY <1>1, <1>2 DEF Lives, Life, Condemned
<1>4. Lifecycle!Forget(h)
  BY <1>2, <1>3 DEF Lifecycle!Forget, Lives
<1> QED  BY <1>1, <1>4

LEMMA DecayLoses ==
  ASSUME Inv, NEW h \in Hash, Decay(h) PROVE Lifecycle!Lose(h)
<1>1. Lives' = Lives
  BY SameLife DEF Decay, rows, gc
<1>2. Readable' = Readable \ {h}
  BY DEF Inv, TypeOK, StoreTypeOK, Decay, Readable
<1> QED  BY <1>1, <1>2 DEF Lifecycle!Lose, Decay, Lives, Readable, rows

LEMMA StepImplements ==
  Inv /\ [Next]_vars => [Lifecycle!LifecycleNext]_(Lifecycle!lifecycleVars)
<1> SUFFICES ASSUME Inv, [Next]_vars
             PROVE  Lifecycle!LifecycleNext \/ UNCHANGED Lifecycle!lifecycleVars
  OBVIOUS
<1> USE DEF Lifecycle!LifecycleNext
<1>1. CASE UNCHANGED vars
  BY <1>1, QuietStutters DEF vars, bytes, rows, gc
<1>2. ASSUME NEW p \in Publisher, PublisherNext(p)
      PROVE  Lifecycle!LifecycleNext \/ UNCHANGED Lifecycle!lifecycleVars
  <2>1. CASE VerifyPublished(p)
    BY <2>1, QuietStutters DEF VerifyPublished, bytes, rows, gc
  <2> QED  BY <1>2, <2>1, PublishBytesStores, RegisterRegisters DEF PublisherNext
<1>3. ASSUME NEW v \in Verifier, VerifierNext(v)
      PROVE  Lifecycle!LifecycleNext \/ UNCHANGED Lifecycle!lifecycleVars
  <2>1. CASE Look(v) \/ \E h \in Hash : Preflight(v, h)
    BY <2>1, QuietStutters DEF Look, Preflight, bytes, rows, gc
  <2> QED  BY <1>3, <2>1, RecordStutters DEF VerifierNext
<1>4. ASSUME NEW s \in Scanner, ScannerNext(s)
      PROVE  Lifecycle!LifecycleNext \/ UNCHANGED Lifecycle!lifecycleVars
  <2>1. CASE ListObjects(s) \/ ListQuarantine(s) \/ Finish(s) \/ Replay(s)
    BY <2>1, QuietStutters DEF ListObjects, ListQuarantine, Finish, Replay, bytes,
       rows, gc
  <2>4. ASSUME NEW h \in Hash, Inspect(s, h)
        PROVE  UNCHANGED Lifecycle!lifecycleVars
    BY <2>4, QuietStutters DEF Inspect, bytes, rows, gc
  <2>2. CASE Erase(s)
    BY <2>2, QuietStutters DEF Erase, Unlink, rows, gc
  <2>3. CASE Remove(s) \/ Move(s)
    <3>1. /\ scan[s].hash \in Hash /\ cand[scan[s].hash] \in Condemned
          /\ Quarantine(scan[s].hash) /\ UNCHANGED <<rows, gc, decayed>>
      BY <2>3 DEF Inv, ScanHasGrounds, Remove, Move, Condemned
    <3> QED  BY <3>1, QuarantineWithdraws
  <2> QED  BY <1>4, <2>1, <2>2, <2>3, <2>4, CollectStutters,
              BeginQuarantineCondemns DEF ScannerNext
<1>5. ASSUME NEW d \in Deleter, DeleterNext(d)
      PROVE  Lifecycle!LifecycleNext \/ UNCHANGED Lifecycle!lifecycleVars
  <2>1. CASE \E h \in Hash : StartDelete(d, h)
    BY <2>1, QuietStutters DEF StartDelete, bytes, rows, gc
  <2>2. CASE DeleteBytes(d)
    BY <2>2, QuietStutters DEF DeleteBytes, Unlink, rows, gc
  <2> QED  BY <1>5, <2>1, <2>2, BeginDeleteStutters, FinishDeleteForgets
           DEF DeleterNext
<1>6. ASSUME NEW h \in Hash, BindLoosely(h) \/ RetentionEnds(h) \/ GraceEnds(h)
      PROVE  UNCHANGED Lifecycle!lifecycleVars
  BY <1>6, QuietStutters DEF BindLoosely, RetentionEnds, GraceEnds, bytes, rows, gc
<1>7. CASE Abandon
  BY <1>7, QuietStutters DEF Abandon, bytes, rows, gc
<1> QED  BY <1>1, <1>2, <1>3, <1>4, <1>5, <1>6, <1>7, BindBinds, DecayLoses DEF Next

LEMMA InitImplements == Init => Lifecycle!Init
  BY DEF Init, Lifecycle!Init, Life, Condemned

\* ImplementsLifecycle: with files, candidates, scans and crashes, the store
\* condemns nothing bound, brings nothing back, and withdraws only what it
\* condemned.
THEOREM StoreImplementsLifecycle == Spec => ImplementsLifecycle
<1>1. Inv /\ [Next]_vars => [Lifecycle!LifecycleNext]_(Lifecycle!lifecycleVars)
  BY StepImplements
<1> QED  BY <1>1, InitImplements, StoreInvariant, PTL
         DEF Spec, ImplementsLifecycle, Lifecycle!Spec
=============================================================================
