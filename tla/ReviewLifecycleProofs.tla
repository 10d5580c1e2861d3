------------------------ MODULE ReviewLifecycleProofs ------------------------
(* Theorems about ReviewLifecycle for any number of albums, requests,      *)
(* restarts, cancellations, crashes and failures.                          *)
EXTENDS ReviewLifecycle, JobStoreProofs

-----------------------------------------------------------------------------
(* Types *)

Decisions == {"ACCEPT", "ACCEPT_PROVISIONAL", "REVIEW_REQUIRED"}
Accepts == {"ACCEPT", "ACCEPT_PROVISIONAL"}
Outcomes == {"PENDING", "FAILED", "MANUAL_IMPORTED", "RESCUED"}
States == {"created", "pending_review", "promoted", "discarded", "expired"}
AnyRecord == Record \cup {NoRecord}
AnyPath == Places \cup {"none"}

\* Where an importer stands: it holds what it read, and it is past the check.
Started == {"lookup", "post", "wait", "pending", "rescue", "copy", "rescan", "finish"}
Reading == {"unlocked", "switch", "act"} \cup Started
Positions == Reading \cup {"idle", "down", "reviewing", "claimed", "waiting", "restoring",
                           "archived", "unlinked", "removed"}

Discard == Reader({"remove", "blocklist", "archive", "mark"})
Refresh == Reader({"count", "pending"})
ProjType == [status : {"processing", "review_required", "completed", "failed", "lost"},
             hold : BOOLEAN, hidden : BOOLEAN]
LidarrType == [queue : BOOLEAN, queued : BOOLEAN, imported : BOOLEAN,
               placed : BOOLEAN, blocklisted : BOOLEAN, switched : SUBSET Albums]
ConfigType == [had : BOOLEAN, old : BOOLEAN, lost : BOOLEAN]
SpentType == [cancels : 0 .. MaxFaults, crashes : 0 .. MaxFaults,
              failures : 0 .. MaxFaults, restarts : 0 .. MaxRestarts,
              requests : 0 .. MaxRequests]

\* The type invariant with its sets named, in the parts that steps keep.
DiskTyped == /\ side \in [Places -> AnyRecord]
             /\ side["out"] # NoRecord => folder # "gone"
             /\ folder \in {"gone", "empty", "audio"}
ThreadsTyped == /\ importer \in [Importers -> Importer]
                /\ lock \in Importers \cup {"free"}
                /\ discard \in Discard
                /\ refresh \in Refresh
ServicesTyped == /\ proj \in ProjType
                 /\ lidarr \in LidarrType
                 /\ config \in ConfigType
Typed == /\ JobsTypeOK
         /\ spent \in SpentType
         /\ DiskTyped
         /\ ThreadsTyped
         /\ ServicesTyped

LEMMA TypeParts == TypeOK <=> Typed
  BY DEF TypeOK, Typed, DiskTyped, ThreadsTyped, ServicesTyped, AnyRecord, Discard, Refresh,
         ProjType, LidarrType, ConfigType, SpentType

LEMMA Values ==
    /\ \A r \in AnyRecord : r = NoRecord \/ r \in Record
    /\ NoRecord \in AnyRecord /\ NoRecord \notin Record
    /\ NoRecord.decision = "none" /\ NoRecord.outcome = "none" /\ NoRecord.state = "none"
    /\ ~NoRecord.blocklisted /\ ~NoRecord.promoted
    /\ \A r \in Record : /\ r \in AnyRecord /\ r # NoRecord
                         /\ r.decision \in Decisions /\ r.outcome \in Outcomes
                         /\ r.state \in States
                         /\ r.promoted \in BOOLEAN /\ r.blocklisted \in BOOLEAN
  <1>1. NoRecord.decision = "none" /\ NoRecord.outcome = "none" /\ NoRecord.state = "none"
        /\ ~NoRecord.blocklisted /\ ~NoRecord.promoted
    BY DEF NoRecord
  <1>2. \A r \in Record : /\ r.decision \in Decisions /\ r.outcome \in Outcomes
                          /\ r.state \in States
                          /\ r.promoted \in BOOLEAN /\ r.blocklisted \in BOOLEAN
    BY DEF Record, Decisions, Outcomes, States
  <1>3. "none" \notin Decisions
    BY DEF Decisions
  <1> QED BY <1>1, <1>2, <1>3 DEF AnyRecord

\* A record with another outcome, and the records of the later stages.
Outcome(r, o) == [r EXCEPT !.outcome = o]
Judged(r, b) == [r EXCEPT !.blocklisted = b]
Closed(r, s, b) == [r EXCEPT !.blocklisted = @ \/ b, !.state = s]

LEMMA RecordUpdates ==
    ASSUME NEW r \in Record
    PROVE  /\ \A o \in Outcomes :
                 /\ Outcome(r, o) \in Record /\ Outcome(r, o).outcome = o
                 /\ Outcome(r, o).decision = r.decision /\ Outcome(r, o).state = r.state
                 /\ Outcome(r, o).blocklisted = r.blocklisted
           /\ \A b \in BOOLEAN :
                 /\ Judged(r, b) \in Record /\ Judged(r, b).outcome = r.outcome
                 /\ Judged(r, b).decision = r.decision /\ Judged(r, b).state = r.state
                 /\ Judged(r, b).blocklisted = b
           /\ \A s \in States, b \in BOOLEAN :
                 /\ Closed(r, s, b) \in Record /\ Closed(r, s, b).outcome = r.outcome
                 /\ Closed(r, s, b).decision = r.decision /\ Closed(r, s, b).state = s
                 /\ Closed(r, s, b).blocklisted <=> r.blocklisted \/ b
           /\ Promoted(r) \in Record /\ Promoted(r).outcome = r.outcome
           /\ Promoted(r).decision = "ACCEPT_PROVISIONAL" /\ Promoted(r).state = "promoted"
           /\ Promoted(r).blocklisted = r.blocklisted
  <1> USE DEF Record
  <1>1. \A o \in Outcomes :
           /\ Outcome(r, o) \in Record /\ Outcome(r, o).outcome = o
           /\ Outcome(r, o).decision = r.decision /\ Outcome(r, o).state = r.state
           /\ Outcome(r, o).blocklisted = r.blocklisted
    BY DEF Outcome, Outcomes
  <1>2. \A b \in BOOLEAN :
           /\ Judged(r, b) \in Record /\ Judged(r, b).outcome = r.outcome
           /\ Judged(r, b).decision = r.decision /\ Judged(r, b).state = r.state
           /\ Judged(r, b).blocklisted = b
    BY DEF Judged
  <1>3. \A s \in States, b \in BOOLEAN :
           /\ Closed(r, s, b) \in Record /\ Closed(r, s, b).outcome = r.outcome
           /\ Closed(r, s, b).decision = r.decision /\ Closed(r, s, b).state = s
           /\ Closed(r, s, b).blocklisted <=> r.blocklisted \/ b
    <2> TAKE s \in States, b \in BOOLEAN
    <2> DEFINE c == r.blocklisted \/ b
    <2>1. c \in BOOLEAN
      OBVIOUS
    <2> HIDE DEF c
    <2>2. LET n == [r EXCEPT !.blocklisted = c, !.state = s]
          IN  /\ n \in Record /\ n.outcome = r.outcome /\ n.decision = r.decision
              /\ n.state = s /\ n.blocklisted = c
      BY <2>1 DEF States
    <2>3. Closed(r, s, b) = [r EXCEPT !.blocklisted = c, !.state = s]
      BY DEF Closed, c
    <2> QED BY <2>2, <2>3 DEF c
  <1>4. /\ Promoted(r) \in Record /\ Promoted(r).outcome = r.outcome
        /\ Promoted(r).decision = "ACCEPT_PROVISIONAL" /\ Promoted(r).state = "promoted"
        /\ Promoted(r).blocklisted = r.blocklisted
    BY DEF Promoted
  <1> QED BY <1>1, <1>2, <1>3, <1>4

\* An importer p that turns into one with these locals, and the usual ways.
Turns(p, c, r, w, o, A) ==
    /\ importer' \in [Importers -> Importer]
    /\ \A q \in Importers : q # p => importer'[q] = importer[q]
    /\ importer'[p].pc = c /\ importer'[p].rec = r /\ importer'[p].path = w
    /\ importer'[p].outcome = o /\ importer'[p].applied = A
Moves(p, c) ==
    Turns(p, c, importer[p].rec, importer[p].path, importer[p].outcome, importer[p].applied)
Resets(p, c) == Turns(p, c, NoRecord, "none", "none", {})

LEMMA ImporterFields ==
    ASSUME ThreadsTyped, NEW p \in Importers
    PROVE  /\ importer[p] \in Importer
           /\ importer[p].pc \in Positions /\ importer[p].job \in JobIds
           /\ importer[p].kind \in Keys /\ importer[p].rec \in AnyRecord
           /\ importer[p].path \in AnyPath /\ importer[p].outcome \in Outcomes \cup {"none"}
           /\ importer[p].todo \subseteq Albums /\ importer[p].applied \subseteq Albums
           /\ importer[p].sent \in BOOLEAN
  <1>1. importer[p] \in Importer
    BY DEF ThreadsTyped
  <1> QED BY <1>1 DEF Importer, Positions, Reading, Started, AnyRecord, AnyPath, Outcomes

LEMMA AnyJobType == AnyJob \in JobIds
  BY ReviewLifecycleAssumption DEF AnyJob

LEMMA FreshImporter ==
    ASSUME NEW c \in Positions
    PROVE  /\ ImporterAt(c) \in Importer
           /\ ImporterAt(c).pc = c /\ ImporterAt(c).rec = NoRecord
           /\ ImporterAt(c).path = "none" /\ ImporterAt(c).outcome = "none"
           /\ ImporterAt(c).applied = {}
  BY AnyJobType, ReviewLifecycleAssumption
  DEF ImporterAt, Importer, Positions, Reading, Started, Places

\* The importer p is replaced as a whole.
LEMMA Replaced ==
    ASSUME ThreadsTyped, NEW p \in Importers, NEW m \in Importer,
           importer' = [importer EXCEPT ![p] = m]
    PROVE  Turns(p, m.pc, m.rec, m.path, m.outcome, m.applied)
  BY DEF ThreadsTyped, Turns

\* The ways in which an importer's locals change.
LEMMA ImporterMoves ==
    ASSUME ThreadsTyped, NEW p \in Importers, NEW c \in Positions
    PROVE  /\ Goto(p, c) => Moves(p, c)
           /\ importer' = [importer EXCEPT ![p] = ImporterAt(c)] => Resets(p, c)
           /\ \A r \in AnyRecord, w \in AnyPath :
                 importer' = [importer EXCEPT ![p].pc = c, ![p].rec = r, ![p].path = w] =>
                    Turns(p, c, r, w, importer[p].outcome, importer[p].applied)
           /\ \A r \in AnyRecord :
                 importer' = [importer EXCEPT ![p].pc = c, ![p].rec = r] =>
                    Turns(p, c, r, importer[p].path, importer[p].outcome, importer[p].applied)
           /\ \A r \in AnyRecord :
                 importer' = [importer EXCEPT ![p].rec = r] =>
                    Turns(p, importer[p].pc, r, importer[p].path, importer[p].outcome,
                          importer[p].applied)
           /\ \A w \in AnyPath :
                 importer' = [importer EXCEPT ![p].pc = c, ![p].path = w] =>
                    Turns(p, c, importer[p].rec, w, importer[p].outcome, importer[p].applied)
           /\ \A w \in AnyPath, o \in Outcomes :
                 importer' = [importer EXCEPT ![p].pc = c, ![p].path = w, ![p].outcome = o] =>
                    Turns(p, c, importer[p].rec, w, o, importer[p].applied)
           /\ \A o \in Outcomes :
                 importer' = [importer EXCEPT ![p].pc = c, ![p].outcome = o] =>
                    Turns(p, c, importer[p].rec, importer[p].path, o, importer[p].applied)
           /\ \A b \in BOOLEAN :
                 importer' = [importer EXCEPT ![p].pc = c, ![p].sent = b] => Moves(p, c)
  <1> DEFINE m == importer[p]
  <1>0. importer \in [Importers -> Importer] /\ m \in Importer
    BY DEF ThreadsTyped
  <1>1. ASSUME NEW n \in Importer, importer' = [importer EXCEPT ![p] = n]
        PROVE  Turns(p, n.pc, n.rec, n.path, n.outcome, n.applied)
    BY <1>1, Replaced
  <1>2. \A k \in Positions : k \in {"idle", "down", "reviewing", "claimed", "waiting", "unlocked",
                   "switch", "act", "lookup", "post", "wait", "pending", "rescue",
                   "copy", "rescan", "finish", "restoring", "archived", "unlinked", "removed"}
    BY DEF Positions, Reading, Started
  <1>3. Goto(p, c) => Moves(p, c)
    <2> DEFINE n == [m EXCEPT !.pc = c]
    <2>1. /\ n \in Importer /\ n.pc = c /\ n.rec = m.rec /\ n.path = m.path
          /\ n.outcome = m.outcome /\ n.applied = m.applied
      BY <1>0, <1>2 DEF Importer
    <2>2. Goto(p, c) => importer' = [importer EXCEPT ![p] = n]
      BY <1>0 DEF Goto
    <2> HIDE DEF n
    <2> QED BY <1>1, <2>1, <2>2 DEF Moves
  <1>4. importer' = [importer EXCEPT ![p] = ImporterAt(c)] => Resets(p, c)
    <2> DEFINE n == ImporterAt(c)
    <2>1. /\ n \in Importer /\ n.pc = c /\ n.rec = NoRecord /\ n.path = "none"
          /\ n.outcome = "none" /\ n.applied = {}
      BY FreshImporter
    <2> HIDE DEF n
    <2>2. importer' = [importer EXCEPT ![p] = n] => Resets(p, c)
      BY <1>1, <2>1 DEF Resets
    <2> QED BY <2>2 DEF n
  <1>5. ASSUME NEW r \in AnyRecord, NEW w \in AnyPath
        PROVE  importer' = [importer EXCEPT ![p].pc = c, ![p].rec = r, ![p].path = w] =>
                  Turns(p, c, r, w, importer[p].outcome, importer[p].applied)
    <2> DEFINE n == [m EXCEPT !.pc = c, !.rec = r, !.path = w]
    <2>1. /\ n \in Importer /\ n.pc = c /\ n.rec = r /\ n.path = w
          /\ n.outcome = m.outcome /\ n.applied = m.applied
      BY <1>0, <1>2 DEF Importer, AnyRecord, AnyPath
    <2>2. [importer EXCEPT ![p].pc = c, ![p].rec = r, ![p].path = w]
            = [importer EXCEPT ![p] = n]
      BY <1>0
    <2> HIDE DEF n
    <2> QED BY <1>1, <2>1, <2>2
  <1>6. ASSUME NEW r \in AnyRecord
        PROVE  importer' = [importer EXCEPT ![p].pc = c, ![p].rec = r] =>
                  Turns(p, c, r, importer[p].path, importer[p].outcome, importer[p].applied)
    <2> DEFINE n == [m EXCEPT !.pc = c, !.rec = r]
    <2>1. /\ n \in Importer /\ n.pc = c /\ n.rec = r /\ n.path = m.path
          /\ n.outcome = m.outcome /\ n.applied = m.applied
      BY <1>0, <1>2 DEF Importer, AnyRecord
    <2>2. [importer EXCEPT ![p].pc = c, ![p].rec = r] = [importer EXCEPT ![p] = n]
      BY <1>0
    <2> HIDE DEF n
    <2> QED BY <1>1, <2>1, <2>2
  <1>7. ASSUME NEW r \in AnyRecord
        PROVE  importer' = [importer EXCEPT ![p].rec = r] =>
                  Turns(p, importer[p].pc, r, importer[p].path, importer[p].outcome,
                        importer[p].applied)
    <2> DEFINE n == [m EXCEPT !.rec = r]
    <2>1. /\ n \in Importer /\ n.pc = m.pc /\ n.rec = r /\ n.path = m.path
          /\ n.outcome = m.outcome /\ n.applied = m.applied
      BY <1>0 DEF Importer, AnyRecord
    <2>2. [importer EXCEPT ![p].rec = r] = [importer EXCEPT ![p] = n]
      BY <1>0
    <2> HIDE DEF n
    <2> QED BY <1>1, <2>1, <2>2
  <1>8. ASSUME NEW w \in AnyPath
        PROVE  importer' = [importer EXCEPT ![p].pc = c, ![p].path = w] =>
                  Turns(p, c, importer[p].rec, w, importer[p].outcome, importer[p].applied)
    <2> DEFINE n == [m EXCEPT !.pc = c, !.path = w]
    <2>1. /\ n \in Importer /\ n.pc = c /\ n.rec = m.rec /\ n.path = w
          /\ n.outcome = m.outcome /\ n.applied = m.applied
      BY <1>0, <1>2 DEF Importer, AnyPath
    <2>2. [importer EXCEPT ![p].pc = c, ![p].path = w] = [importer EXCEPT ![p] = n]
      BY <1>0
    <2> HIDE DEF n
    <2> QED BY <1>1, <2>1, <2>2
  <1>9. ASSUME NEW w \in AnyPath, NEW o \in Outcomes
        PROVE  importer' = [importer EXCEPT ![p].pc = c, ![p].path = w, ![p].outcome = o] =>
                  Turns(p, c, importer[p].rec, w, o, importer[p].applied)
    <2> DEFINE n == [m EXCEPT !.pc = c, !.path = w, !.outcome = o]
    <2>1. /\ n \in Importer /\ n.pc = c /\ n.rec = m.rec /\ n.path = w
          /\ n.outcome = o /\ n.applied = m.applied
      BY <1>0, <1>2 DEF Importer, AnyPath, Outcomes
    <2>2. [importer EXCEPT ![p].pc = c, ![p].path = w, ![p].outcome = o]
            = [importer EXCEPT ![p] = n]
      BY <1>0
    <2> HIDE DEF n
    <2> QED BY <1>1, <2>1, <2>2
  <1>10. ASSUME NEW o \in Outcomes
         PROVE  importer' = [importer EXCEPT ![p].pc = c, ![p].outcome = o] =>
                   Turns(p, c, importer[p].rec, importer[p].path, o, importer[p].applied)
    <2> DEFINE n == [m EXCEPT !.pc = c, !.outcome = o]
    <2>1. /\ n \in Importer /\ n.pc = c /\ n.rec = m.rec /\ n.path = m.path
          /\ n.outcome = o /\ n.applied = m.applied
      BY <1>0, <1>2 DEF Importer, Outcomes
    <2>2. [importer EXCEPT ![p].pc = c, ![p].outcome = o] = [importer EXCEPT ![p] = n]
      BY <1>0
    <2> HIDE DEF n
    <2> QED BY <1>1, <2>1, <2>2
  <1>11. ASSUME NEW b \in BOOLEAN
         PROVE  importer' = [importer EXCEPT ![p].pc = c, ![p].sent = b] => Moves(p, c)
    <2> DEFINE n == [m EXCEPT !.pc = c, !.sent = b]
    <2>1. /\ n \in Importer /\ n.pc = c /\ n.rec = m.rec /\ n.path = m.path
          /\ n.outcome = m.outcome /\ n.applied = m.applied
      BY <1>0, <1>2 DEF Importer
    <2>2. [importer EXCEPT ![p].pc = c, ![p].sent = b] = [importer EXCEPT ![p] = n]
      BY <1>0
    <2> HIDE DEF n
    <2> QED BY <1>1, <2>1, <2>2 DEF Moves
  <1> QED BY <1>3, <1>4, <1>5, <1>6, <1>7, <1>8, <1>9, <1>10, <1>11

\* An importer that has just read the record, and one that claims a job.
LEMMA ImporterReads ==
    ASSUME ThreadsTyped, NEW r \in AnyRecord, NEW w \in AnyPath
    PROVE  /\ \A k \in Keys :
                 importer' = [importer EXCEPT !["http"] =
                     [ImporterAt("unlocked") EXCEPT !.kind = k, !.rec = r, !.path = w]] =>
                 Turns("http", "unlocked", r, w, "none", {})
           /\ \A A \in SUBSET Albums :
                 importer' = [importer EXCEPT !["http"] =
                     [ImporterAt("switch") EXCEPT !.rec = r, !.path = w, !.todo = A]] =>
                 Turns("http", "switch", r, w, "none", {})
           /\ \A j \in JobIds, k \in Keys :
                 importer' = [importer EXCEPT !["worker"] =
                     [ImporterAt("claimed") EXCEPT !.job = j, !.kind = k]] =>
                 Resets("worker", "claimed")
  <1>0. "http" \in Importers /\ "worker" \in Importers
    BY DEF Importers
  <1>1. "unlocked" \in Positions /\ "switch" \in Positions /\ "claimed" \in Positions
    BY DEF Positions, Reading
  <1>2. ASSUME NEW k \in Keys
        PROVE  importer' = [importer EXCEPT !["http"] =
                   [ImporterAt("unlocked") EXCEPT !.kind = k, !.rec = r, !.path = w]] =>
               Turns("http", "unlocked", r, w, "none", {})
    <2> DEFINE b == ImporterAt("unlocked")
               n == [b EXCEPT !.kind = k, !.rec = r, !.path = w]
    <2>0. /\ b \in Importer /\ b.pc = "unlocked" /\ b.rec = NoRecord /\ b.path = "none"
          /\ b.outcome = "none" /\ b.applied = {}
      BY <1>1, FreshImporter
    <2> HIDE DEF b
    <2>1. /\ n \in Importer /\ n.pc = "unlocked" /\ n.rec = r /\ n.path = w
          /\ n.outcome = "none" /\ n.applied = {}
      BY <2>0 DEF Importer, AnyRecord, AnyPath
    <2> HIDE DEF n
    <2>2. importer' = [importer EXCEPT !["http"] = n] => Turns("http", "unlocked", r, w, "none", {})
      BY <1>0, <2>1, Replaced
    <2> QED BY <2>2 DEF n, b
  <1>3. ASSUME NEW A \in SUBSET Albums
        PROVE  importer' = [importer EXCEPT !["http"] =
                   [ImporterAt("switch") EXCEPT !.rec = r, !.path = w, !.todo = A]] =>
               Turns("http", "switch", r, w, "none", {})
    <2> DEFINE b == ImporterAt("switch")
               n == [b EXCEPT !.rec = r, !.path = w, !.todo = A]
    <2>0. /\ b \in Importer /\ b.pc = "switch" /\ b.rec = NoRecord /\ b.path = "none"
          /\ b.outcome = "none" /\ b.applied = {}
      BY <1>1, FreshImporter
    <2> HIDE DEF b
    <2>1. /\ n \in Importer /\ n.pc = "switch" /\ n.rec = r /\ n.path = w
          /\ n.outcome = "none" /\ n.applied = {}
      BY <2>0 DEF Importer, AnyRecord, AnyPath
    <2> HIDE DEF n
    <2>2. importer' = [importer EXCEPT !["http"] = n] => Turns("http", "switch", r, w, "none", {})
      BY <1>0, <2>1, Replaced
    <2> QED BY <2>2 DEF n, b
  <1>4. ASSUME NEW j \in JobIds, NEW k \in Keys
        PROVE  importer' = [importer EXCEPT !["worker"] =
                   [ImporterAt("claimed") EXCEPT !.job = j, !.kind = k]] =>
               Resets("worker", "claimed")
    <2> DEFINE b == ImporterAt("claimed")
               n == [b EXCEPT !.job = j, !.kind = k]
    <2>0. /\ b \in Importer /\ b.pc = "claimed" /\ b.rec = NoRecord /\ b.path = "none"
          /\ b.outcome = "none" /\ b.applied = {}
      BY <1>1, FreshImporter
    <2> HIDE DEF b
    <2>1. /\ n \in Importer /\ n.pc = "claimed" /\ n.rec = NoRecord /\ n.path = "none"
          /\ n.outcome = "none" /\ n.applied = {}
      BY <2>0 DEF Importer, AnyRecord, AnyPath
    <2> HIDE DEF n
    <2>2. importer' = [importer EXCEPT !["worker"] = n] => Resets("worker", "claimed")
      BY <1>0, <2>1, Replaced DEF Resets
    <2> QED BY <2>2 DEF n, b
  <1> QED BY <1>2, <1>3, <1>4

\* The same importer with other release switches.
Keeps(A) == Turns("http", importer["http"].pc, importer["http"].rec, importer["http"].path,
                  importer["http"].outcome, A)

LEMMA ImporterSwitches ==
    ASSUME ThreadsTyped, NEW a \in Albums
    PROVE  /\ importer' = [importer EXCEPT !["http"].todo = @ \ {a},
                                           !["http"].applied = @ \cup {a}] =>
                 Keeps(importer["http"].applied \cup {a})
           /\ importer' = [importer EXCEPT !["http"].todo = @ \ {a}] =>
                 Keeps(importer["http"].applied)
           /\ importer' = [importer EXCEPT !["http"].applied = @ \ {a}] =>
                 Keeps(importer["http"].applied \ {a})
  <1> DEFINE m == importer["http"]
             T == m.todo \ {a}
             U == m.applied \cup {a}
             D == m.applied \ {a}
  <1>0. /\ importer \in [Importers -> Importer] /\ m \in Importer /\ "http" \in Importers
        /\ T \in SUBSET Albums /\ U \in SUBSET Albums /\ D \in SUBSET Albums
    BY ImporterFields DEF ThreadsTyped, Importers
  <1>1. importer' = [importer EXCEPT !["http"].todo = T, !["http"].applied = U] => Keeps(U)
    <2> HIDE DEF T, U
    <2> DEFINE n == [m EXCEPT !.todo = T, !.applied = U]
    <2>1. /\ n \in Importer /\ n.pc = m.pc /\ n.rec = m.rec /\ n.path = m.path
          /\ n.outcome = m.outcome /\ n.applied = U
      BY <1>0 DEF Importer
    <2>2. [importer EXCEPT !["http"].todo = T, !["http"].applied = U]
            = [importer EXCEPT !["http"] = n]
      BY <1>0
    <2> HIDE DEF n
    <2> QED BY <1>0, <2>1, <2>2, Replaced DEF Keeps
  <1>2. importer' = [importer EXCEPT !["http"].todo = T] => Keeps(m.applied)
    <2> HIDE DEF T
    <2> DEFINE n == [m EXCEPT !.todo = T]
    <2>1. /\ n \in Importer /\ n.pc = m.pc /\ n.rec = m.rec /\ n.path = m.path
          /\ n.outcome = m.outcome /\ n.applied = m.applied
      BY <1>0 DEF Importer
    <2>2. [importer EXCEPT !["http"].todo = T] = [importer EXCEPT !["http"] = n]
      BY <1>0
    <2> HIDE DEF n
    <2> QED BY <1>0, <2>1, <2>2, Replaced DEF Keeps
  <1>3. importer' = [importer EXCEPT !["http"].applied = D] => Keeps(D)
    <2> HIDE DEF D
    <2> DEFINE n == [m EXCEPT !.applied = D]
    <2>1. /\ n \in Importer /\ n.pc = m.pc /\ n.rec = m.rec /\ n.path = m.path
          /\ n.outcome = m.outcome /\ n.applied = D
      BY <1>0 DEF Importer
    <2>2. [importer EXCEPT !["http"].applied = D] = [importer EXCEPT !["http"] = n]
      BY <1>0
    <2> HIDE DEF n
    <2> QED BY <1>0, <2>1, <2>2, Replaced DEF Keeps
  <1>4. /\ [importer EXCEPT !["http"].todo = @ \ {a}, !["http"].applied = @ \cup {a}]
             = [importer EXCEPT !["http"].todo = T, !["http"].applied = U]
        /\ [importer EXCEPT !["http"].todo = @ \ {a}] = [importer EXCEPT !["http"].todo = T]
        /\ [importer EXCEPT !["http"].applied = @ \ {a}]
             = [importer EXCEPT !["http"].applied = D]
    BY <1>0 DEF Importer
  <1> QED BY <1>1, <1>2, <1>3, <1>4

\* What Lidarr looks like after a step.
Lidarr(queue, queued, imported, placed, blocklisted) ==
    /\ lidarr' \in LidarrType
    /\ lidarr'.queue <=> queue
    /\ lidarr'.queued <=> queued
    /\ lidarr'.imported <=> imported
    /\ lidarr'.placed <=> placed
    /\ lidarr'.blocklisted <=> blocklisted

LEMMA LidarrUpdates ==
    ASSUME lidarr \in LidarrType
    PROVE  LET l == lidarr IN
           /\ UNCHANGED lidarr =>
                 Lidarr(l.queue, l.queued, l.imported, l.placed, l.blocklisted)
                 /\ lidarr'.switched = l.switched
           /\ lidarr' = [lidarr EXCEPT !.queue = FALSE] =>
                 Lidarr(FALSE, l.queued, l.imported, l.placed, l.blocklisted)
                 /\ lidarr'.switched = l.switched
           /\ lidarr' = [lidarr EXCEPT !.placed = TRUE] =>
                 Lidarr(l.queue, l.queued, l.imported, TRUE, l.blocklisted)
                 /\ lidarr'.switched = l.switched
           /\ \A b \in BOOLEAN : lidarr' = [lidarr EXCEPT !.blocklisted = b] =>
                 Lidarr(l.queue, l.queued, l.imported, l.placed, b)
                 /\ lidarr'.switched = l.switched
           /\ \A b \in BOOLEAN : lidarr' = [lidarr EXCEPT !.queued = @ \/ b] =>
                 Lidarr(l.queue, l.queued \/ b, l.imported, l.placed, l.blocklisted)
                 /\ lidarr'.switched = l.switched
           /\ lidarr' = [lidarr EXCEPT !.queued = FALSE] =>
                 Lidarr(l.queue, FALSE, l.imported, l.placed, l.blocklisted)
                 /\ lidarr'.switched = l.switched
           /\ \A b \in BOOLEAN :
                 lidarr' = [lidarr EXCEPT !.queued = FALSE, !.imported = TRUE,
                                          !.queue = @ /\ b] =>
                 Lidarr(l.queue /\ b, FALSE, TRUE, l.placed, l.blocklisted)
                 /\ lidarr'.switched = l.switched
           /\ \A b, d \in BOOLEAN :
                 lidarr' = [lidarr EXCEPT !.blocklisted = b, !.queue = @ /\ ~d] =>
                 Lidarr(l.queue /\ ~d, l.queued, l.imported, l.placed, b)
                 /\ lidarr'.switched = l.switched
           /\ \A A \in SUBSET Albums :
                 lidarr' = [lidarr EXCEPT !.switched = A] =>
                 Lidarr(l.queue, l.queued, l.imported, l.placed, l.blocklisted)
                 /\ lidarr'.switched = A
  <1> USE DEF LidarrType, Lidarr
  <1> DEFINE l == lidarr
  <1>1. UNCHANGED lidarr =>
           Lidarr(l.queue, l.queued, l.imported, l.placed, l.blocklisted)
           /\ lidarr'.switched = l.switched
    OBVIOUS
  <1>2. lidarr' = [lidarr EXCEPT !.queue = FALSE] =>
           Lidarr(FALSE, l.queued, l.imported, l.placed, l.blocklisted)
           /\ lidarr'.switched = l.switched
    OBVIOUS
  <1>3. lidarr' = [lidarr EXCEPT !.placed = TRUE] =>
           Lidarr(l.queue, l.queued, l.imported, TRUE, l.blocklisted)
           /\ lidarr'.switched = l.switched
    OBVIOUS
  <1>4. \A b \in BOOLEAN : lidarr' = [lidarr EXCEPT !.blocklisted = b] =>
           Lidarr(l.queue, l.queued, l.imported, l.placed, b)
           /\ lidarr'.switched = l.switched
    OBVIOUS
  <1>5. \A b \in BOOLEAN : lidarr' = [lidarr EXCEPT !.queued = @ \/ b] =>
           Lidarr(l.queue, l.queued \/ b, l.imported, l.placed, l.blocklisted)
           /\ lidarr'.switched = l.switched
    OBVIOUS
  <1>6. lidarr' = [lidarr EXCEPT !.queued = FALSE] =>
           Lidarr(l.queue, FALSE, l.imported, l.placed, l.blocklisted)
           /\ lidarr'.switched = l.switched
    OBVIOUS
  <1>7. \A b \in BOOLEAN :
           lidarr' = [lidarr EXCEPT !.queued = FALSE, !.imported = TRUE, !.queue = @ /\ b] =>
           Lidarr(l.queue /\ b, FALSE, TRUE, l.placed, l.blocklisted)
           /\ lidarr'.switched = l.switched
    OBVIOUS
  <1>8. \A b, d \in BOOLEAN :
           lidarr' = [lidarr EXCEPT !.blocklisted = b, !.queue = @ /\ ~d] =>
           Lidarr(l.queue /\ ~d, l.queued, l.imported, l.placed, b)
           /\ lidarr'.switched = l.switched
    OBVIOUS
  <1>9. \A A \in SUBSET Albums :
           lidarr' = [lidarr EXCEPT !.switched = A] =>
           Lidarr(l.queue, l.queued, l.imported, l.placed, l.blocklisted)
           /\ lidarr'.switched = A
    OBVIOUS
  <1> HIDE DEF LidarrType, Lidarr
  <1> QED BY <1>1, <1>2, <1>3, <1>4, <1>5, <1>6, <1>7, <1>8, <1>9

-----------------------------------------------------------------------------
(* The job table and the bounds, which every step treats alike *)

\* What is used up stays used up.
Spends == /\ spent' \in SpentType
          /\ spent'.crashes = 0 => spent.crashes = 0
          /\ spent'.failures = 0 => spent.failures = 0
          /\ spent'.cancels = 0 => spent.cancels = 0

LEMMA SpentUpdates ==
    ASSUME spent \in SpentType
    PROVE  /\ Works => Spends
           /\ Request => Spends
           /\ Failure => Spends /\ spent'.failures # 0 /\ spent'.crashes = spent.crashes
           /\ Fault("crashes") => Spends /\ spent'.crashes # 0
           /\ Fault("cancels") => Spends /\ spent'.cancels # 0
           /\ spent.restarts < MaxRestarts /\ spent' = [spent EXCEPT !.restarts = @ + 1] => Spends
  <1> USE ReviewLifecycleAssumption DEF SpentType, Spends
  <1>1. Works => Spends
    BY DEF Works
  <1>2. Request => Spends
    <2> HAVE Request
    <2> DEFINE n == spent.requests + 1
    <2>1. n \in 0 .. MaxRequests /\ spent' = [spent EXCEPT !.requests = n]
      BY DEF Request
    <2> HIDE DEF n
    <2> QED BY <2>1
  <1>3. Failure => Spends /\ spent'.failures # 0 /\ spent'.crashes = spent.crashes
    <2> HAVE Failure
    <2> DEFINE n == spent.failures + 1
    <2>0. spent.cancels + spent.crashes + spent.failures < MaxFaults
      BY DEF Failure, Fault
    <2>1. n \in 0 .. MaxFaults /\ n # 0
      BY <2>0
    <2>2. spent' = [spent EXCEPT !.failures = n]
      BY Zenon DEF Failure, Fault
    <2> HIDE DEF n
    <2> QED BY <2>1, <2>2
  <1>4. Fault("crashes") => Spends /\ spent'.crashes # 0
    <2> HAVE Fault("crashes")
    <2> DEFINE n == spent.crashes + 1
    <2>0. spent.cancels + spent.crashes + spent.failures < MaxFaults
      BY DEF Fault
    <2>1. n \in 0 .. MaxFaults /\ n # 0
      BY <2>0
    <2>2. spent' = [spent EXCEPT !.crashes = n]
      BY Zenon DEF Fault
    <2> HIDE DEF n
    <2> QED BY <2>1, <2>2
  <1>5. Fault("cancels") => Spends /\ spent'.cancels # 0
    <2> HAVE Fault("cancels")
    <2> DEFINE n == spent.cancels + 1
    <2>0. spent.cancels + spent.crashes + spent.failures < MaxFaults
      BY DEF Fault
    <2>1. n \in 0 .. MaxFaults /\ n # 0
      BY <2>0
    <2>2. spent' = [spent EXCEPT !.cancels = n]
      BY Zenon DEF Fault
    <2> HIDE DEF n
    <2> QED BY <2>1, <2>2
  <1>6. spent.restarts < MaxRestarts /\ spent' = [spent EXCEPT !.restarts = @ + 1] => Spends
    <2> HAVE spent.restarts < MaxRestarts /\ spent' = [spent EXCEPT !.restarts = @ + 1]
    <2> DEFINE n == spent.restarts + 1
    <2>1. n \in 0 .. MaxRestarts /\ spent' = [spent EXCEPT !.restarts = n]
      OBVIOUS
    <2> HIDE DEF n
    <2> QED BY <2>1
  <1> QED BY <1>1, <1>2, <1>3, <1>4, <1>5, <1>6

\* A step on the table that cancels no job.
Uncancelled == JobsTypeOK' /\ \A i \in JobIds : jobs'[i].cancel => jobs[i].cancel

LEMMA TableUpdates ==
    ASSUME JobsTypeOK, NEW j \in JobIds
    PROVE  /\ UNCHANGED jobs => Uncancelled
           /\ \A k \in Keys : enqueue_job(k, j) => Uncancelled
           /\ dequeue_next_job(j, Types) => Uncancelled
           /\ \A s \in TerminalJobStates : MarkJob(j, s) => Uncancelled
           /\ schedule_job_retry(j) => Uncancelled
           /\ BecomesDue(j) => Uncancelled
           /\ recover_stale_running_jobs(Running) => Uncancelled
           /\ request_job_cancel(j) => JobsTypeOK'
  <1>0. jobs \in [JobIds -> JobRow] /\ \A i \in JobIds : jobs[i] \in JobRow /\ MaxOf(i) \in Nat
    BY LimitType DEF JobsTypeOK
  <1>1. ASSUME NEW r \in JobRow, jobs' = [jobs EXCEPT ![j] = r], r.cancel => jobs[j].cancel
        PROVE  Uncancelled
    BY <1>0, <1>1 DEF Uncancelled, JobsTypeOK
  <1>2. UNCHANGED jobs => Uncancelled
    BY <1>0 DEF Uncancelled, JobsTypeOK
  <1>3. ASSUME NEW k \in Keys, enqueue_job(k, j)
        PROVE  Uncancelled
    <2>1. InsertedRow(k) \in JobRow /\ ~InsertedRow(k).cancel
      BY NewRowTypes DEF InsertedRow
    <2> QED BY <1>1, <1>2, <1>3, <2>1 DEF enqueue_job
  <1>4. ASSUME dequeue_next_job(j, Types)
        PROVE  Uncancelled
    <2>0. \A r \in JobRow : ClaimedRow(r).cancel = r.cancel
      BY DEF ClaimedRow, JobRow
    <2>1. ClaimedRow(jobs[j]) \in JobRow /\ ClaimedRow(jobs[j]).cancel = jobs[j].cancel
      BY <1>0, <2>0, RowTypes
    <2> QED BY <1>1, <1>4, <2>1 DEF dequeue_next_job
  <1>5. ASSUME NEW s \in TerminalJobStates, MarkJob(j, s)
        PROVE  Uncancelled
    <2>0. \A r \in JobRow : MarkedRow(r, s).cancel = r.cancel
      BY DEF MarkedRow, JobRow
    <2>1. MarkedRow(jobs[j], s) \in JobRow /\ MarkedRow(jobs[j], s).cancel = jobs[j].cancel
      BY <1>0, <2>0, RowTypes
    <2> QED BY <1>1, <1>5, <2>1 DEF MarkJob
  <1>6. ASSUME schedule_job_retry(j)
        PROVE  Uncancelled
    <2>0. \A r \in JobRow : ~RetryRow(r).cancel
      BY DEF RetryRow, JobRow
    <2>1. RetryRow(jobs[j]) \in JobRow /\ ~RetryRow(jobs[j]).cancel
      BY <1>0, <2>0, RowTypes
    <2> QED BY <1>1, <1>6, <2>1 DEF schedule_job_retry
  <1>7. ASSUME BecomesDue(j)
        PROVE  Uncancelled
    <2> DEFINE r == [jobs[j] EXCEPT !.due = TRUE]
    <2>1. r \in JobRow /\ r.cancel = jobs[j].cancel
      BY <1>0 DEF JobRow
    <2>2. jobs' = [jobs EXCEPT ![j] = r]
      BY <1>7 DEF BecomesDue
    <2> HIDE DEF r
    <2> QED BY <1>1, <2>1, <2>2
  <1>8. ASSUME recover_stale_running_jobs(Running)
        PROVE  Uncancelled
    <2>1. \A r \in JobRow, m \in Nat : RecoveredRow(r, m).cancel = r.cancel
      BY DEF RecoveredRow, MarkedRow, JobRow
    <2>2. \A i \in JobIds : jobs'[i].cancel = jobs[i].cancel
      BY <1>0, <1>8, <2>1 DEF recover_stale_running_jobs
    <2> QED BY <1>8, <2>2, RecoverTypes DEF Uncancelled
  <1>9. request_job_cancel(j) => JobsTypeOK'
    BY UpdateTypes
  <1> QED BY <1>2, <1>3, <1>4, <1>5, <1>6, <1>7, <1>8, <1>9

\* What an import that raises or is cancelled does to its job.
LEMMA JobEnds ==
    ASSUME JobsTypeOK, ThreadsTyped, NEW p \in Importers
    PROVE  /\ \A t \in BOOLEAN : Raises(p, t) => Uncancelled
           /\ Cancelled(p) => Uncancelled
           /\ mark_job_completed(importer[p].job) => Uncancelled
           /\ mark_job_cancelled(importer[p].job) => Uncancelled
  <1>1. importer[p].job \in JobIds
    BY ImporterFields
  <1>2. /\ mark_job_failed(importer[p].job) => Uncancelled
        /\ mark_job_completed(importer[p].job) => Uncancelled
        /\ mark_job_cancelled(importer[p].job) => Uncancelled
        /\ schedule_job_retry(importer[p].job) => Uncancelled
        /\ UNCHANGED jobs => Uncancelled
    BY <1>1, TableUpdates
    DEF mark_job_failed, mark_job_completed, mark_job_cancelled, TerminalJobStates
  <1> QED BY <1>2 DEF Raises, Cancelled

-----------------------------------------------------------------------------
(* The records and the threads that read them *)

\* The record r is stored at w; the folder has its files if it had them.
Stores(w, r) ==
    /\ DiskTyped'
    /\ side'[w] = r
    /\ \A v \in Places : v # w => side'[v] = side[v]
    /\ folder' = "audio" <=> folder = "audio"

LEMMA WriteStores ==
    ASSUME DiskTyped, NEW w \in Places, NEW r \in Record, Write(w, r)
    PROVE  Stores(w, r)
  BY Values DEF DiskTyped, Write, Stores

\* _find_verification_sidecar returns a record if there is one.
LEMMA FindFinds ==
    ASSUME DiskTyped
    PROVE  /\ Find \in AnyPath
           /\ Current \in AnyRecord
           /\ Find # "none" => /\ Find \in Places /\ side[Find] # NoRecord
                               /\ Current = side[Find] /\ Current \in Record
           /\ Find = "none" => /\ Current = NoRecord
                               /\ \A w \in Places : side[w] = NoRecord
           /\ side["out"] # NoRecord => Find = "out"
           /\ side["out"] = NoRecord /\ side["discarded"] # NoRecord => Find = "discarded"
           /\ Find = "expired" => side["out"] = NoRecord /\ side["discarded"] = NoRecord
           /\ Find = "discarded" => side["out"] = NoRecord
           /\ Current \in Record => Find # "none"
  <1>1. Find \in AnyPath
    BY DEF Find, AnyPath, Places
  <1>2. Find # "none" => Find \in Places /\ side[Find] # NoRecord
    BY DEF Find, Places
  <1>3. \A w \in Places : side[w] \in AnyRecord
    BY DEF DiskTyped
  <1>4. Find = "none" => Current = NoRecord /\ \A w \in Places : side[w] = NoRecord
    BY DEF Find, Current, Places
  <1>5. Find # "none" => Current = side[Find]
    BY DEF Current
  <1>6. /\ side["out"] # NoRecord => Find = "out"
        /\ side["out"] = NoRecord /\ side["discarded"] # NoRecord => Find = "discarded"
        /\ Find = "expired" => side["out"] = NoRecord /\ side["discarded"] = NoRecord
        /\ Find = "discarded" => side["out"] = NoRecord
    BY DEF Find
  <1> QED BY <1>1, <1>2, <1>3, <1>4, <1>5, <1>6, Values

\* The discarding and the reconciling request after a step.
TurnsDiscard(c, r, w) ==
    discard' \in Discard /\ discard'.pc = c /\ discard'.rec = r /\ discard'.path = w
TurnsRefresh(c, r, w) ==
    refresh' \in Refresh /\ refresh'.pc = c /\ refresh'.rec = r /\ refresh'.path = w

LEMMA ReaderFields ==
    ASSUME ThreadsTyped
    PROVE  /\ discard.pc \in {"idle", "remove", "blocklist", "archive", "mark"}
           /\ discard.rec \in AnyRecord /\ discard.path \in AnyPath
           /\ refresh.pc \in {"idle", "count", "pending"}
           /\ refresh.rec \in AnyRecord /\ refresh.path \in AnyPath
           /\ NoReader \in Discard /\ NoReader \in Refresh
           /\ NoReader.pc = "idle" /\ NoReader.rec = NoRecord /\ NoReader.path = "none"
  BY DEF ThreadsTyped, Discard, Refresh, Reader, AnyRecord, AnyPath, NoReader

LEMMA ReaderUpdates ==
    ASSUME ThreadsTyped
    PROVE  /\ \A c \in {"remove", "blocklist", "archive", "mark"} :
                 discard' = [discard EXCEPT !.pc = c] => TurnsDiscard(c, discard.rec, discard.path)
           /\ \A r \in AnyRecord, w \in AnyPath :
                 /\ discard' = [pc |-> "remove", rec |-> r, path |-> w] =>
                       TurnsDiscard("remove", r, w)
                 /\ refresh' = [pc |-> "count", rec |-> r, path |-> w] =>
                       TurnsRefresh("count", r, w)
           /\ \A b \in BOOLEAN : discard.rec \in Record =>
                 (discard' = [discard EXCEPT !.pc = "archive", !.rec.blocklisted = @ \/ b,
                                             !.rec.state = "discarded"] =>
                     TurnsDiscard("archive", Closed(discard.rec, "discarded", b), discard.path))
           /\ discard' = NoReader => TurnsDiscard("idle", NoRecord, "none")
           /\ refresh' = [refresh EXCEPT !.pc = "pending"] =>
                 TurnsRefresh("pending", refresh.rec, refresh.path)
           /\ refresh' = NoReader => TurnsRefresh("idle", NoRecord, "none")
           /\ UNCHANGED discard => TurnsDiscard(discard.pc, discard.rec, discard.path)
           /\ UNCHANGED refresh => TurnsRefresh(refresh.pc, refresh.rec, refresh.path)
  <1> USE DEF TurnsDiscard, TurnsRefresh
  <1>0. discard \in Discard /\ refresh \in Refresh
    BY DEF ThreadsTyped
  <1>1. \A c \in {"remove", "blocklist", "archive", "mark"} :
           discard' = [discard EXCEPT !.pc = c] => TurnsDiscard(c, discard.rec, discard.path)
    BY <1>0 DEF Discard, Reader
  <1>2. \A r \in AnyRecord, w \in AnyPath :
           /\ discard' = [pc |-> "remove", rec |-> r, path |-> w] => TurnsDiscard("remove", r, w)
           /\ refresh' = [pc |-> "count", rec |-> r, path |-> w] => TurnsRefresh("count", r, w)
    BY DEF Discard, Refresh, Reader, AnyRecord, AnyPath
  <1>3. ASSUME NEW b \in BOOLEAN, discard.rec \in Record,
               discard' = [discard EXCEPT !.pc = "archive", !.rec.blocklisted = @ \/ b,
                                          !.rec.state = "discarded"]
        PROVE  TurnsDiscard("archive", Closed(discard.rec, "discarded", b), discard.path)
    <2> DEFINE r == Closed(discard.rec, "discarded", b)
    <2>1. r \in Record
      BY <1>3, RecordUpdates DEF States
    <2>2. discard' = [discard EXCEPT !.pc = "archive", !.rec = r]
      BY <1>0, <1>3 DEF Closed, Discard, Reader
    <2> HIDE DEF r
    <2>3. TurnsDiscard("archive", r, discard.path)
      BY <1>0, <2>1, <2>2 DEF Discard, Reader
    <2> QED BY <2>3 DEF r
  <1>4. refresh' = [refresh EXCEPT !.pc = "pending"] =>
           TurnsRefresh("pending", refresh.rec, refresh.path)
    BY <1>0 DEF Refresh, Reader
  <1>5. /\ discard' = NoReader => TurnsDiscard("idle", NoRecord, "none")
        /\ refresh' = NoReader => TurnsRefresh("idle", NoRecord, "none")
    BY ReaderFields
  <1>6. /\ UNCHANGED discard => TurnsDiscard(discard.pc, discard.rec, discard.path)
        /\ UNCHANGED refresh => TurnsRefresh(refresh.pc, refresh.rec, refresh.path)
    BY <1>0
  <1> HIDE DEF TurnsDiscard, TurnsRefresh
  <1> QED BY <1>1, <1>2, <1>3, <1>4, <1>5, <1>6

LEMMA ProjUpdates ==
    ASSUME proj \in ProjType
    PROVE  /\ _mark_import_failed => proj' \in ProjType
           /\ _mark_import_completed => proj' \in ProjType
           /\ _mark_review_required => proj' \in ProjType /\ proj'.hold /\ ~proj'.hidden
           /\ proj' = [proj EXCEPT !.status = "failed", !.hidden = TRUE] =>
                 proj' \in ProjType /\ proj'.hold = proj.hold
           /\ proj' = [proj EXCEPT !.status = "processing", !.hidden = FALSE] => proj' \in ProjType
           /\ proj' = LostProjection => proj' \in ProjType
           /\ proj' = [proj EXCEPT !.status = "failed"] =>
                 proj' \in ProjType /\ proj'.hold = proj.hold /\ proj'.hidden = proj.hidden
           /\ proj' = (IF proj.status = "lost" THEN proj
                        ELSE [proj EXCEPT !.status = "failed", !.hold = FALSE]) => proj' \in ProjType
           /\ \A b \in BOOLEAN : _hide_from_lidarr(b) => proj' \in ProjType
  <1> USE DEF ProjType
  <1>1. _mark_import_failed => proj' \in ProjType
    BY DEF _mark_import_failed
  <1>8. _mark_import_completed => proj' \in ProjType
    BY DEF _mark_import_completed
  <1>9. _mark_review_required => proj' \in ProjType /\ proj'.hold /\ ~proj'.hidden
    BY DEF _mark_review_required
  <1>2. proj' = [proj EXCEPT !.status = "failed", !.hidden = TRUE] =>
           proj' \in ProjType /\ proj'.hold = proj.hold
    OBVIOUS
  <1>3. proj' = [proj EXCEPT !.status = "processing", !.hidden = FALSE] => proj' \in ProjType
    OBVIOUS
  <1>4. proj' = LostProjection => proj' \in ProjType
    BY DEF LostProjection
  <1>5. proj' = [proj EXCEPT !.status = "failed"] =>
           proj' \in ProjType /\ proj'.hold = proj.hold /\ proj'.hidden = proj.hidden
    OBVIOUS
  <1>6. proj' = (IF proj.status = "lost" THEN proj
                 ELSE [proj EXCEPT !.status = "failed", !.hold = FALSE]) => proj' \in ProjType
    OBVIOUS
  <1>7. \A b \in BOOLEAN : _hide_from_lidarr(b) => proj' \in ProjType
    BY DEF _hide_from_lidarr
  <1> HIDE DEF ProjType
  <1> QED BY <1>1, <1>2, <1>3, <1>4, <1>5, <1>6, <1>7, <1>8, <1>9

-----------------------------------------------------------------------------
(* The threads: what each holds where it stands *)

Holding(c, r, w, o) ==
    /\ c \in Reading => r \in Record
    /\ c \in Reading \ {"finish"} => w \in Places
    /\ c = "finish" => o # "none"
    /\ c \in Started =>
          \/ r.decision \in Accepts
          \/ c = "finish" /\ w = "none" /\ Imported(r)
Reads ==
    /\ \A p \in Importers : Holding(importer[p].pc, importer[p].rec, importer[p].path,
                                    importer[p].outcome)
    /\ discard.pc # "idle" => discard.rec \in Record /\ discard.path \in Places
    /\ refresh.pc # "idle" => refresh.rec \in Record

\* While the review is created nobody imports, and before it is written there
\* is nothing to read; while the process is down there are no requests.
Threads ==
    /\ Creating =>
          /\ lock \in {"free", "worker"}
          /\ importer["http"].pc \in {"idle", "unlocked"}
          /\ importer["worker"].path = "none"
          /\ lock = "free" => /\ \A w \in Places : side[w] = NoRecord
                              /\ At("http", "idle")
                              /\ discard.pc = "idle" /\ refresh.pc = "idle"
          /\ lock = "worker" => /\ importer["worker"].rec \in Record
                                /\ importer["worker"].rec.decision = "REVIEW_REQUIRED"
    /\ ~Up => /\ importer["http"] = ImporterAt("idle")
              /\ discard = NoReader /\ refresh = NoReader
    /\ importer["worker"].pc \notin {"unlocked", "switch", "restoring"}
    /\ importer["http"].pc \notin {"reviewing", "down", "claimed", "waiting", "archived",
                                   "unlinked", "removed"}
    /\ At("worker", "down") => importer["worker"].path = "none"

-----------------------------------------------------------------------------
(* What kinds of steps there are.  A kind says what its actions leave of    *)
(* the state the invariants speak of.                                      *)

\* Requests and jobs on their way to an import.
Waits ==
    /\ UNCHANGED <<discard, refresh, side, folder, proj, lidarr, config>>
    /\ \/ UNCHANGED <<importer, lock>>
       \/ /\ At("http", "unlocked") /\ lock = "free"
          /\ lock' = "http" /\ Moves("http", "act")
       \/ At("http", "unlocked") /\ UNCHANGED lock /\ lock # "free" /\ Resets("http", "idle")
       \/ At("worker", "idle") /\ UNCHANGED lock /\ Resets("worker", "claimed")
       \/ At("worker", "claimed") /\ UNCHANGED lock /\ Moves("worker", "waiting")
       \/ /\ importer["worker"].pc \in {"claimed", "waiting"}
          /\ UNCHANGED lock /\ Resets("worker", "idle")

\* An importer reads the record.
TakesUp(p) ==
    /\ UNCHANGED <<discard, refresh, side, folder, proj, lidarr, config>>
    /\ Find # "none" /\ Up
    /\ \/ /\ p = "http" /\ At(p, "idle") /\ UNCHANGED lock
          /\ Turns(p, "unlocked", Current, Find, "none", {})
       \/ /\ p = "http" /\ At(p, "idle") /\ lock = "free" /\ lock' = "http"
          /\ Turns(p, "switch", Current, Find, "none", {})
       \/ /\ p = "worker" /\ At(p, "waiting") /\ lock = "free" /\ lock' = "worker"
          /\ Turns(p, "act", Current, Find, importer[p].outcome, importer[p].applied)

LidarrElse == /\ lidarr' \in LidarrType
              /\ lidarr'.queue = lidarr.queue /\ lidarr'.queued = lidarr.queued
              /\ lidarr'.imported = lidarr.imported /\ lidarr'.placed = lidarr.placed
              /\ lidarr'.blocklisted = lidarr.blocklisted

\* The operator's release switches are made and undone.
Switched ==
    /\ UNCHANGED <<lock, discard, refresh, side, folder, proj, config>>
    /\ At("http", "switch") /\ LidarrElse
    /\ \E A \in SUBSET Albums, c \in {"switch", "act", "restoring"} :
          /\ Turns("http", c, importer["http"].rec, importer["http"].path,
                   importer["http"].outcome, A)
          /\ Unharmed' => /\ lidarr'.switched \subseteq lidarr.switched \cup A
                          /\ importer["http"].applied \subseteq A
Restored ==
    /\ UNCHANGED <<discard, refresh, side, folder, proj, config>>
    /\ At("http", "restoring") /\ LidarrElse
    /\ \/ \E A \in SUBSET Albums :
             /\ UNCHANGED lock /\ Keeps(A)
             /\ Unharmed' /\ lidarr.switched \subseteq importer["http"].applied =>
                   lidarr'.switched \subseteq A
       \/ /\ importer["http"].applied = {} /\ Resets("http", "idle")
          /\ lock' = "free" /\ UNCHANGED lidarr

\* A stage of an import up to its outcome: the importer aborts, goes on or ends.
Aborts(p) == \/ p = "worker" /\ Resets(p, "idle") /\ lock' = "free"
             \/ p = "http" /\ Moves(p, "restoring") /\ UNCHANGED lock
Reports(p, o) ==
    Turns(p, "finish", importer[p].rec, importer[p].path, o, importer[p].applied)
Advances(p) ==
    \/ Aborts(p)
    \/ /\ UNCHANGED lock /\ importer[p].rec.decision \in Accepts
       /\ \E c \in Started \ {"finish"} : Moves(p, c) /\ (c = "rescan" => lidarr'.placed)
    \/ /\ UNCHANGED lock /\ importer[p].rec.decision \in Accepts
       /\ \E o \in Outcomes :
             /\ Reports(p, o)
             /\ o = "MANUAL_IMPORTED" => lidarr.imported \/ config.had
             /\ o = "RESCUED" => importer[p].pc = "rescan"
    \/ /\ UNCHANGED lock /\ Imported(importer[p].rec)
       /\ Turns(p, "finish", importer[p].rec, "none", importer[p].rec.outcome,
                importer[p].applied)
Proceeds(p) ==
    /\ UNCHANGED <<discard, refresh, side, folder, config>>
    /\ importer[p].pc \in {"act"} \cup (Started \ {"finish"})
    /\ Advances(p)
    /\ lidarr' \in LidarrType /\ proj' \in ProjType
    /\ lidarr'.queue => lidarr.queue
    /\ lidarr'.queued => lidarr.queued \/ importer[p].pc = "post"
    /\ lidarr'.imported = lidarr.imported /\ lidarr'.blocklisted = lidarr.blocklisted
    /\ lidarr'.switched = lidarr.switched
    /\ lidarr.placed => lidarr'.placed
    /\ lidarr'.placed => lidarr.placed \/ (importer[p].pc = "copy" /\ folder = "audio")
    /\ \/ UNCHANGED <<lidarr, proj>>
       \/ importer[p].rec.decision \in Accepts
       \/ /\ p = "worker" /\ is_job_cancel_requested(importer[p].job)
          /\ UNCHANGED lidarr /\ proj'.hold = proj.hold

\* A promotion writes its record before it imports.
Promotes(p) ==
    /\ UNCHANGED <<lock, discard, refresh, proj, lidarr, config>>
    /\ At(p, "act") /\ _is_promotable(importer[p].rec)
    /\ Stores(importer[p].path, Promoted(importer[p].rec))
    /\ Turns(p, "lookup", Promoted(importer[p].rec), importer[p].path, importer[p].outcome,
             importer[p].applied)

\* The outcome is written; then the importer is done or undoes its switches.
Finishes(p) ==
    /\ UNCHANGED <<discard, refresh, proj, lidarr, config>>
    /\ At(p, "finish")
    /\ \/ importer[p].path = "none" /\ UNCHANGED <<side, folder>>
       \/ /\ importer[p].path \in Places
          /\ Stores(importer[p].path, Outcome(importer[p].rec, importer[p].outcome))
    /\ \/ p = "http" /\ Moves(p, "restoring") /\ UNCHANGED lock
       \/ /\ Resets(p, "idle") /\ lock' = "free"
          /\ \/ p = "worker" \/ importer[p].applied = {}
             \/ importer[p].outcome \in {"MANUAL_IMPORTED", "RESCUED"}

ReviewRecord == NewRecord("REVIEW_REQUIRED", "PENDING", "pending_review")

\* A review is created, and held.
Opens ==
    /\ UNCHANGED <<discard, refresh, proj, lidarr, config>>
    /\ Creating /\ lock = "free" /\ lock' = "worker"
    /\ Stores("out", ReviewRecord)
    /\ Turns("worker", "reviewing", ReviewRecord, importer["worker"].path,
             importer["worker"].outcome, importer["worker"].applied)
Holds ==
    /\ UNCHANGED <<discard, refresh, config>>
    /\ Creating /\ lock = "worker" /\ lock' = "free"
    /\ \/ UNCHANGED <<side, folder, lidarr>>
       \/ \E b \in BOOLEAN :
             /\ Stores("out", Judged(importer["worker"].rec, b))
             /\ Lidarr(lidarr.queue, lidarr.queued, lidarr.imported, lidarr.placed,
                       lidarr.blocklisted \/ b)
             /\ lidarr'.switched = lidarr.switched
    /\ proj' \in ProjType /\ proj'.hold /\ ~proj'.hidden
    /\ Resets("worker", "idle")

\* The steps of a discard.
Discards ==
    /\ UNCHANGED <<importer, lock, refresh, side, folder, proj, lidarr, config>>
    /\ Up /\ discard.pc = "idle" /\ Find # "none"
    /\ TurnsDiscard("remove", Current, Find)
FolderGoes ==
    /\ folder' = "gone"
    /\ DiskTyped' /\ side'["out"] = NoRecord
    /\ \A w \in Places : w # "out" => side'[w] = side[w]
Removes ==
    /\ UNCHANGED <<importer, lock, refresh, proj, lidarr, config>>
    /\ discard.pc = "remove" /\ FolderGoes
    /\ TurnsDiscard("blocklist", discard.rec, discard.path)
Blocklists ==
    /\ UNCHANGED <<importer, lock, refresh, side, folder, config>>
    /\ discard.pc = "blocklist" /\ proj' \in ProjType
    /\ \E b, d \in BOOLEAN :
          /\ Lidarr(lidarr.queue /\ ~d, lidarr.queued, lidarr.imported, lidarr.placed,
                    lidarr.blocklisted \/ (b /\ ~discard.rec.blocklisted))
          /\ lidarr'.switched = lidarr.switched
          /\ Unharmed' => d
          /\ TurnsDiscard("archive", Closed(discard.rec, "discarded", b), discard.path)
Archives ==
    /\ UNCHANGED <<importer, lock, refresh, folder, proj, lidarr, config>>
    /\ discard.pc = "archive" /\ DiskTyped'
    /\ side'["discarded"] = discard.rec
    /\ \A w \in Places \ {"discarded"} : side'[w] = IF w = discard.path THEN NoRecord ELSE side[w]
    /\ TurnsDiscard("mark", discard.rec, discard.path)
Marks ==
    /\ UNCHANGED <<importer, lock, refresh, side, folder, lidarr, config>>
    /\ discard.pc = "mark" /\ proj' \in ProjType
    /\ TurnsDiscard("idle", NoRecord, "none")

\* The steps of a reconciliation; w is where it writes its outcome.
Reconciles ==
    /\ UNCHANGED <<importer, lock, discard, side, folder, proj, lidarr, config>>
    /\ Up /\ refresh.pc = "idle" /\ Find # "none"
    /\ \E w \in {Find, "none"} : TurnsRefresh("count", Current, w)
Back(o) ==
    \/ UNCHANGED <<side, folder>>
    \/ \E w \in Places : /\ w = refresh.path \/ (refresh.path = "none" /\ w = Find)
                         /\ Stores(w, Outcome(refresh.rec, o))
Counts ==
    /\ UNCHANGED <<importer, lock, discard, lidarr, config>>
    /\ refresh.pc = "count" /\ proj' \in ProjType
    /\ \/ /\ folder # "audio" /\ (lidarr.imported \/ config.had)
          /\ Back("MANUAL_IMPORTED") /\ TurnsRefresh("idle", NoRecord, "none")
       \/ /\ UNCHANGED <<side, folder, proj>>
          /\ TurnsRefresh("pending", refresh.rec, refresh.path)
Checks ==
    /\ UNCHANGED <<importer, lock, discard, config>>
    /\ refresh.pc = "pending" /\ TurnsRefresh("idle", NoRecord, "none")
    /\ \/ UNCHANGED <<side, folder, proj, lidarr>>
       \/ /\ refresh.rec.decision \in Accepts /\ Back("FAILED")
          /\ proj' \in ProjType
          /\ \E q \in BOOLEAN :
                /\ q => lidarr.queue
                /\ Lidarr(q, lidarr.queued, lidarr.imported, lidarr.placed, lidarr.blocklisted)
                /\ lidarr'.switched = lidarr.switched

\* Lidarr runs the command it has queued.
Runs ==
    /\ UNCHANGED <<importer, lock, discard, refresh, side, proj, config>>
    /\ lidarr.queued /\ ~lidarr'.queued /\ lidarr' \in LidarrType
    /\ lidarr'.queue => lidarr.queue
    /\ lidarr'.placed = lidarr.placed /\ lidarr'.blocklisted = lidarr.blocklisted
    /\ lidarr'.switched = lidarr.switched
    /\ \/ folder = "audio" /\ folder' = "empty" /\ lidarr'.imported
       \/ UNCHANGED folder /\ lidarr'.imported = lidarr.imported

\* The process stops or dies, and starts again.
Falls ==
    /\ UNCHANGED <<side, folder, lidarr>>
    /\ proj' \in ProjType /\ config' \in ConfigType
    /\ config'.had = config.had /\ config'.old = config.old
    /\ config.lost => config'.lost
    /\ config'.lost \/ UNCHANGED proj
    /\ ~Creating /\ (Quiet \/ spent'.crashes # 0)
    /\ importer' \in [Importers -> Importer]
    /\ importer'["worker"] = ImporterAt("down") /\ importer'["http"] = ImporterAt("idle")
    /\ lock' = "free" /\ discard' = NoReader /\ refresh' = NoReader
Ages ==
    /\ UNCHANGED <<importer, lock, discard, refresh, side, folder, proj, lidarr>>
    /\ At("worker", "down")
    /\ config' \in ConfigType /\ config'.old /\ config'.had = config.had
    /\ config'.lost = config.lost
Boots ==
    /\ UNCHANGED <<lock, discard, refresh, side, folder, lidarr, config>>
    /\ At("worker", "down") /\ ~Overdue /\ Moves("worker", "idle")
    /\ proj' \in ProjType /\ proj'.hold = proj.hold /\ proj'.hidden = proj.hidden

\* The steps of an expiry.
Expires ==
    /\ UNCHANGED <<lock, discard, refresh, proj, config>>
    /\ At("worker", "down") /\ Overdue /\ Find # "none"
    /\ \E b \in BOOLEAN :
          /\ Lidarr(lidarr.queue, lidarr.queued, lidarr.imported, lidarr.placed,
                    lidarr.blocklisted \/ (b /\ ~Current.blocklisted))
          /\ lidarr'.switched = lidarr.switched
          /\ Stores("expired", Closed(Current, "expired", b))
    /\ Turns("worker", "archived", importer["worker"].rec, Find, importer["worker"].outcome,
             importer["worker"].applied)
Unlinks ==
    /\ UNCHANGED <<lock, discard, refresh, folder, config>>
    /\ At("worker", "archived") /\ DiskTyped'
    /\ importer["worker"].path \in Places => side'[importer["worker"].path] = NoRecord
    /\ \A w \in Places : w # importer["worker"].path => side'[w] = side[w]
    /\ proj' \in ProjType
    /\ \E q \in BOOLEAN :
          /\ q => lidarr.queue
          /\ Unharmed' => ~q
          /\ Lidarr(q, lidarr.queued, lidarr.imported, lidarr.placed, lidarr.blocklisted)
          /\ lidarr'.switched = lidarr.switched
    /\ Moves("worker", "unlinked")
Clears ==
    /\ UNCHANGED <<lock, discard, refresh, proj, lidarr, config>>
    /\ At("worker", "unlinked") /\ FolderGoes /\ Moves("worker", "removed")
Lapses ==
    /\ UNCHANGED <<lock, discard, refresh, side, folder, lidarr, config>>
    /\ At("worker", "removed") /\ proj' \in ProjType /\ Resets("worker", "down")

Kinds ==
    \/ Waits \/ Switched \/ Restored \/ Opens \/ Holds
    \/ \E p \in Importers : TakesUp(p) \/ Proceeds(p) \/ Promotes(p) \/ Finishes(p)
    \/ Discards \/ Removes \/ Blocklists \/ Archives \/ Marks
    \/ Reconciles \/ Counts \/ Checks \/ Runs
    \/ Falls \/ Ages \/ Boots \/ Expires \/ Unlinks \/ Clears \/ Lapses

-----------------------------------------------------------------------------
(* Every action is of one of these kinds *)

LEMMA Names ==
    /\ "http" \in Importers /\ "worker" \in Importers
    /\ \A p \in Importers : p = "http" \/ p = "worker"
    /\ "out" \in Places /\ "discarded" \in Places /\ "expired" \in Places
    /\ \A w \in Places : w = "out" \/ w = "discarded" \/ w = "expired"
    /\ \A w \in AnyPath : w \in Places \/ w = "none"
    /\ "none" \notin Places /\ "none" \in AnyPath
    /\ \A c \in Started : c \in Positions
    /\ {"idle", "down", "reviewing", "claimed", "waiting", "restoring", "archived", "unlinked",
        "removed", "unlocked", "switch", "act", "lookup", "finish"} \subseteq Positions
    /\ \A o \in Outcomes \cup {"none"} : o \in Outcomes \/ o = "none"
  BY DEF Importers, Places, AnyPath, Positions, Reading, Started, Outcomes

LEMMA WaitKinds ==
    ASSUME Typed
    PROVE  /\ \A k \in Keys : Enqueue(k) => Waits
           /\ TryLock => Waits
           /\ Claim => Waits
           /\ Start => Waits
           /\ RequestCancel \/ RetryFallsDue \/ UNCHANGED vars => Waits
  <1> USE Names DEF Typed
  <1>1. \A k \in Keys : Enqueue(k) => Waits
    BY DEF Enqueue, Waits
  <1>2. ASSUME TryLock
        PROVE  Waits
    <2>1. CASE lock = "free"
      BY <1>2, <2>1, ImporterMoves DEF TryLock, Waits
    <2>2. CASE lock # "free"
      BY <1>2, <2>2, ImporterMoves DEF TryLock, Waits
    <2> QED BY <2>1, <2>2
  <1>3. ASSUME Claim
        PROVE  Waits
    <2>1. PICK j \in JobIds : importer' = [importer EXCEPT !["worker"] =
                 [ImporterAt("claimed") EXCEPT !.job = j, !.kind = jobs[j].key]]
      BY <1>3 DEF Claim
    <2>2. jobs[j].key \in Keys
      BY LimitType
    <2>3. Resets("worker", "claimed")
      BY <2>1, <2>2, ImporterReads, Values
    <2> QED BY <1>3, <2>3 DEF Claim, Waits
  <1>4. ASSUME Start
        PROVE  Waits
    <2>1. CASE is_job_cancel_requested(importer["worker"].job)
      BY <1>4, <2>1, ImporterMoves DEF Start, Waits, At
    <2>2. CASE ~is_job_cancel_requested(importer["worker"].job)
      BY <1>4, <2>2, ImporterMoves DEF Start, Waits
    <2> QED BY <2>1, <2>2
  <1>5. RequestCancel \/ RetryFallsDue \/ UNCHANGED vars => Waits
    BY DEF RequestCancel, RetryFallsDue, vars, Waits
  <1> QED BY <1>1, <1>2, <1>3, <1>4, <1>5

LEMMA Promotable ==
    ASSUME NEW r \in AnyRecord
    PROVE  /\ _is_promotable(r) => r \in Record
           /\ _is_retryable_verified_import(r) => r \in Record /\ r.decision \in Accepts
           /\ Discardable(r) => r \in Record
           /\ r.outcome = "PENDING" => r \in Record
  <1>1. _is_promotable(r) => r \in Record
    BY Values DEF _is_promotable
  <1>2. _is_retryable_verified_import(r) => r \in Record /\ r.decision \in Accepts
    BY Values DEF _is_retryable_verified_import, Accepts
  <1>3. Discardable(r) => r \in Record
    BY Values DEF Discardable
  <1>4. r.outcome = "PENDING" => r \in Record
    BY Values
  <1> QED BY <1>1, <1>2, <1>3, <1>4

LEMMA TakeUpKinds ==
    ASSUME Typed
    PROVE  /\ \A k \in Keys : Fallback(k) => TakesUp("http")
           /\ verification_release_switch => TakesUp("http")
           /\ Acquire => TakesUp("worker") \/ Waits
  <1> USE Names DEF Typed
  <1>0. Find \in AnyPath /\ Current \in AnyRecord /\ (Current \in Record => Find # "none")
    BY FindFinds
  <1>1. ASSUME NEW k \in Keys, Fallback(k)
        PROVE  TakesUp("http")
    <2>1. Current \in Record
      BY <1>0, <1>1, Promotable DEF Fallback, Accepted
    <2>2. Turns("http", "unlocked", Current, Find, "none", {})
      BY <1>0, <1>1, ImporterReads DEF Fallback
    <2> QED BY <1>0, <1>1, <2>1, <2>2 DEF Fallback, TakesUp
  <1>2. ASSUME verification_release_switch
        PROVE  TakesUp("http")
    <2>1. Current \in Record
      BY <1>0, <1>2, Promotable
      DEF verification_release_switch, _release_switch_manual_review_allowed
    <2>2. PICK A \in SUBSET Albums :
             importer' = [importer EXCEPT !["http"] = [ImporterAt("switch") EXCEPT
                              !.rec = Current, !.path = Find, !.todo = A]]
      BY <1>2 DEF verification_release_switch, _release_switch_album_ids_for_record,
                  _release_switch_candidate_for_album
    <2>3. Turns("http", "switch", Current, Find, "none", {})
      BY <1>0, <2>2, ImporterReads
    <2> QED BY <1>0, <1>2, <2>1, <2>3 DEF verification_release_switch, TakesUp
  <1>3. ASSUME Acquire
        PROVE  TakesUp("worker") \/ Waits
    <2>1. CASE Find = "none"
      <3>1. Raises("worker", FALSE) /\ lock = "free" /\ At("worker", "waiting")
        BY <1>3, <2>1 DEF Acquire
      <3>2. Resets("worker", "idle") /\ UNCHANGED lock
        BY <3>1, ImporterMoves DEF Raises
      <3> QED BY <1>3, <3>1, <3>2 DEF Acquire, Waits, At
    <2>2. CASE Find # "none"
      <3>1. Turns("worker", "act", Current, Find, importer["worker"].outcome,
                  importer["worker"].applied)
        BY <1>0, <1>3, <2>2, ImporterMoves DEF Acquire
      <3> QED BY <1>3, <2>2, <3>1 DEF Acquire, TakesUp, At, Up
    <2> QED BY <2>1, <2>2
  <1> QED BY <1>1, <1>2, <1>3

LEMMA FailureHarms ==
    ASSUME spent \in SpentType, Failure
    PROVE  ~Unharmed'
  BY SpentUpdates DEF Unharmed

LEMMA SwitchKinds ==
    ASSUME Typed
    PROVE  Switch => Switched
  <1> USE Names DEF Typed
  <1> SUFFICES ASSUME Switch
               PROVE  Switched
    OBVIOUS
  <1> DEFINE m == importer["http"]
  <1>0. /\ m.todo \subseteq Albums /\ m.applied \in SUBSET Albums
        /\ lidarr \in LidarrType /\ lidarr.switched \in SUBSET Albums
    BY ImporterFields DEF ServicesTyped, LidarrType
  <1>1. /\ At("http", "switch") /\ UNCHANGED <<lock, discard, refresh, side, folder, proj, config>>
        /\ m.pc = "switch"
    BY DEF Switch, At
  <1>2. ASSUME NEW a \in m.todo, lidarr' = [lidarr EXCEPT !.switched = @ \cup {a}],
               importer' = [importer EXCEPT !["http"].todo = @ \ {a},
                                            !["http"].applied = @ \cup {a}]
        PROVE  Switched
    <2> DEFINE A == m.applied \cup {a}
               S == lidarr.switched \cup {a}
    <2>1. a \in Albums /\ A \in SUBSET Albums /\ S \in SUBSET Albums
      BY <1>0
    <2>2. Keeps(A)
      BY <1>2, <2>1, ImporterSwitches
    <2>3. LidarrElse /\ lidarr'.switched = S
      BY <1>0, <1>2, <2>1, LidarrUpdates DEF Lidarr, LidarrElse, LidarrType
    <2>4. lidarr'.switched \subseteq lidarr.switched \cup A /\ m.applied \subseteq A
      BY <2>3
    <2> QED BY <1>1, <2>1, <2>2, <2>3, <2>4 DEF Switched, Keeps
  <1>3. ASSUME NEW a \in m.todo, UNCHANGED lidarr,
               importer' = [importer EXCEPT !["http"].todo = @ \ {a}]
        PROVE  Switched
    <2>1. Keeps(m.applied)
      BY <1>0, <1>3, ImporterSwitches
    <2>2. LidarrElse /\ lidarr'.switched = lidarr.switched
      BY <1>0, <1>3 DEF LidarrElse
    <2> QED BY <1>0, <1>1, <2>1, <2>2 DEF Switched, Keeps
  <1>4. ASSUME NEW a \in m.todo, Failure, Goto("http", "restoring"),
               \E took \in SUBSET {a} : lidarr' = [lidarr EXCEPT !.switched = @ \cup took]
        PROVE  Switched
    <2>1. PICK took \in SUBSET {a} : lidarr' = [lidarr EXCEPT !.switched = @ \cup took]
      BY <1>4
    <2> DEFINE S == lidarr.switched \cup took
    <2>2. S \in SUBSET Albums
      BY <1>0
    <2>3. LidarrElse
      BY <1>0, <2>1, <2>2, LidarrUpdates DEF Lidarr, LidarrElse, LidarrType
    <2>4. Moves("http", "restoring")
      BY <1>4, ImporterMoves
    <2>5. ~Unharmed'
      BY <1>4, FailureHarms
    <2> QED BY <1>0, <1>1, <2>3, <2>4, <2>5 DEF Switched, Moves
  <1>5. ASSUME NEW c \in {"restoring", "act"}, Goto("http", c), UNCHANGED lidarr
        PROVE  Switched
    <2>1. Moves("http", c)
      BY <1>5, ImporterMoves
    <2>2. LidarrElse /\ lidarr'.switched = lidarr.switched
      BY <1>0, <1>5 DEF LidarrElse
    <2> QED BY <1>0, <1>1, <2>1, <2>2 DEF Switched, Moves
  <1>6. \/ \E a \in m.todo :
              \/ /\ lidarr' = [lidarr EXCEPT !.switched = @ \cup {a}]
                 /\ importer' = [importer EXCEPT !["http"].todo = @ \ {a},
                                                 !["http"].applied = @ \cup {a}]
              \/ importer' = [importer EXCEPT !["http"].todo = @ \ {a}] /\ UNCHANGED lidarr
              \/ /\ Failure /\ Goto("http", "restoring")
                 /\ \E took \in SUBSET {a} : lidarr' = [lidarr EXCEPT !.switched = @ \cup took]
        \/ Goto("http", IF m.applied = {} THEN "restoring" ELSE "act") /\ UNCHANGED lidarr
    BY DEF Switch
  <1> QED BY <1>2, <1>3, <1>4, <1>5, <1>6

LEMMA RestoreKinds ==
    ASSUME Typed
    PROVE  Restore => Restored
  <1> USE Names DEF Typed
  <1> SUFFICES ASSUME Restore
               PROVE  Restored
    OBVIOUS
  <1> DEFINE m == importer["http"]
  <1>0. /\ m.applied \in SUBSET Albums
        /\ lidarr \in LidarrType /\ lidarr.switched \in SUBSET Albums
    BY ImporterFields DEF ServicesTyped, LidarrType
  <1>1. /\ At("http", "restoring")
        /\ UNCHANGED <<discard, refresh, side, folder, proj, config>>
    BY DEF Restore
  <1>2. ASSUME NEW a \in m.applied, UNCHANGED lock,
               importer' = [importer EXCEPT !["http"].applied = @ \ {a}],
               \/ lidarr' = [lidarr EXCEPT !.switched = @ \ {a}]
               \/ UNCHANGED lidarr /\ Failure
        PROVE  Restored
    <2> DEFINE A == m.applied \ {a}
               S == lidarr.switched \ {a}
    <2>1. a \in Albums /\ A \in SUBSET Albums /\ S \in SUBSET Albums
      BY <1>0
    <2>2. Keeps(A)
      BY <1>2, <2>1, ImporterSwitches
    <2>3. CASE lidarr' = [lidarr EXCEPT !.switched = @ \ {a}]
      <3>1. LidarrElse /\ lidarr'.switched = S
        BY <1>0, <2>1, <2>3, LidarrUpdates DEF Lidarr, LidarrElse, LidarrType
      <3>2. lidarr.switched \subseteq m.applied => lidarr'.switched \subseteq A
        BY <3>1
      <3> QED BY <1>1, <1>2, <2>1, <2>2, <3>1, <3>2 DEF Restored
    <2>4. CASE UNCHANGED lidarr /\ Failure
      <3>1. ~Unharmed' /\ LidarrElse
        BY <1>0, <2>4, FailureHarms DEF LidarrElse
      <3> QED BY <1>1, <1>2, <2>1, <2>2, <3>1 DEF Restored
    <2> QED BY <1>2, <2>3, <2>4
  <1>3. ASSUME m.applied = {}, lock' = "free", UNCHANGED lidarr,
               importer' = [importer EXCEPT !["http"] = ImporterAt("idle")]
        PROVE  Restored
    <2>1. Resets("http", "idle") /\ LidarrElse
      BY <1>0, <1>3, ImporterMoves DEF LidarrElse
    <2> QED BY <1>1, <1>3, <2>1 DEF Restored
  <1>4. \/ \E a \in m.applied :
              /\ importer' = [importer EXCEPT !["http"].applied = @ \ {a}]
              /\ \/ lidarr' = [lidarr EXCEPT !.switched = @ \ {a}]
                 \/ UNCHANGED lidarr /\ Failure
              /\ UNCHANGED lock
        \/ /\ m.applied = {} /\ lock' = "free" /\ UNCHANGED lidarr
           /\ importer' = [importer EXCEPT !["http"] = ImporterAt("idle")]
    BY DEF Restore
  <1> QED BY <1>2, <1>3, <1>4

\* An import that raises, and one that finds its job cancelled.
LEMMA AbortKinds ==
    ASSUME Typed, NEW p \in Importers
    PROVE  /\ \A t \in BOOLEAN : Raises(p, t) => Aborts(p)
           /\ Cancelled(p) => /\ Aborts(p) /\ UNCHANGED <<side, folder, lidarr, spent>>
                              /\ proj' \in ProjType /\ proj'.hold = proj.hold
                              /\ p = "worker" /\ is_job_cancel_requested(importer[p].job)
  <1> USE Names DEF Typed
  <1>1. ASSUME NEW t \in BOOLEAN, Raises(p, t)
        PROVE  Aborts(p)
    <2>1. CASE p = "worker"
      BY <1>1, <2>1, ImporterMoves DEF Raises, Aborts
    <2>2. CASE p = "http"
      BY <1>1, <2>2, ImporterMoves DEF Raises, Aborts
    <2> QED BY <2>1, <2>2
  <1>2. ASSUME Cancelled(p)
        PROVE  /\ Aborts(p) /\ UNCHANGED <<side, folder, lidarr, spent>>
               /\ proj' \in ProjType /\ proj'.hold = proj.hold
               /\ p = "worker" /\ is_job_cancel_requested(importer[p].job)
    BY <1>2, ImporterMoves, ProjUpdates DEF Cancelled, Aborts, ServicesTyped
  <1> QED BY <1>1, <1>2

\* A stage that leaves Lidarr alone.
LEMMA StageAlone ==
    ASSUME Typed, NEW p \in Importers, UNCHANGED <<discard, refresh, side, folder, config, lidarr>>,
           importer[p].pc \in {"act"} \cup (Started \ {"finish"}), Advances(p),
           proj' \in ProjType,
           \/ UNCHANGED proj
           \/ importer[p].rec.decision \in Accepts
           \/ /\ p = "worker" /\ is_job_cancel_requested(importer[p].job)
              /\ proj'.hold = proj.hold
    PROVE  Proceeds(p)
  BY DEF Proceeds, Typed, ServicesTyped

LEMMA CancelledStage ==
    ASSUME Typed, NEW p \in Importers, Cancelled(p), UNCHANGED <<discard, refresh, config>>,
           importer[p].pc \in {"act"} \cup (Started \ {"finish"})
    PROVE  Proceeds(p)
  BY AbortKinds, StageAlone DEF Advances

LEMMA ActKinds ==
    ASSUME Typed, Reads, NEW p \in Importers
    PROVE  Act(p) => Proceeds(p) \/ Promotes(p)
  <1> USE Names DEF Typed
  <1> SUFFICES ASSUME Act(p)
               PROVE  Proceeds(p) \/ Promotes(p)
    OBVIOUS
  <1> DEFINE m == importer[p]
  <1>1. m.pc = "act" /\ UNCHANGED <<discard, refresh, config>>
    BY DEF Act, At
  <1>2. m.rec \in Record /\ m.path \in Places
    BY <1>1 DEF Reads, Holding, Reading, Started
  <1>3. proj \in ProjType
    BY DEF ServicesTyped
  <1>4. CASE Declined(p) /\ UNCHANGED <<side, folder, proj, lidarr, spent>>
    <2>1. Advances(p)
      <3>1. CASE Imported(m.rec)
        <4>1. m.rec.outcome \in Outcomes
          BY <1>2, Values
        <4>2. Turns(p, "finish", m.rec, "none", m.rec.outcome, m.applied) /\ UNCHANGED lock
          BY <1>4, <3>1, <4>1, ImporterMoves DEF Declined
        <4> QED BY <3>1, <4>2 DEF Advances
      <3>2. CASE ~Imported(m.rec)
        BY <1>4, <3>2, AbortKinds DEF Declined, Advances
      <3> QED BY <3>1, <3>2
    <2> QED BY <1>1, <1>3, <1>4, <2>1, StageAlone
  <1>5. CASE Cancelled(p)
    BY <1>1, <1>5, CancelledStage
  <1>6. ASSUME m.kind = "promote", _is_promotable(m.rec), Write(m.path, Promoted(m.rec)),
               importer' = [importer EXCEPT ![p].pc = "lookup", ![p].rec = Promoted(m.rec)],
               UNCHANGED <<lock, proj, lidarr>>
        PROVE  Promotes(p)
    <2>1. Promoted(m.rec) \in Record /\ Promoted(m.rec) \in AnyRecord
      BY <1>2, RecordUpdates, Values
    <2>2. Stores(m.path, Promoted(m.rec))
      BY <1>2, <1>6, <2>1, WriteStores
    <2>3. Turns(p, "lookup", Promoted(m.rec), m.path, m.outcome, m.applied)
      BY <1>6, <2>1, ImporterMoves
    <2> QED BY <1>1, <1>6, <2>2, <2>3 DEF Promotes, At
  <1>7. ASSUME _is_retryable_verified_import(m.rec), Goto(p, "lookup"),
               proj' = [proj EXCEPT !.status = "processing", !.hidden = FALSE],
               UNCHANGED <<lock, side, folder, lidarr>>
        PROVE  Proceeds(p)
    <2>1. m.rec.decision \in Accepts
      BY <1>2, <1>7, Promotable, Values
    <2>2. Moves(p, "lookup")
      BY <1>7, ImporterMoves
    <2>3. "lookup" \in Started \ {"finish"} /\ "lookup" # "rescan"
      BY DEF Started
    <2>4. Advances(p)
      BY <1>7, <2>1, <2>2, <2>3 DEF Advances
    <2>5. proj' \in ProjType
      BY <1>3, <1>7, ProjUpdates
    <2> QED BY <1>1, <1>7, <2>1, <2>4, <2>5, StageAlone
  <1>8. \/ Declined(p) /\ UNCHANGED <<side, folder, proj, lidarr, spent>>
        \/ Cancelled(p)
        \/ /\ m.kind = "promote" /\ _is_promotable(m.rec) /\ Write(m.path, Promoted(m.rec))
           /\ importer' = [importer EXCEPT ![p].pc = "lookup", ![p].rec = Promoted(m.rec)]
           /\ UNCHANGED <<lock, proj, lidarr>>
        \/ /\ _is_retryable_verified_import(m.rec) /\ Goto(p, "lookup")
           /\ proj' = [proj EXCEPT !.status = "processing", !.hidden = FALSE]
           /\ UNCHANGED <<lock, side, folder, lidarr>>
    BY DEF Act
  <1> QED BY <1>4, <1>5, <1>6, <1>7, <1>8

\* The stages after the check, in which the record is an accepted one.
LEMMA StartedRecord ==
    ASSUME Reads, NEW p \in Importers, importer[p].pc \in Started \ {"finish"}
    PROVE  importer[p].rec.decision \in Accepts
  BY DEF Reads, Holding

LEMMA LookupKinds ==
    ASSUME Typed, Reads, NEW p \in Importers
    PROVE  Lookup(p) => Proceeds(p)
  <1> USE Names DEF Typed
  <1> SUFFICES ASSUME Lookup(p)
               PROVE  Proceeds(p)
    OBVIOUS
  <1>1. importer[p].pc = "lookup" /\ UNCHANGED <<discard, refresh, config>>
    BY DEF Lookup, At
  <1>2. /\ importer[p].pc \in Started \ {"finish"} /\ importer[p].rec.decision \in Accepts
        /\ "post" \in Started \ {"finish"} /\ "FAILED" \in Outcomes
    BY <1>1, StartedRecord DEF Started, Outcomes
  <1>3. CASE Cancelled(p)
    BY <1>1, <1>2, <1>3, CancelledStage
  <1>4. ASSUME Returns(p, "FAILED") \/ Goto(p, "post"), UNCHANGED lock
        PROVE  Advances(p)
    <2>1. Reports(p, "FAILED") \/ Moves(p, "post")
      BY <1>2, <1>4, ImporterMoves DEF Returns, Reports
    <2> QED BY <1>2, <1>4, <2>1 DEF Advances
  <1>5. CASE UNCHANGED <<side, folder, proj, lidarr>>
             /\ (((Returns(p, "FAILED") \/ Goto(p, "post")) /\ UNCHANGED lock)
                 \/ \E t \in BOOLEAN : Raises(p, t))
    <2>1. Advances(p)
      BY <1>4, <1>5, AbortKinds DEF Advances
    <2>2. proj' \in ProjType
      BY <1>5 DEF ServicesTyped
    <2> QED BY <1>1, <1>2, <1>5, <2>1, <2>2, StageAlone
  <1> QED BY <1>3, <1>5 DEF Lookup

LEMMA PostKinds ==
    ASSUME Typed, Reads, NEW p \in Importers
    PROVE  Post(p) => Proceeds(p)
  <1> USE Names DEF Typed
  <1> SUFFICES ASSUME Post(p)
               PROVE  Proceeds(p)
    OBVIOUS
  <1>1. importer[p].pc = "post" /\ UNCHANGED <<discard, refresh, side, folder, proj, config>>
    BY DEF Post, At
  <1>2. /\ importer[p].pc \in Started \ {"finish"} /\ importer[p].rec.decision \in Accepts
        /\ "wait" \in Started \ {"finish"} /\ "wait" # "rescan"
    BY <1>1, StartedRecord DEF Started
  <1>3. PICK ok \in BOOLEAN : lidarr' = [lidarr EXCEPT !.queued = @ \/ ok]
    BY DEF Post
  <1>4. /\ Lidarr(lidarr.queue, lidarr.queued \/ ok, lidarr.imported, lidarr.placed,
                  lidarr.blocklisted)
        /\ lidarr'.switched = lidarr.switched
    BY <1>3, LidarrUpdates DEF ServicesTyped
  <1>5. \/ UNCHANGED lock /\ \E b \in BOOLEAN :
              importer' = [importer EXCEPT ![p].pc = "wait", ![p].sent = b]
        \/ \E t \in BOOLEAN : Raises(p, t)
    BY DEF Post
  <1>6. (UNCHANGED lock /\ Moves(p, "wait")) \/ Aborts(p)
    BY <1>2, <1>5, ImporterMoves, AbortKinds
  <1>7. Advances(p)
    BY <1>2, <1>6 DEF Advances
  <1>8. lidarr \in LidarrType /\ proj' \in ProjType
    BY <1>1 DEF ServicesTyped
  <1>9. /\ lidarr'.imported = lidarr.imported /\ lidarr'.blocklisted = lidarr.blocklisted
        /\ lidarr'.placed = lidarr.placed
    BY <1>4, <1>8 DEF Lidarr, LidarrType
  <1> QED BY <1>1, <1>2, <1>4, <1>7, <1>8, <1>9 DEF Proceeds, Lidarr

LEMMA WaitingKinds ==
    ASSUME Typed, Reads, NEW p \in Importers
    PROVE  Wait(p) \/ CheckPending(p) => Proceeds(p)
  <1> USE Names DEF Typed
  <1>0. /\ "pending" \in Started \ {"finish"} /\ "pending" # "rescan"
        /\ "rescue" \in Started \ {"finish"} /\ "rescue" # "rescan"
        /\ "wait" \in Started \ {"finish"} /\ "pending" \in Started \ {"finish"}
        /\ "MANUAL_IMPORTED" \in Outcomes /\ "PENDING" \in Outcomes
    BY DEF Started, Outcomes
  <1>1. ASSUME Wait(p)
        PROVE  Proceeds(p)
    <2>1. importer[p].pc = "wait" /\ UNCHANGED <<discard, refresh, config>>
      BY <1>1 DEF Wait, At
    <2>2. importer[p].pc \in Started \ {"finish"} /\ importer[p].rec.decision \in Accepts
      BY <1>0, <2>1, StartedRecord
    <2>3. CASE Cancelled(p)
      BY <2>1, <2>2, <2>3, CancelledStage
    <2>4. ASSUME UNCHANGED <<lock, side, folder, lidarr>>,
                 \/ /\ Evidence \/ config.had
                    /\ _mark_import_completed /\ Returns(p, "MANUAL_IMPORTED")
                 \/ Goto(p, "pending") /\ UNCHANGED proj
          PROVE  Proceeds(p)
      <3>1. \/ Reports(p, "MANUAL_IMPORTED") /\ (lidarr.imported \/ config.had)
            \/ Moves(p, "pending")
        BY <1>0, <2>4, ImporterMoves DEF Returns, Reports, Evidence
      <3>2. Advances(p)
        BY <1>0, <2>2, <2>4, <3>1 DEF Advances
      <3>3. proj' \in ProjType
        BY <2>4, ProjUpdates DEF ServicesTyped
      <3> QED BY <2>1, <2>2, <2>4, <3>2, <3>3, StageAlone
    <2> QED BY <1>1, <2>3, <2>4 DEF Wait
  <1>2. ASSUME CheckPending(p)
        PROVE  Proceeds(p)
    <2>1. /\ importer[p].pc = "pending"
          /\ UNCHANGED <<lock, discard, refresh, side, folder, proj, lidarr, config>>
      BY <1>2 DEF CheckPending, At
    <2>2. importer[p].pc \in Started \ {"finish"} /\ importer[p].rec.decision \in Accepts
      BY <1>0, <2>1, StartedRecord
    <2>3. Returns(p, "PENDING") \/ Goto(p, "rescue")
      BY <1>2 DEF CheckPending
    <2>4. Reports(p, "PENDING") \/ Moves(p, "rescue")
      BY <1>0, <2>3, ImporterMoves DEF Returns, Reports
    <2>5. Advances(p)
      BY <1>0, <2>1, <2>2, <2>4 DEF Advances
    <2>6. proj' \in ProjType
      BY <2>1 DEF ServicesTyped
    <2> QED BY <2>1, <2>2, <2>5, <2>6, StageAlone
  <1> QED BY <1>1, <1>2

\* A failure that cleans Lidarr's queue, or does not.
LEMMA FailAndCleanEffect ==
    ASSUME Typed, FailAndClean
    PROVE  /\ proj' \in ProjType
           /\ \E q \in BOOLEAN :
                 /\ q => lidarr.queue
                 /\ Lidarr(q, lidarr.queued, lidarr.imported, lidarr.placed, lidarr.blocklisted)
                 /\ lidarr'.switched = lidarr.switched
  <1>0. proj \in ProjType /\ lidarr \in LidarrType /\ lidarr.queue \in BOOLEAN
    BY DEF Typed, ServicesTyped, LidarrType
  <1>1. proj' \in ProjType
    BY <1>0, ProjUpdates DEF FailAndClean
  <1>2. CASE lidarr' = [lidarr EXCEPT !.queue = FALSE]
    BY <1>0, <1>1, <1>2, LidarrUpdates
  <1>3. CASE UNCHANGED lidarr
    BY <1>0, <1>1, <1>3, LidarrUpdates
  <1> QED BY <1>2, <1>3 DEF FailAndClean

LEMMA CleanedStage ==
    ASSUME Typed, NEW p \in Importers, FailAndClean, Returns(p, "FAILED"),
           UNCHANGED <<lock, discard, refresh, side, folder, config>>,
           importer[p].pc \in Started \ {"finish"}, importer[p].rec.decision \in Accepts
    PROVE  Proceeds(p)
  <1>1. Reports(p, "FAILED") /\ "FAILED" \in Outcomes
    BY Names, ImporterMoves DEF Returns, Reports, Outcomes, Typed
  <1>2. Advances(p)
    BY <1>1 DEF Advances
  <1>3. PICK q \in BOOLEAN :
           /\ q => lidarr.queue
           /\ Lidarr(q, lidarr.queued, lidarr.imported, lidarr.placed, lidarr.blocklisted)
           /\ lidarr'.switched = lidarr.switched
    BY FailAndCleanEffect
  <1>4. lidarr \in LidarrType /\ proj' \in ProjType
    BY FailAndCleanEffect DEF Typed, ServicesTyped
  <1>5. /\ lidarr'.imported = lidarr.imported /\ lidarr'.blocklisted = lidarr.blocklisted
        /\ lidarr'.placed = lidarr.placed /\ lidarr'.queued = lidarr.queued
        /\ lidarr'.queue => lidarr.queue
    BY <1>3, <1>4 DEF Lidarr, LidarrType
  <1> QED BY <1>2, <1>3, <1>4, <1>5 DEF Proceeds, Lidarr

LEMMA RescueKinds ==
    ASSUME Typed, Reads, NEW p \in Importers
    PROVE  Rescue(p) \/ Copy(p) \/ Rescan(p) => Proceeds(p)
  <1> USE Names DEF Typed
  <1>0. /\ "rescue" \in Started \ {"finish"} /\ "rescan" \in Started \ {"finish"}
        /\ "copy" \in Started \ {"finish"} /\ "copy" # "rescan"
        /\ "RESCUED" \in Outcomes /\ "RESCUED" # "MANUAL_IMPORTED"
    BY DEF Started, Outcomes
  <1>1. ASSUME Rescue(p)
        PROVE  Proceeds(p)
    <2>1. importer[p].pc = "rescue" /\ UNCHANGED <<discard, refresh, config>>
      BY <1>1 DEF Rescue, At
    <2>2. importer[p].pc \in Started \ {"finish"} /\ importer[p].rec.decision \in Accepts
      BY <1>0, <2>1, StartedRecord
    <2>3. CASE Cancelled(p)
      BY <2>1, <2>2, <2>3, CancelledStage
    <2>4. CASE FailAndClean /\ Returns(p, "FAILED") /\ UNCHANGED <<lock, side, folder>>
      BY <2>1, <2>2, <2>4, CleanedStage
    <2>5. ASSUME Goto(p, "copy"), UNCHANGED <<lock, proj, lidarr, side, folder>>
          PROVE  Proceeds(p)
      <3>1. Moves(p, "copy")
        BY <1>0, <2>5, ImporterMoves
      <3>2. Advances(p) /\ proj' \in ProjType
        BY <1>0, <2>2, <2>5, <3>1 DEF Advances, ServicesTyped
      <3> QED BY <2>1, <2>2, <2>5, <3>2, StageAlone
    <2>6. ASSUME NEW t \in BOOLEAN, Raises(p, t), UNCHANGED <<proj, lidarr, side, folder>>
          PROVE  Proceeds(p)
      <3>1. Advances(p) /\ proj' \in ProjType
        BY <2>6, AbortKinds DEF Advances, ServicesTyped
      <3> QED BY <2>1, <2>2, <2>6, <3>1, StageAlone
    <2> QED BY <1>1, <2>3, <2>4, <2>5, <2>6 DEF Rescue
  <1>2. ASSUME Rescan(p)
        PROVE  Proceeds(p)
    <2>1. importer[p].pc = "rescan" /\ UNCHANGED <<discard, refresh, side, folder, config>>
      BY <1>2 DEF Rescan, At
    <2>2. importer[p].pc \in Started \ {"finish"} /\ importer[p].rec.decision \in Accepts
      BY <1>0, <2>1, StartedRecord
    <2>3. CASE FailAndClean /\ Returns(p, "FAILED") /\ UNCHANGED lock
      BY <2>1, <2>2, <2>3, CleanedStage
    <2>4. ASSUME _mark_import_completed, Returns(p, "RESCUED"), UNCHANGED <<lock, lidarr>>
          PROVE  Proceeds(p)
      <3>1. Reports(p, "RESCUED")
        BY <1>0, <2>4, ImporterMoves DEF Returns, Reports
      <3>2. Advances(p)
        BY <1>0, <2>1, <2>2, <2>4, <3>1 DEF Advances
      <3>3. proj' \in ProjType
        BY <2>4, ProjUpdates DEF ServicesTyped
      <3> QED BY <2>1, <2>2, <2>4, <3>2, <3>3, StageAlone
    <2>5. ASSUME NEW t \in BOOLEAN, Raises(p, t), UNCHANGED <<proj, lidarr>>
          PROVE  Proceeds(p)
      <3>1. Advances(p) /\ proj' \in ProjType
        BY <2>5, AbortKinds DEF Advances, ServicesTyped
      <3> QED BY <2>1, <2>2, <2>5, <3>1, StageAlone
    <2> QED BY <1>2, <2>3, <2>4, <2>5 DEF Rescan
  <1>3. ASSUME Copy(p)
        PROVE  Proceeds(p)
    <2>1. importer[p].pc = "copy" /\ UNCHANGED <<discard, refresh, lock, side, folder, config>>
      BY <1>3 DEF Copy, At
    <2>2. importer[p].pc \in Started \ {"finish"} /\ importer[p].rec.decision \in Accepts
      BY <1>0, <2>1, StartedRecord
    <2>4. CASE FailAndClean /\ Returns(p, "FAILED") /\ UNCHANGED <<lock, side, folder>>
      BY <2>1, <2>2, <2>4, CleanedStage
    <2>5. ASSUME folder = "audio", lidarr' = [lidarr EXCEPT !.placed = TRUE],
                 Goto(p, "rescan"), UNCHANGED <<lock, proj, side, folder>>
          PROVE  Proceeds(p)
      <3>1. /\ Lidarr(lidarr.queue, lidarr.queued, lidarr.imported, TRUE, lidarr.blocklisted)
            /\ lidarr'.switched = lidarr.switched
        BY <2>5, LidarrUpdates DEF ServicesTyped
      <3>2. lidarr \in LidarrType /\ proj' \in ProjType
        BY <2>5 DEF ServicesTyped
      <3>3. /\ lidarr'.imported = lidarr.imported /\ lidarr'.blocklisted = lidarr.blocklisted
            /\ lidarr'.queued = lidarr.queued /\ lidarr'.queue = lidarr.queue
        BY <3>1, <3>2 DEF Lidarr, LidarrType
      <3>4. Moves(p, "rescan") /\ lidarr'.placed
        BY <2>5, <3>1, <1>0, ImporterMoves DEF Lidarr
      <3>5. Advances(p)
        BY <1>0, <2>2, <2>5, <3>4 DEF Advances
      <3> QED BY <2>1, <2>2, <2>5, <3>1, <3>2, <3>3, <3>4, <3>5 DEF Proceeds, Lidarr
    <2> QED BY <1>3, <2>1, <2>4, <2>5 DEF Copy
  <1> QED BY <1>1, <1>2, <1>3

LEMMA FinishKinds ==
    ASSUME Typed, Reads, NEW p \in Importers
    PROVE  Finish(p) => Finishes(p)
  <1> USE Names DEF Typed
  <1> SUFFICES ASSUME Finish(p)
               PROVE  Finishes(p)
    OBVIOUS
  <1> DEFINE m == importer[p]
  <1>1. m.pc = "finish" /\ UNCHANGED <<discard, refresh, proj, lidarr, config>>
    BY DEF Finish, At
  <1>2. m.rec \in Record /\ m.outcome \in Outcomes /\ m.path \in AnyPath
    BY <1>1, ImporterFields DEF Reads, Holding, Reading, Started
  <1>3. Outcome(m.rec, m.outcome) \in Record /\ Outcome(m.rec, m.outcome).outcome = m.outcome
    BY <1>2, RecordUpdates
  <1>4. \/ m.path = "none" /\ UNCHANGED <<side, folder>>
        \/ m.path \in Places /\ Stores(m.path, Outcome(m.rec, m.outcome))
    <2>1. CASE m.path = "none"
      BY <2>1 DEF Finish
    <2>2. CASE m.path # "none"
      <3>1. Write(m.path, Outcome(m.rec, m.outcome))
        BY <2>2 DEF Finish, Outcome
      <3> QED BY <1>2, <1>3, <2>2, <3>1, WriteStores
    <2> QED BY <2>1, <2>2
  <1>5. \/ p = "http" /\ Goto(p, "restoring") /\ UNCHANGED lock
        \/ /\ importer' = [importer EXCEPT ![p] = ImporterAt("idle")] /\ lock' = "free"
           /\ \/ p = "worker" \/ m.applied = {}
              \/ Outcome(m.rec, m.outcome).outcome \in {"MANUAL_IMPORTED", "RESCUED"}
    BY DEF Finish, SwitchStays, Outcome
  <1>6. /\ Goto(p, "restoring") => Moves(p, "restoring")
        /\ importer' = [importer EXCEPT ![p] = ImporterAt("idle")] => Resets(p, "idle")
    BY ImporterMoves
  <1> QED BY <1>1, <1>3, <1>4, <1>5, <1>6 DEF Finishes, At

LEMMA ReviewRecordIs ==
    /\ ReviewRecord \in Record
    /\ ReviewRecord.decision = "REVIEW_REQUIRED" /\ ReviewRecord.outcome = "PENDING"
    /\ ReviewRecord.state = "pending_review" /\ ~ReviewRecord.blocklisted
  BY DEF ReviewRecord, NewRecord, NoRecord, Record

LEMMA CreateKinds ==
    ASSUME Typed, Threads
    PROVE  /\ CreateReview => Opens
           /\ _create_review_required => Holds
  <1> USE Names DEF Typed
  <1>1. ASSUME CreateReview
        PROVE  Opens
    <2>1. /\ Write("out", ReviewRecord)
          /\ importer' = [importer EXCEPT !["worker"].rec = ReviewRecord]
      BY <1>1 DEF CreateReview, ReviewRecord
    <2>2. Stores("out", ReviewRecord)
      BY <2>1, ReviewRecordIs, WriteStores
    <2>3. importer["worker"].pc = "reviewing"
      BY <1>1 DEF CreateReview, At
    <2>4. Turns("worker", "reviewing", ReviewRecord, importer["worker"].path,
                importer["worker"].outcome, importer["worker"].applied)
      <3>1. ReviewRecord \in AnyRecord /\ "reviewing" \in Positions
        BY ReviewRecordIs, Values
      <3>2. Turns("worker", importer["worker"].pc, ReviewRecord, importer["worker"].path,
                  importer["worker"].outcome, importer["worker"].applied)
        BY <2>1, <3>1, ImporterMoves
      <3> QED BY <2>3, <3>2
    <2> QED BY <1>1, <2>2, <2>4 DEF CreateReview, Opens, Creating
  <1>2. ASSUME _create_review_required
        PROVE  Holds
    <2>1. /\ Creating /\ lock = "worker" /\ lock' = "free"
          /\ UNCHANGED <<discard, refresh, config>>
      BY <1>2 DEF _create_review_required, Creating
    <2>2. proj' \in ProjType /\ proj'.hold /\ ~proj'.hidden
      BY <1>2, ProjUpdates DEF _create_review_required, ServicesTyped
    <2>3. Resets("worker", "idle")
      BY <1>2, ImporterMoves DEF _create_review_required
    <2>4. importer["worker"].rec \in Record
      BY <2>1 DEF Threads
    <2>5. \/ UNCHANGED <<side, folder, lidarr>>
          \/ \E b \in BOOLEAN :
                /\ lidarr' = [lidarr EXCEPT !.blocklisted = _blocklist_grab(b, FALSE)]
                /\ Write("out", Judged(importer["worker"].rec, b))
      BY <1>2 DEF _create_review_required, Judged
    <2>6. ASSUME NEW b \in BOOLEAN,
                 lidarr' = [lidarr EXCEPT !.blocklisted = _blocklist_grab(b, FALSE)],
                 Write("out", Judged(importer["worker"].rec, b))
          PROVE  /\ Stores("out", Judged(importer["worker"].rec, b))
                 /\ Lidarr(lidarr.queue, lidarr.queued, lidarr.imported, lidarr.placed,
                           lidarr.blocklisted \/ b)
                 /\ lidarr'.switched = lidarr.switched
      <3>1. Judged(importer["worker"].rec, b) \in Record
        BY <2>4, RecordUpdates
      <3>2. Stores("out", Judged(importer["worker"].rec, b))
        BY <2>6, <3>1, WriteStores
      <3> DEFINE d == lidarr.blocklisted \/ b
      <3>3. d \in BOOLEAN /\ lidarr' = [lidarr EXCEPT !.blocklisted = d]
        BY <2>6 DEF _blocklist_grab
      <3> HIDE DEF d
      <3>4. /\ Lidarr(lidarr.queue, lidarr.queued, lidarr.imported, lidarr.placed, d)
            /\ lidarr'.switched = lidarr.switched
        BY <3>3, LidarrUpdates DEF ServicesTyped
      <3> QED BY <3>2, <3>4 DEF d
    <2> QED BY <2>1, <2>2, <2>3, <2>5, <2>6 DEF Holds
  <1> QED BY <1>1, <1>2

LEMMA FolderRemoved ==
    ASSUME DiskTyped, RemoveFolder
    PROVE  FolderGoes
  BY Names, Values DEF DiskTyped, RemoveFolder, FolderGoes

LEMMA DiscardKinds ==
    ASSUME Typed, Reads
    PROVE  /\ RequestDiscard => Discards
           /\ Remove => Removes
           /\ Blocklist => Blocklists
           /\ Archive => Archives
           /\ MarkDiscarded => Marks
  <1> USE Names DEF Typed
  <1>0. Find \in AnyPath /\ Current \in AnyRecord /\ (Current \in Record => Find # "none")
    BY FindFinds
  <1>1. ASSUME RequestDiscard
        PROVE  Discards
    <2>1. Find # "none"
      BY <1>0, <1>1, Promotable DEF RequestDiscard
    <2>2. TurnsDiscard("remove", Current, Find)
      BY <1>0, <1>1, ReaderUpdates DEF RequestDiscard
    <2> QED BY <1>1, <2>1, <2>2 DEF RequestDiscard, Discards
  <1>2. ASSUME Remove
        PROVE  Removes
    <2>1. TurnsDiscard("blocklist", discard.rec, discard.path)
      BY <1>2, ReaderUpdates DEF Remove
    <2> QED BY <1>2, <2>1, FolderRemoved DEF Remove, Removes
  <1>3. ASSUME Blocklist
        PROVE  Blocklists
    <2>1. PICK done, cleaned \in BOOLEAN :
             /\ IF cleaned THEN Works ELSE Failure
             /\ lidarr' = [lidarr EXCEPT
                                !.blocklisted = _blocklist_grab(done, discard.rec.blocklisted),
                                !.queue = @ /\ ~cleaned]
             /\ _hide_from_lidarr(cleaned)
             /\ discard' = [discard EXCEPT !.pc = "archive",
                                !.rec.blocklisted = @ \/ done, !.rec.state = "discarded"]
      BY <1>3 DEF Blocklist
    <2>2. discard.rec \in Record
      BY <1>3 DEF Blocklist, Reads
    <2>3. TurnsDiscard("archive", Closed(discard.rec, "discarded", done), discard.path)
      BY <2>1, <2>2, ReaderUpdates
    <2> DEFINE b == lidarr.blocklisted \/ (done /\ ~discard.rec.blocklisted)
    <2>4. b \in BOOLEAN /\ lidarr' = [lidarr EXCEPT !.blocklisted = b, !.queue = @ /\ ~cleaned]
      BY <2>1 DEF _blocklist_grab
    <2> HIDE DEF b
    <2>5. /\ Lidarr(lidarr.queue /\ ~cleaned, lidarr.queued, lidarr.imported, lidarr.placed, b)
          /\ lidarr'.switched = lidarr.switched
      BY <2>4, LidarrUpdates DEF ServicesTyped
    <2>6. proj' \in ProjType
      BY <2>1, ProjUpdates DEF ServicesTyped
    <2>7. Unharmed' => cleaned
      BY <2>1, FailureHarms
    <2> QED BY <1>3, <2>3, <2>5, <2>6, <2>7 DEF Blocklist, Blocklists, b
  <1>4. ASSUME Archive
        PROVE  Archives
    <2>1. discard.rec \in Record /\ discard.pc = "archive"
      BY <1>4 DEF Archive, Reads
    <2>2. side' = [w \in Places |-> CASE w = "discarded" -> discard.rec
                                     [] w = discard.path /\ w # "discarded" -> NoRecord
                                     [] OTHER -> side[w]]
      BY <1>4 DEF Archive
    <2>3. /\ side'["discarded"] = discard.rec
          /\ \A w \in Places \ {"discarded"} :
                side'[w] = IF w = discard.path THEN NoRecord ELSE side[w]
      BY <2>2
    <2>4. \A w \in Places : side'[w] \in AnyRecord
      BY <2>1, <2>3, Values DEF DiskTyped
    <2>5. side' \in [Places -> AnyRecord]
      BY <2>2, <2>4
    <2>6. DiskTyped'
      BY <1>4, <2>3, <2>5 DEF Archive, DiskTyped
    <2>7. TurnsDiscard("mark", discard.rec, discard.path)
      BY <1>4, ReaderUpdates DEF Archive
    <2> QED BY <1>4, <2>1, <2>3, <2>6, <2>7 DEF Archive, Archives
  <1>5. ASSUME MarkDiscarded
        PROVE  Marks
    <2>1. TurnsDiscard("idle", NoRecord, "none") /\ proj' \in ProjType
      BY <1>5, ReaderUpdates, ProjUpdates DEF MarkDiscarded, ServicesTyped
    <2> QED BY <1>5, <2>1 DEF MarkDiscarded, Marks
  <1> QED BY <1>1, <1>2, <1>3, <1>4, <1>5

LEMMA RefreshKinds ==
    ASSUME Typed, Reads
    PROVE  /\ Reconcile => Reconciles
           /\ CountImported => Counts
           /\ CheckQueued => Checks
  <1> USE Names DEF Typed
  <1>0. Find \in AnyPath /\ Current \in AnyRecord /\ (Current \in Record => Find # "none")
    BY FindFinds
  <1>1. ASSUME Reconcile
        PROVE  Reconciles
    <2>1. Find # "none"
      BY <1>0, <1>1, Promotable DEF Reconcile
    <2>2. PICK w \in {Find, "none"} : refresh' = [pc |-> "count", rec |-> Current, path |-> w]
      BY <1>1 DEF Reconcile
    <2>3. TurnsRefresh("count", Current, w)
      BY <1>0, <2>2, ReaderUpdates
    <2> QED BY <1>1, <2>1, <2>3 DEF Reconcile, Reconciles
  <1>2. ASSUME NEW o \in Outcomes, refresh.rec \in Record, WriteBack(o)
        PROVE  Back(o)
    <2> DEFINE w == IF refresh.path = "none" THEN Find ELSE refresh.path
               r == Outcome(refresh.rec, o)
    <2>1. w \in AnyPath /\ r \in Record
      BY <1>0, <1>2, ReaderFields, RecordUpdates
    <2>2. IF w = "none" THEN UNCHANGED <<side, folder>> ELSE Write(w, r)
      BY <1>2 DEF WriteBack, Outcome
    <2>3. w = refresh.path \/ (refresh.path = "none" /\ w = Find)
      OBVIOUS
    <2> HIDE DEF w, r
    <2>4. UNCHANGED <<side, folder>> \/ (w \in Places /\ Stores(w, r))
      BY <2>1, <2>2, WriteStores
    <2> QED BY <2>3, <2>4 DEF Back, r
  <1>3. "MANUAL_IMPORTED" \in Outcomes /\ "FAILED" \in Outcomes
    BY DEF Outcomes
  <1>4. ASSUME CountImported
        PROVE  Counts
    <2>1. /\ refresh.pc = "count" /\ refresh.rec \in Record
          /\ UNCHANGED <<importer, lock, discard, lidarr, config>>
      BY <1>4 DEF CountImported, Reads
    <2>2. \/ /\ folder # "audio" /\ (lidarr.imported \/ config.had)
             /\ WriteBack("MANUAL_IMPORTED") /\ _mark_import_completed /\ refresh' = NoReader
          \/ /\ refresh' = [refresh EXCEPT !.pc = "pending"]
             /\ UNCHANGED <<side, folder, proj>>
      BY <1>4 DEF CountImported
    <2>3. CASE /\ folder # "audio" /\ (lidarr.imported \/ config.had)
               /\ WriteBack("MANUAL_IMPORTED") /\ _mark_import_completed /\ refresh' = NoReader
      <3>1. Back("MANUAL_IMPORTED") /\ TurnsRefresh("idle", NoRecord, "none")
            /\ proj' \in ProjType
        BY <1>2, <1>3, <2>1, <2>3, ReaderUpdates, ProjUpdates DEF ServicesTyped
      <3> QED BY <2>1, <2>3, <3>1 DEF Counts
    <2>4. CASE /\ refresh' = [refresh EXCEPT !.pc = "pending"]
               /\ UNCHANGED <<side, folder, proj>>
      <3>1. TurnsRefresh("pending", refresh.rec, refresh.path) /\ proj' \in ProjType
        BY <2>4, ReaderUpdates DEF ServicesTyped
      <3> QED BY <2>1, <2>4, <3>1 DEF Counts
    <2> QED BY <2>2, <2>3, <2>4
  <1>5. ASSUME CheckQueued
        PROVE  Checks
    <2>1. /\ refresh.pc = "pending" /\ refresh.rec \in Record
          /\ UNCHANGED <<importer, lock, discard, config>>
          /\ TurnsRefresh("idle", NoRecord, "none")
      BY <1>5, ReaderUpdates DEF CheckQueued, Reads
    <2>2. CASE UNCHANGED <<side, folder, proj, lidarr>>
      BY <2>1, <2>2 DEF Checks
    <2>3. CASE WasAccepted /\ WriteBack("FAILED") /\ FailAndClean
      <3>1. Back("FAILED") /\ refresh.rec.decision \in Accepts
        BY <1>2, <1>3, <2>1, <2>3 DEF WasAccepted, Accepts
      <3> QED BY <2>1, <2>3, <3>1, FailAndCleanEffect DEF Checks
    <2> QED BY <1>5, <2>2, <2>3 DEF CheckQueued
  <1> QED BY <1>1, <1>4, <1>5

\* Lidarr's own step, and the process going down.
LEMMA RunKinds ==
    ASSUME Typed
    PROVE  /\ LidarrRuns => Runs
           /\ Stop \/ Crash => Falls
  <1> USE Names DEF Typed
  <1>1. ASSUME LidarrRuns
        PROVE  Runs
    <2>0. lidarr \in LidarrType /\ lidarr.queued
          /\ UNCHANGED <<importer, lock, discard, refresh, side, proj, config>>
      BY <1>1 DEF LidarrRuns, ServicesTyped
    <2>1. ASSUME NEW b \in BOOLEAN, folder = "audio", folder' = "empty",
                 lidarr' = [lidarr EXCEPT !.queued = FALSE, !.imported = TRUE, !.queue = @ /\ b]
          PROVE  Runs
      <3>1. /\ Lidarr(lidarr.queue /\ b, FALSE, TRUE, lidarr.placed, lidarr.blocklisted)
            /\ lidarr'.switched = lidarr.switched
        BY <2>0, <2>1, LidarrUpdates
      <3>2. /\ lidarr' \in LidarrType /\ ~lidarr'.queued /\ lidarr'.imported
            /\ lidarr'.queue => lidarr.queue
            /\ lidarr'.placed = lidarr.placed /\ lidarr'.blocklisted = lidarr.blocklisted
        BY <2>0, <3>1 DEF Lidarr, LidarrType
      <3> QED BY <2>0, <2>1, <3>1, <3>2 DEF Runs
    <2>2. ASSUME lidarr' = [lidarr EXCEPT !.queued = FALSE], UNCHANGED folder
          PROVE  Runs
      <3>1. /\ Lidarr(lidarr.queue, FALSE, lidarr.imported, lidarr.placed, lidarr.blocklisted)
            /\ lidarr'.switched = lidarr.switched
        BY <2>0, <2>2, LidarrUpdates
      <3>2. /\ lidarr' \in LidarrType /\ ~lidarr'.queued /\ lidarr'.imported = lidarr.imported
            /\ lidarr'.queue => lidarr.queue
            /\ lidarr'.placed = lidarr.placed /\ lidarr'.blocklisted = lidarr.blocklisted
        BY <2>0, <3>1 DEF Lidarr, LidarrType
      <3> QED BY <2>0, <2>2, <3>1, <3>2 DEF Runs
    <2> QED BY <1>1, <2>1, <2>2 DEF LidarrRuns
  <1>2. ASSUME Stop \/ Crash
        PROVE  Falls
    <2>1. Down
      BY <1>2 DEF Stop, Crash
    <2>2. /\ importer'["worker"] = ImporterAt("down") /\ importer'["http"] = ImporterAt("idle")
          /\ importer' = [p \in Importers |-> importer'[p]]
      BY <2>1 DEF Down, Importers
    <2>3. ImporterAt("down") \in Importer /\ ImporterAt("idle") \in Importer
      BY FreshImporter
    <2>4. importer' \in [Importers -> Importer]
      BY <2>2, <2>3 DEF Importers
    <2>5. ~Creating /\ (Quiet \/ spent'.crashes # 0)
      BY <1>2, SpentUpdates DEF Stop, Crash, Quiet, Creating, At
    <2>6. UNCHANGED <<proj, config>> \/
            (proj' = LostProjection /\ config' = [config EXCEPT !.lost = TRUE])
      BY <1>2 DEF Stop, Crash
    <2>7. proj' \in ProjType
      BY <2>6, ProjUpdates DEF ServicesTyped
    <2>8. /\ config' \in ConfigType /\ config'.had = config.had /\ config'.old = config.old
          /\ config.lost => config'.lost
          /\ config'.lost \/ UNCHANGED proj
      BY <2>6 DEF ServicesTyped, ConfigType
    <2> QED BY <2>1, <2>2, <2>4, <2>5, <2>7, <2>8 DEF Down, Falls
  <1> QED BY <1>1, <1>2

LEMMA StartKinds ==
    ASSUME Typed, Threads
    PROVE  /\ Age => Ages
           /\ Boot => Boots
           /\ Expire => Expires
           /\ ExpireUnlink => Unlinks
           /\ ExpireRemove => Clears
           /\ ExpireMark => Lapses
  <1> USE Names DEF Typed
  <1>0. /\ Find \in AnyPath /\ Current \in AnyRecord /\ (Current \in Record => Find # "none")
        /\ lidarr \in LidarrType /\ proj \in ProjType /\ importer["worker"].path \in AnyPath
    BY FindFinds, ImporterFields DEF ServicesTyped
  <1>1. ASSUME Age
        PROVE  Ages
    <2>1. config' \in ConfigType /\ config'.old /\ config'.had = config.had
          /\ config'.lost = config.lost
      BY <1>1 DEF Age, ServicesTyped, ConfigType
    <2> QED BY <1>1, <2>1 DEF Age, Ages
  <1>2. ASSUME Boot
        PROVE  Boots
    <2>1. Moves("worker", "idle")
      BY <1>2, ImporterMoves DEF Boot
    <2>2. proj' \in ProjType /\ proj'.hold = proj.hold /\ proj'.hidden = proj.hidden
      BY <1>0, <1>2, ProjUpdates DEF Boot
    <2> QED BY <1>2, <2>1, <2>2 DEF Boot, Boots
  <1>3. ASSUME Expire
        PROVE  Expires
    <2>1. /\ At("worker", "down") /\ Overdue /\ Current \in Record /\ Find # "none"
          /\ UNCHANGED <<lock, discard, refresh, proj, config>>
      BY <1>0, <1>3, Values DEF Expire, Overdue
    <2>2. Turns("worker", "archived", importer["worker"].rec, Find, importer["worker"].outcome,
                importer["worker"].applied)
      BY <1>0, <1>3, ImporterMoves DEF Expire
    <2>3. PICK done \in BOOLEAN :
             /\ lidarr' = [lidarr EXCEPT !.blocklisted = _blocklist_grab(done, Current.blocklisted)]
             /\ Write("expired", [Current EXCEPT !.state = "expired", !.blocklisted = @ \/ done])
      BY <1>3 DEF Expire
    <2>4. [Current EXCEPT !.state = "expired", !.blocklisted = @ \/ done]
            = Closed(Current, "expired", done)
      <3> DEFINE c == Current.blocklisted \/ done
      <3>1. \A r \in Record, d \in BOOLEAN : [r EXCEPT !.state = "expired", !.blocklisted = d]
                                            = [r EXCEPT !.blocklisted = d, !.state = "expired"]
        BY DEF Record
      <3>2. c \in BOOLEAN
        OBVIOUS
      <3>3. /\ Closed(Current, "expired", done)
                 = [Current EXCEPT !.blocklisted = c, !.state = "expired"]
            /\ [Current EXCEPT !.state = "expired", !.blocklisted = @ \/ done]
                 = [Current EXCEPT !.state = "expired", !.blocklisted = c]
        BY DEF Closed
      <3> HIDE DEF c
      <3> QED BY <2>1, <3>1, <3>2, <3>3
    <2>5. Closed(Current, "expired", done) \in Record
      BY <2>1, RecordUpdates DEF States
    <2>6. Stores("expired", Closed(Current, "expired", done))
      BY <2>1, <2>3, <2>4, <2>5, WriteStores
    <2> DEFINE b == lidarr.blocklisted \/ (done /\ ~Current.blocklisted)
    <2>7. b \in BOOLEAN /\ lidarr' = [lidarr EXCEPT !.blocklisted = b]
      BY <2>3 DEF _blocklist_grab
    <2> HIDE DEF b
    <2>8. /\ Lidarr(lidarr.queue, lidarr.queued, lidarr.imported, lidarr.placed, b)
          /\ lidarr'.switched = lidarr.switched
      BY <2>7, LidarrUpdates DEF ServicesTyped
    <2> QED BY <2>1, <2>2, <2>6, <2>8 DEF Expires, b
  <1>4. ASSUME ExpireUnlink
        PROVE  Unlinks
    <2> DEFINE w == importer["worker"].path
    <2>1. /\ At("worker", "archived") /\ side' = [side EXCEPT ![w] = NoRecord]
          /\ UNCHANGED <<lock, discard, refresh, folder, config>>
      BY <1>4 DEF ExpireUnlink
    <2>2. Moves("worker", "unlinked")
      BY <1>4, ImporterMoves DEF ExpireUnlink
    <2>3. w \in AnyPath
      BY <1>0
    <2> HIDE DEF w
    <2>4. /\ DiskTyped'
          /\ w \in Places => side'[w] = NoRecord
          /\ \A v \in Places : v # w => side'[v] = side[v]
      BY <2>1, <2>3, Values DEF DiskTyped
    <2>5. /\ proj' \in ProjType
          /\ \E q \in BOOLEAN :
                /\ q => lidarr.queue
                /\ Unharmed' => ~q
                /\ Lidarr(q, lidarr.queued, lidarr.imported, lidarr.placed, lidarr.blocklisted)
                /\ lidarr'.switched = lidarr.switched
      <3>1. CASE lidarr' = [lidarr EXCEPT !.queue = FALSE]
                 /\ _hide_from_lidarr(TRUE)
        BY <1>0, <3>1, LidarrUpdates, ProjUpdates
      <3>2. CASE UNCHANGED <<lidarr, proj>> /\ Failure
        <4>1. lidarr.queue \in BOOLEAN
          BY <1>0 DEF LidarrType
        <4>2. ~Unharmed' /\ proj' \in ProjType
          BY <1>0, <3>2, FailureHarms
        <4>3. /\ Lidarr(lidarr.queue, lidarr.queued, lidarr.imported, lidarr.placed,
                        lidarr.blocklisted)
              /\ lidarr'.switched = lidarr.switched
          BY <1>0, <3>2, LidarrUpdates
        <4> QED BY <4>1, <4>2, <4>3
      <3> QED BY <1>4, <3>1, <3>2 DEF ExpireUnlink
    <2> QED BY <2>1, <2>2, <2>4, <2>5 DEF Unlinks, w
  <1>5. ASSUME ExpireRemove
        PROVE  Clears
    <2>1. Moves("worker", "removed")
      BY <1>5, ImporterMoves DEF ExpireRemove
    <2> QED BY <1>5, <2>1, FolderRemoved DEF ExpireRemove, Clears
  <1>6. ASSUME ExpireMark
        PROVE  Lapses
    <2>1. Resets("worker", "down") /\ proj' \in ProjType
      BY <1>0, <1>6, ImporterMoves, ProjUpdates DEF ExpireMark
    <2> QED BY <1>6, <2>1 DEF ExpireMark, Lapses
  <1> QED BY <1>1, <1>2, <1>3, <1>4, <1>5, <1>6

LEMMA StepKinds ==
    ASSUME Typed, Reads, Threads, [Next]_vars
    PROVE  Kinds
  <1> USE Names DEF Kinds
  <1>1. \A k \in Keys : Enqueue(k) \/ Fallback(k) => Kinds
    BY WaitKinds, TakeUpKinds
  <1>2. TryLock \/ verification_release_switch \/ Claim \/ Start \/ Acquire => Kinds
    BY WaitKinds, TakeUpKinds
  <1>3. Switch \/ Restore \/ CreateReview \/ _create_review_required => Kinds
    BY SwitchKinds, RestoreKinds, CreateKinds
  <1>4. \A p \in Importers : Import(p) => Kinds
    <2> SUFFICES ASSUME NEW p \in Importers, Import(p)
                 PROVE  Proceeds(p) \/ Promotes(p) \/ Finishes(p)
      OBVIOUS
    <2> QED BY ActKinds, LookupKinds, PostKinds, WaitingKinds, RescueKinds, FinishKinds DEF Import
  <1>5. RequestDiscard \/ Remove \/ Blocklist \/ Archive \/ MarkDiscarded => Kinds
    BY DiscardKinds
  <1>6. Reconcile \/ CountImported \/ CheckQueued => Kinds
    BY RefreshKinds
  <1>7. LidarrRuns \/ Stop \/ Crash => Kinds
    BY RunKinds
  <1>8. RequestCancel \/ RetryFallsDue \/ UNCHANGED vars => Kinds
    BY WaitKinds
  <1>9. Age \/ Boot \/ Expire \/ ExpireUnlink \/ ExpireRemove \/ ExpireMark => Kinds
    BY StartKinds
  <1> HIDE DEF Kinds
  <1> QED BY <1>1, <1>2, <1>3, <1>4, <1>5, <1>6, <1>7, <1>8, <1>9 DEF Next

\* Every step keeps count of what it uses up and cancels a job at a price.
Accounts == /\ Spends /\ JobsTypeOK'
            /\ \A j \in JobIds : jobs'[j].cancel => jobs[j].cancel \/ spent'.cancels # 0

LEMMA ImportAccounts ==
    ASSUME Typed, NEW p \in Importers, Import(p)
    PROVE  Spends /\ Uncancelled
  <1> USE DEF Typed
  <1>1. /\ \A t \in BOOLEAN : Raises(p, t) => Uncancelled
        /\ Cancelled(p) => Uncancelled /\ Works
        /\ mark_job_completed(importer[p].job) => Uncancelled
        /\ UNCHANGED jobs => Uncancelled
    <2>1. Cancelled(p) => Works
      BY DEF Cancelled, Works
    <2> QED BY <2>1, JobEnds, TableUpdates, ReviewLifecycleAssumption
  <1>2. (Works => Spends) /\ (Failure => Spends)
    BY SpentUpdates
  <1>3. Act(p) => Spends /\ Uncancelled
    <2>1. Act(p) => \/ Cancelled(p)
                    \/ Works /\ (UNCHANGED jobs \/ \E t \in BOOLEAN : Raises(p, t))
      BY DEF Act, Declined, Works
    <2> QED BY <1>1, <1>2, <2>1
  <1>4. Lookup(p) => Spends /\ Uncancelled
    BY <1>1, <1>2 DEF Lookup
  <1>5. Post(p) => Spends /\ Uncancelled
    BY <1>1, <1>2 DEF Post
  <1>6. Wait(p) => Spends /\ Uncancelled
    <2>1. Wait(p) => Cancelled(p) \/ ((Works \/ Failure) /\ UNCHANGED jobs)
      BY DEF Wait
    <2> QED BY <1>1, <1>2, <2>1
  <1>7. CheckPending(p) => Spends /\ Uncancelled
    <2>1. CheckPending(p) => (Works \/ Failure) /\ UNCHANGED jobs
      BY DEF CheckPending
    <2> QED BY <1>1, <1>2, <2>1
  <1>8. FailAndClean => Works \/ Failure
    BY DEF FailAndClean
  <1>9. Rescue(p) \/ Copy(p) \/ Rescan(p) => Spends /\ Uncancelled
    BY <1>1, <1>2, <1>8 DEF Rescue, Copy, Rescan
  <1>10. Finish(p) => Spends /\ Uncancelled
    <2>1. Finish(p) => Works /\ (mark_job_completed(importer[p].job) \/ UNCHANGED jobs)
      BY DEF Finish, Works
    <2> QED BY <1>1, <1>2, <2>1
  <1> QED BY <1>3, <1>4, <1>5, <1>6, <1>7, <1>9, <1>10 DEF Import

LEMMA StepAccounts ==
    ASSUME Typed, [Next]_vars
    PROVE  Accounts
  <1> USE DEF Typed
  <1>0. Spends /\ Uncancelled => Accounts
    BY DEF Accounts, Uncancelled
  <1>1. /\ Works => Spends
        /\ Request => Spends
        /\ Failure => Spends
        /\ Fault("crashes") => Spends
        /\ Fault("cancels") => Spends /\ spent'.cancels # 0
        /\ spent.restarts < MaxRestarts /\ spent' = [spent EXCEPT !.restarts = @ + 1] => Spends
    BY SpentUpdates
  <1>2. UNCHANGED jobs => Uncancelled
    BY TableUpdates, ReviewLifecycleAssumption
  <1>3. UNCHANGED vars \/ CreateReview \/ _create_review_required \/ TryLock => Accounts
    BY <1>0, <1>1, <1>2 DEF vars, CreateReview, _create_review_required, TryLock, Works
  <1>4. \A k \in Keys : Enqueue(k) \/ Fallback(k) => Accounts
    BY <1>0, <1>1, <1>2, TableUpdates DEF Enqueue, Fallback
  <1>5. verification_release_switch \/ Switch \/ Restore => Accounts
    <2>1. verification_release_switch \/ Switch \/ Restore =>
             (Request \/ Works \/ Failure) /\ UNCHANGED jobs
      BY DEF verification_release_switch, Switch, Restore
    <2> QED BY <1>0, <1>1, <1>2, <2>1
  <1>6. Claim \/ Start \/ Acquire => Accounts
    <2>1. "worker" \in Importers
      BY Names
    <2>2. Claim => Works /\ \E j \in JobIds : dequeue_next_job(j, Types)
      BY DEF Claim, Works
    <2>3. Start => Works /\ (mark_job_cancelled(importer["worker"].job) \/ UNCHANGED jobs)
      BY DEF Start, Works
    <2>4. Acquire => Works /\ (Raises("worker", FALSE) \/ UNCHANGED jobs)
      BY DEF Acquire, Works
    <2> QED BY <1>0, <1>1, <1>2, <2>1, <2>2, <2>3, <2>4, TableUpdates, JobEnds
  <1>7. \A p \in Importers : Import(p) => Accounts
    BY <1>0, ImportAccounts
  <1>8. RequestDiscard \/ Remove \/ Blocklist \/ Archive \/ MarkDiscarded => Accounts
    <2>1. RequestDiscard \/ Remove \/ Blocklist \/ Archive \/ MarkDiscarded =>
             (Request \/ Works \/ Failure) /\ UNCHANGED jobs
      BY DEF RequestDiscard, Remove, Blocklist, Archive, MarkDiscarded, Works
    <2> QED BY <1>0, <1>1, <1>2, <2>1
  <1>9. Reconcile \/ CountImported \/ CheckQueued => Accounts
    <2>1. Reconcile \/ CountImported \/ CheckQueued =>
             (Request \/ Works \/ Failure) /\ UNCHANGED jobs
      BY DEF Reconcile, CountImported, CheckQueued, FailAndClean
    <2> QED BY <1>0, <1>1, <1>2, <2>1
  <1>10. LidarrRuns \/ RetryFallsDue => Accounts
    BY <1>0, <1>1, <1>2, TableUpdates DEF LidarrRuns, RetryFallsDue, Works
  <1>11. RequestCancel => Accounts
    BY <1>1, TableUpdates DEF RequestCancel, Accounts
  <1>12. Stop \/ Crash => Accounts
    BY <1>0, <1>1, <1>2 DEF Stop, Crash, Down
  <1>13. Age \/ Expire \/ ExpireUnlink \/ ExpireRemove \/ ExpireMark => Accounts
    <2>1. Age \/ Expire \/ ExpireUnlink \/ ExpireRemove \/ ExpireMark =>
             (Works \/ Failure) /\ UNCHANGED jobs
      BY DEF Age, Expire, ExpireUnlink, ExpireRemove, ExpireMark, Works
    <2> QED BY <1>0, <1>1, <1>2, <2>1
  <1>14. Boot => Accounts
    BY <1>0, <1>1, TableUpdates, ReviewLifecycleAssumption DEF Boot, Works
  <1> QED BY <1>3, <1>4, <1>5, <1>6, <1>7, <1>8, <1>9, <1>10, <1>11, <1>12, <1>13, <1>14 DEF Next

-----------------------------------------------------------------------------
(* Type correctness *)

LEMMA DiskTypes ==
    ASSUME Typed, Kinds
    PROVE  DiskTyped'
  <1> USE DEF Typed
  <1>1. UNCHANGED <<side, folder>> => DiskTyped'
    BY DEF DiskTyped
  <1>2. \A w, r : Stores(w, r) => DiskTyped'
    BY DEF Stores
  <1>3. Waits \/ Switched \/ Restored \/ Opens \/ Holds => DiskTyped'
    BY <1>1, <1>2 DEF Waits, Switched, Restored, Opens, Holds
  <1>4. \A p \in Importers : TakesUp(p) \/ Proceeds(p) \/ Promotes(p) \/ Finishes(p) => DiskTyped'
    BY <1>1, <1>2 DEF TakesUp, Proceeds, Promotes, Finishes
  <1>5. Discards \/ Removes \/ Blocklists \/ Archives \/ Marks => DiskTyped'
    BY <1>1 DEF Discards, Removes, FolderGoes, Blocklists, Archives, Marks
  <1>6. Reconciles \/ Counts \/ Checks => DiskTyped'
    BY <1>1, <1>2 DEF Reconciles, Counts, Checks, Back
  <1>7. Runs => DiskTyped'
    BY DEF Runs, DiskTyped
  <1>8. Falls \/ Ages \/ Boots \/ Expires \/ Unlinks \/ Clears \/ Lapses => DiskTyped'
    BY <1>1, <1>2 DEF Falls, Ages, Boots, Expires, Unlinks, Clears, FolderGoes, Lapses
  <1> QED BY <1>3, <1>4, <1>5, <1>6, <1>7, <1>8 DEF Kinds

LEMMA ThreadTypes ==
    ASSUME Typed, Kinds
    PROVE  ThreadsTyped'
  <1> USE DEF Typed
  <1> DEFINE I == importer' \in [Importers -> Importer]
             L == lock' \in Importers \cup {"free"}
             D == discard' \in Discard
             R == refresh' \in Refresh
  <1>1. /\ \A p, c, r, w, o, A : Turns(p, c, r, w, o, A) => I
        /\ \A p, c : Moves(p, c) => I
        /\ \A p, c : Resets(p, c) => I
        /\ \A A : Keeps(A) => I
        /\ UNCHANGED importer => I
    BY DEF Turns, Moves, Resets, Keeps, ThreadsTyped
  <1>2. UNCHANGED lock => L
    BY DEF ThreadsTyped
  <1>3. lock' \in {"free", "http", "worker"} => L
    BY Names
  <1>4. /\ \A c, r, w : TurnsDiscard(c, r, w) => D
        /\ UNCHANGED discard => D
        /\ discard' = NoReader => D
    BY ReaderFields DEF TurnsDiscard, ThreadsTyped
  <1>5. /\ \A c, r, w : TurnsRefresh(c, r, w) => R
        /\ UNCHANGED refresh => R
        /\ refresh' = NoReader => R
    BY ReaderFields DEF TurnsRefresh, ThreadsTyped
  <1> HIDE DEF I, L, D, R
  <1>6. Waits \/ Opens \/ Holds => I /\ L /\ D /\ R
    BY <1>1, <1>2, <1>3, <1>4, <1>5 DEF Waits, Opens, Holds
  <1>7. Switched \/ Restored => I /\ L /\ D /\ R
    BY <1>1, <1>2, <1>3, <1>4, <1>5 DEF Switched, Restored
  <1>8. \A p \in Importers : TakesUp(p) \/ Promotes(p) => I /\ L /\ D /\ R
    BY <1>1, <1>2, <1>3, <1>4, <1>5 DEF TakesUp, Promotes
  <1>9. \A p \in Importers : Proceeds(p) \/ Finishes(p) => I /\ L /\ D /\ R
    BY <1>1, <1>2, <1>3, <1>4, <1>5 DEF Proceeds, Advances, Aborts, Reports, Finishes
  <1>10. Discards \/ Removes \/ Blocklists \/ Archives \/ Marks => I /\ L /\ D /\ R
    BY <1>1, <1>2, <1>4, <1>5 DEF Discards, Removes, Blocklists, Archives, Marks
  <1>11. Reconciles \/ Counts \/ Checks \/ Runs => I /\ L /\ D /\ R
    BY <1>1, <1>2, <1>4, <1>5 DEF Reconciles, Counts, Checks, Runs
  <1>12. Falls => I /\ L /\ D /\ R
    BY <1>3, <1>4, <1>5 DEF Falls, I
  <1>13. Ages \/ Boots \/ Expires \/ Unlinks \/ Clears \/ Lapses => I /\ L /\ D /\ R
    BY <1>1, <1>2, <1>4, <1>5 DEF Ages, Boots, Expires, Unlinks, Clears, Lapses
  <1>14. I /\ L /\ D /\ R
    BY <1>6, <1>7, <1>8, <1>9, <1>10, <1>11, <1>12, <1>13 DEF Kinds
  <1> QED BY <1>14 DEF ThreadsTyped, I, L, D, R

LEMMA ServiceTypes ==
    ASSUME Typed, Kinds
    PROVE  ServicesTyped'
  <1> USE DEF Typed
  <1> DEFINE P == proj' \in ProjType
             L == lidarr' \in LidarrType
             C == config' \in ConfigType
  <1>1. /\ UNCHANGED proj => P
        /\ UNCHANGED lidarr => L
        /\ UNCHANGED config => C
    BY DEF ServicesTyped
  <1>2. \A a, b, c, d, e : Lidarr(a, b, c, d, e) => L
    BY DEF Lidarr
  <1>3. LidarrElse => L
    BY DEF LidarrElse
  <1>4. Waits \/ Opens \/ Switched \/ Restored => P /\ L /\ C
    BY <1>1, <1>3 DEF Waits, Opens, Switched, Restored
  <1>5. Holds => P /\ L /\ C
    BY <1>1, <1>2 DEF Holds
  <1>6. \A p \in Importers : TakesUp(p) \/ Promotes(p) \/ Proceeds(p) \/ Finishes(p) => P /\ L /\ C
    BY <1>1 DEF TakesUp, Promotes, Proceeds, Finishes
  <1>7. Discards \/ Removes \/ Archives \/ Marks => P /\ L /\ C
    BY <1>1 DEF Discards, Removes, Archives, Marks
  <1>8. Blocklists => P /\ L /\ C
    BY <1>1, <1>2 DEF Blocklists
  <1>9. Reconciles \/ Counts \/ Checks \/ Runs => P /\ L /\ C
    BY <1>1, <1>2 DEF Reconciles, Counts, Checks, Runs
  <1>10. Falls \/ Ages \/ Boots \/ Expires \/ Unlinks \/ Clears \/ Lapses => P /\ L /\ C
    BY <1>1, <1>2 DEF Falls, Ages, Boots, Expires, Unlinks, Clears, Lapses
  <1>11. P /\ L /\ C
    BY <1>4, <1>5, <1>6, <1>7, <1>8, <1>9, <1>10 DEF Kinds
  <1> QED BY <1>11 DEF ServicesTyped

LEMMA StepTypes ==
    ASSUME Typed, Kinds, Accounts
    PROVE  Typed'
  <1>1. JobsTypeOK' /\ spent' \in SpentType
    BY DEF Accounts, Spends
  <1> QED BY <1>1, DiskTypes, ThreadTypes, ServiceTypes DEF Typed

LEMMA InitTyped ==
    ASSUME Init
    PROVE  Typed
  <1>1. JobsTypeOK
    BY NewRowTypes DEF Init, JobsInit, JobsTypeOK
  <1>2. spent \in SpentType
    BY ReviewLifecycleAssumption DEF Init, SpentType
  <1>3. PICK first \in {"review", "FAILED", "PENDING"}, d \in {"ACCEPT", "ACCEPT_PROVISIONAL"} :
           /\ importer = [p \in Importers |-> ImporterAt(IF p = "worker" /\ first = "review"
                                                         THEN "reviewing" ELSE "idle")]
           /\ side = [w \in Places |-> IF w = "out" /\ first # "review"
                                       THEN NewRecord(d, first, "created") ELSE NoRecord]
           /\ proj = [status |-> IF first = "FAILED" THEN "failed" ELSE "processing",
                      hold |-> FALSE, hidden |-> first = "FAILED"]
           /\ lidarr = [queue |-> first # "FAILED", queued |-> first = "PENDING",
                        imported |-> FALSE, placed |-> FALSE, blocklisted |-> FALSE,
                        switched |-> {}]
    BY DEF Init
  <1>4. first # "review" => NewRecord(d, first, "created") \in Record
    BY DEF NewRecord, NoRecord, Record
  <1>5. DiskTyped
    BY <1>3, <1>4, Values, Names DEF DiskTyped, Init
  <1>6. \A c \in {"reviewing", "idle"} : ImporterAt(c) \in Importer
    BY FreshImporter, Names
  <1>7. importer \in [Importers -> Importer]
    BY <1>3, <1>6
  <1>8. NoReader \in Discard /\ NoReader \in Refresh
    BY DEF NoReader, Discard, Refresh, Reader
  <1>9. ThreadsTyped
    BY <1>7, <1>8 DEF Init, ThreadsTyped
  <1>10. config \in ConfigType
    BY DEF Init, ConfigType
  <1>11. proj \in ProjType /\ lidarr \in LidarrType
    BY <1>3 DEF ProjType, LidarrType
  <1> QED BY <1>1, <1>2, <1>5, <1>9, <1>10, <1>11 DEF Typed, ServicesTyped

LEMMA StepReads ==
    ASSUME Typed, Reads, Kinds
    PROVE  Reads'
  <1> USE Names DEF Typed
  <1> DEFINE H(m) == Holding(m.pc, m.rec, m.path, m.outcome)
             I == \A q \in Importers : H(importer'[q])
             D == discard'.pc # "idle" => discard'.rec \in Record /\ discard'.path \in Places
             R == refresh'.pc # "idle" => refresh'.rec \in Record
  <1>0. /\ \A q \in Importers : H(importer[q])
        /\ discard.pc # "idle" => discard.rec \in Record /\ discard.path \in Places
        /\ refresh.pc # "idle" => refresh.rec \in Record
    BY DEF Reads
  <1>1. /\ UNCHANGED importer => I
        /\ UNCHANGED discard => D
        /\ UNCHANGED refresh => R
    BY <1>0
  <1>2. /\ \A p \in Importers : \A c, r, w, o, A :
              Turns(p, c, r, w, o, A) /\ Holding(c, r, w, o) => I
    BY <1>0 DEF Turns
  <1>3. \A c, r, w, o : c \notin Reading => Holding(c, r, w, o)
    BY DEF Holding, Reading, Started
  <1>4. \A p \in Importers : \A c, r, w, o, A : c \notin Reading /\ Turns(p, c, r, w, o, A) => I
    BY <1>2, <1>3
  <1>5. /\ \A p \in Importers : \A c : c \notin Reading /\ (Moves(p, c) \/ Resets(p, c)) => I
        /\ \A A : Keeps(A) => I
    <2>1. \A A : Keeps(A) => I
      BY <1>0, <1>2 DEF Keeps
    <2> QED BY <1>4, <2>1 DEF Moves, Resets
  <1>6. {"idle", "claimed", "waiting", "reviewing", "restoring", "down", "archived", "unlinked",
         "removed"} \cap Reading = {}
    BY DEF Reading, Started
  <1>7. \A w \in Places : side[w] \in AnyRecord
    BY DEF DiskTyped
  <1>8. Find # "none" => Current \in Record /\ Find \in Places
    BY FindFinds
  <1>9. /\ \A c, r, w : TurnsDiscard(c, r, w) /\ r \in Record /\ w \in Places => D
        /\ \A r, w : TurnsDiscard("idle", r, w) => D
        /\ \A c, r, w : TurnsRefresh(c, r, w) /\ r \in Record => R
        /\ \A r, w : TurnsRefresh("idle", r, w) => R
        /\ discard' = NoReader => D
        /\ refresh' = NoReader => R
    BY ReaderFields DEF TurnsDiscard, TurnsRefresh
  <1> HIDE DEF I, D, R
  <1>10. ASSUME Waits
         PROVE  I /\ D /\ R
    <2>1. At("http", "unlocked") /\ Moves("http", "act") => I
      <3> HAVE At("http", "unlocked") /\ Moves("http", "act")
      <3>1. Holding("unlocked", importer["http"].rec, importer["http"].path,
                    importer["http"].outcome)
        BY <1>0 DEF At
      <3>2. Holding("act", importer["http"].rec, importer["http"].path, importer["http"].outcome)
        BY <3>1 DEF Holding, Reading, Started
      <3> QED BY <1>2, <3>2 DEF Moves
    <2> QED BY <1>1, <1>5, <1>6, <1>10, <2>1 DEF Waits
  <1>11. ASSUME NEW p \in Importers, TakesUp(p)
         PROVE  I /\ D /\ R
    <2>1. \A c \in {"unlocked", "switch", "act"} : \A o : Holding(c, Current, Find, o)
      BY <1>8, <1>11 DEF TakesUp, Holding, Started
    <2> QED BY <1>1, <1>2, <1>11, <2>1 DEF TakesUp
  <1>12. ASSUME Switched
         PROVE  I /\ D /\ R
    <2> DEFINE m == importer["http"]
    <2>1. m.pc = "switch" /\ H(m)
      BY <1>0, <1>12 DEF Switched, At
    <2>2. \A c \in {"switch", "act", "restoring"} : Holding(c, m.rec, m.path, m.outcome)
      BY <2>1 DEF Holding, Reading, Started
    <2> QED BY <1>1, <1>2, <1>12, <2>2 DEF Switched
  <1>13. Restored => I /\ D /\ R
    BY <1>1, <1>5, <1>6 DEF Restored
  <1>14. Opens \/ Holds => I /\ D /\ R
    BY <1>1, <1>4, <1>5, <1>6 DEF Opens, Holds
  <1>15. ASSUME NEW p \in Importers, Proceeds(p)
         PROVE  I /\ D /\ R
    <2> DEFINE m == importer[p]
    <2>1. m.pc \in Reading \ {"finish"} /\ H(m)
      BY <1>0, <1>15 DEF Proceeds, Reading, Started
    <2>2. m.rec \in Record /\ m.path \in Places
      BY <2>1 DEF Holding
    <2>3. CASE Aborts(p)
      BY <1>5, <1>6, <2>3, <1>1, <1>15 DEF Aborts, Proceeds
    <2>4. CASE /\ m.rec.decision \in Accepts
               /\ \E c \in Started \ {"finish"} : Moves(p, c)
      <3>1. \A c \in Started \ {"finish"} : Holding(c, m.rec, m.path, m.outcome)
        BY <2>2, <2>4 DEF Holding
      <3> QED BY <1>1, <1>2, <1>15, <2>4, <3>1 DEF Moves, Proceeds
    <2>5. CASE m.rec.decision \in Accepts /\ \E o \in Outcomes : Reports(p, o)
      <3>1. \A o \in Outcomes : Holding("finish", m.rec, m.path, o)
        BY <2>2, <2>5 DEF Holding, Outcomes
      <3> QED BY <1>1, <1>2, <1>15, <2>5, <3>1 DEF Reports, Proceeds
    <2>6. CASE Imported(m.rec) /\ Turns(p, "finish", m.rec, "none", m.rec.outcome, m.applied)
      <3>1. Holding("finish", m.rec, "none", m.rec.outcome)
        BY <2>2, <2>6 DEF Holding, Imported
      <3> QED BY <1>1, <1>2, <1>15, <2>6, <3>1 DEF Proceeds
    <2>7. Advances(p)
      BY <1>15 DEF Proceeds
    <2> QED BY <2>3, <2>4, <2>5, <2>6, <2>7 DEF Advances
  <1>16. ASSUME NEW p \in Importers, Promotes(p)
         PROVE  I /\ D /\ R
    <2> DEFINE m == importer[p]
    <2>1. m.rec \in Record /\ m.path \in Places
      BY <1>0, <1>16 DEF Promotes, At, Holding, Reading, Started
    <2>2. Promoted(m.rec) \in Record /\ Promoted(m.rec).decision \in Accepts
      BY <2>1, RecordUpdates DEF Accepts
    <2>3. Holding("lookup", Promoted(m.rec), m.path, m.outcome)
      BY <2>1, <2>2 DEF Holding, Started
    <2> QED BY <1>1, <1>2, <1>16, <2>3 DEF Promotes
  <1>17. \A p \in Importers : Finishes(p) => I /\ D /\ R
    BY <1>1, <1>5, <1>6 DEF Finishes
  <1>18. Discards \/ Removes \/ Archives \/ Marks => I /\ D /\ R
    BY <1>0, <1>1, <1>8, <1>9 DEF Discards, Removes, Archives, Marks
  <1>19. ASSUME Blocklists
         PROVE  I /\ D /\ R
    <2>1. discard.rec \in Record /\ discard.path \in Places
      BY <1>0, <1>19 DEF Blocklists
    <2>2. \A b \in BOOLEAN : Closed(discard.rec, "discarded", b) \in Record
      BY <2>1, RecordUpdates DEF States
    <2> QED BY <1>1, <1>9, <1>19, <2>1, <2>2 DEF Blocklists
  <1>20. Reconciles \/ Counts \/ Checks => I /\ D /\ R
    BY <1>0, <1>1, <1>8, <1>9 DEF Reconciles, Counts, Checks
  <1>21. Runs \/ Ages => I /\ D /\ R
    BY <1>1 DEF Runs, Ages
  <1>22. Falls => I /\ D /\ R
    <2>1. H(ImporterAt("down")) /\ H(ImporterAt("idle"))
      BY <1>3, <1>6, FreshImporter
    <2> QED BY <1>9, <2>1 DEF Falls, I
  <1>23. Boots \/ Expires \/ Unlinks \/ Clears \/ Lapses => I /\ D /\ R
    BY <1>1, <1>4, <1>5, <1>6 DEF Boots, Expires, Unlinks, Clears, Lapses
  <1>24. I /\ D /\ R
    BY <1>10, <1>11, <1>12, <1>13, <1>14, <1>15, <1>16, <1>17, <1>18, <1>19, <1>20, <1>21,
       <1>22, <1>23 DEF Kinds
  <1> QED BY <1>24 DEF Reads, I, D, R

\* An importer at rest.
LEMMA Resting ==
    /\ ImporterAt("idle").pc = "idle" /\ ImporterAt("idle").rec = NoRecord
    /\ ImporterAt("idle").path = "none" /\ ImporterAt("idle").outcome = "none"
    /\ ImporterAt("idle").applied = {}
    /\ ImporterAt("down").pc = "down" /\ ImporterAt("down").rec = NoRecord
    /\ ImporterAt("down").path = "none" /\ ImporterAt("down").outcome = "none"
    /\ ImporterAt("down").applied = {}
    /\ NoReader.pc = "idle" /\ NoReader.rec = NoRecord /\ NoReader.path = "none"
  BY DEF ImporterAt, NoReader

LEMMA StepThreads ==
    ASSUME Typed, Reads, Threads, Kinds
    PROVE  Threads'
  <1> USE Names, Resting DEF Threads, Creating, At, Up
  <1>0. Find # "none" => \E w \in Places : side[w] # NoRecord
    BY FindFinds DEF Typed
  <1>1. ASSUME Waits
        PROVE  Threads'
    <2>1. CASE UNCHANGED <<importer, lock>>
      BY <1>1, <2>1 DEF Waits
    <2>2. CASE At("http", "unlocked") /\ lock = "free" /\ lock' = "http" /\ Moves("http", "act")
      BY <1>1, <2>2 DEF Waits, Moves, Turns
    <2>3. CASE At("http", "unlocked") /\ UNCHANGED lock /\ lock # "free" /\ Resets("http", "idle")
      BY <1>1, <2>3 DEF Waits, Resets, Turns
    <2>4. CASE /\ importer["worker"].pc \in {"idle", "claimed", "waiting"} /\ UNCHANGED lock
               /\ \/ Resets("worker", "claimed") \/ Resets("worker", "idle")
                  \/ Moves("worker", "waiting")
      BY <1>1, <2>4 DEF Waits, Resets, Moves, Turns
    <2> QED BY <1>1, <2>1, <2>2, <2>3, <2>4 DEF Waits
  <1>2. ASSUME NEW p \in Importers, TakesUp(p)
        PROVE  Threads'
    <2>1. UNCHANGED <<discard, refresh, side, folder, proj, lidarr, config>> /\ Up
          /\ \E w \in Places : side[w] # NoRecord
      BY <1>0, <1>2 DEF TakesUp
    <2>2. CASE p = "http"
      BY <1>2, <2>1, <2>2 DEF TakesUp, Turns
    <2>3. CASE p = "worker"
      BY <1>2, <2>1, <2>3 DEF TakesUp, Turns
    <2> QED BY <2>2, <2>3
  <1>3. ASSUME Switched
        PROVE  Threads'
    BY <1>3 DEF Switched, Turns
  <1>4. ASSUME Restored
        PROVE  Threads'
    BY <1>4 DEF Restored, Keeps, Resets, Turns
  <1>5. ASSUME Opens
        PROVE  Threads'
    BY <1>5, ReviewRecordIs DEF Opens, Turns
  <1>6. ASSUME Holds
        PROVE  Threads'
    BY <1>6 DEF Holds, Resets, Turns
  <1>7. ASSUME NEW p \in Importers, Proceeds(p)
        PROVE  Threads'
    <2>1. importer[p].pc \in {"act", "lookup", "post", "wait", "pending", "rescue", "copy", "rescan"}
          /\ UNCHANGED <<discard, refresh, side>>
      BY <1>7 DEF Proceeds, Started
    <2>2. \E c \in {"idle", "restoring"} \cup Started :
             /\ \/ p = "worker" /\ c = "idle"
                \/ p = "http" /\ c = "restoring"
                \/ c \in Started
             /\ importer'[p].pc = c
             /\ \A q \in Importers : q # p => importer'[q] = importer[q]
      BY <1>7 DEF Proceeds, Advances, Aborts, Reports, Moves, Resets, Turns, Started
    <2>3. ~Creating /\ Up
      BY <2>1
    <2>4. ~Creating' /\ Up'
      BY <2>2, <2>3 DEF Started
    <2> QED BY <2>1, <2>2, <2>3, <2>4 DEF Started
  <1>8. ASSUME NEW p \in Importers, Promotes(p) \/ Finishes(p)
        PROVE  Threads'
    <2>1. importer[p].pc \in {"act", "finish"} /\ UNCHANGED <<discard, refresh>>
      BY <1>8 DEF Promotes, Finishes
    <2>2. \E c \in {"lookup", "idle", "restoring"} :
             /\ p = "worker" => c # "restoring"
             /\ importer'[p].pc = c
             /\ \A q \in Importers : q # p => importer'[q] = importer[q]
      BY <1>8 DEF Promotes, Finishes, Moves, Resets, Turns
    <2>3. ~Creating /\ Up
      BY <2>1
    <2>4. ~Creating' /\ Up'
      BY <2>2, <2>3
    <2> QED BY <2>1, <2>2, <2>3, <2>4
  <1>9. ASSUME Discards
        PROVE  Threads'
    BY <1>0, <1>9 DEF Discards
  <1>10. ASSUME Removes \/ Blocklists \/ Archives \/ Marks
         PROVE  Threads'
    <2>1. UNCHANGED <<importer, lock, refresh>> /\ discard.pc # "idle"
      BY <1>10 DEF Removes, Blocklists, Archives, Marks
    <2> QED BY <2>1
  <1>11. ASSUME Reconciles \/ Counts \/ Checks
         PROVE  Threads'
    <2>1. /\ UNCHANGED <<importer, lock, discard>>
          /\ refresh.pc # "idle" \/ (Up /\ UNCHANGED side /\ Find # "none")
      BY <1>11 DEF Reconciles, Counts, Checks
    <2> QED BY <1>0, <2>1
  <1>12. ASSUME Runs \/ Ages
         PROVE  Threads'
    BY <1>12 DEF Runs, Ages
  <1>13. ASSUME Falls
         PROVE  Threads'
    BY <1>13 DEF Falls
  <1>14. ASSUME Boots
         PROVE  Threads'
    BY <1>14 DEF Boots, Moves, Turns
  <1>15. ASSUME Expires \/ Unlinks \/ Clears \/ Lapses
         PROVE  Threads'
    <2>1. /\ importer["worker"].pc \in {"down", "archived", "unlinked", "removed"}
          /\ UNCHANGED <<discard, refresh, lock>>
          /\ importer'["worker"].pc \in {"down", "archived", "unlinked", "removed"}
          /\ importer'["worker"].pc = "down" => importer'["worker"].path = "none"
          /\ importer'["http"] = importer["http"]
      BY <1>15 DEF Expires, Unlinks, Clears, Lapses, Moves, Resets, Turns
    <2> QED BY <2>1
  <1> QED BY <1>1, <1>2, <1>3, <1>4, <1>5, <1>6, <1>7, <1>8, <1>9, <1>10, <1>11, <1>12, <1>13,
             <1>14, <1>15 DEF Kinds

LEMMA InitThreads ==
    ASSUME Init
    PROVE  Reads /\ Threads
  <1> USE Names, Resting
  <1>1. /\ \A p \in Importers : importer[p] \in {ImporterAt("reviewing"), ImporterAt("idle")}
        /\ importer["http"] = ImporterAt("idle")
        /\ discard = NoReader /\ refresh = NoReader /\ lock = "free"
        /\ importer["worker"].pc = "reviewing" => \A w \in Places : side[w] = NoRecord
    <2>1. PICK first \in {"review", "FAILED", "PENDING"}, d \in {"ACCEPT", "ACCEPT_PROVISIONAL"} :
             /\ importer = [p \in Importers |-> ImporterAt(IF p = "worker" /\ first = "review"
                                                           THEN "reviewing" ELSE "idle")]
             /\ side = [w \in Places |-> IF w = "out" /\ first # "review"
                                         THEN NewRecord(d, first, "created") ELSE NoRecord]
      BY DEF Init
    <2>2. discard = NoReader /\ refresh = NoReader /\ lock = "free"
      BY DEF Init
    <2> QED BY <2>1, <2>2
  <1>2. /\ ImporterAt("reviewing").pc = "reviewing" /\ ImporterAt("reviewing").path = "none"
    BY FreshImporter
  <1>3. \A p \in Importers : importer[p].pc \in {"reviewing", "idle"} /\ importer[p].path = "none"
    BY <1>1, <1>2
  <1>4. Reads
    BY <1>1, <1>3 DEF Reads, Holding, Reading, Started
  <1>5. Threads
    BY <1>1, <1>3 DEF Threads, Creating, At, Up
  <1> QED BY <1>4, <1>5

\* What the other invariants start from.
Base == Typed /\ Reads /\ Threads

LEMMA InitBase ==
    ASSUME Init
    PROVE  Base
  BY InitTyped, InitThreads DEF Base

LEMMA StepBase ==
    ASSUME Base, [Next]_vars
    PROVE  Base' /\ Kinds /\ Accounts
  BY StepKinds, StepAccounts, StepTypes, StepReads, StepThreads DEF Base

\* The type invariant of the review lifecycle: whatever interleaving of the
\* worker, the importing request, a discard, a reconciliation, Lidarr, crashes and
\* restarts, every thread's locals and every record stay well-formed, and a record
\* in the output folder means that the folder exists (server.py _atomic_write_json,
\* _safe_rmtree_under).
THEOREM ReviewTypeOK == Spec => []TypeOK
  <1>1. Init => Base
    BY InitBase
  <1>2. Base /\ [Next]_vars => Base'
    BY StepBase
  <1>3. Base => TypeOK
    BY TypeParts DEF Base
  <1> QED BY <1>1, <1>2, <1>3, PTL DEF Spec

-----------------------------------------------------------------------------
(* The inductive invariant *)

\* The release came into the library, or was there before.
Came == lidarr.imported \/ lidarr.placed \/ config.had

\* What any copy of the record, on disk or in a thread, may claim.
Sound(r) ==
    /\ r.blocklisted => lidarr.blocklisted
    /\ Imported(r) => Came
    /\ r.state = "pending_review" => r.decision = "REVIEW_REQUIRED"
    /\ folder = "audio" =>
          /\ r.decision = "REVIEW_REQUIRED" =>
                r.outcome = "PENDING" /\ r.state \in {"pending_review", "expired"}
          /\ r.decision \in Accepts => r.state \in {"created", "promoted"}
          /\ r.outcome = "RESCUED" => lidarr.placed
          /\ r.outcome = "MANUAL_IMPORTED" => config.had
RecordsSound ==
    /\ \A w \in Places : Sound(side[w])
    /\ \A p \in Importers : Sound(importer[p].rec)
    /\ Sound(discard.rec)
    /\ Sound(refresh.rec)
    /\ folder = "audio" => /\ side["out"].state # "expired"
                           /\ Creating => importer["worker"].rec.state # "expired"

\* An importer's outcome has its evidence.
Evident ==
    /\ folder = "audio" => ~lidarr.imported
    /\ \A p \in Importers :
          /\ importer[p].pc = "rescan" => lidarr.placed
          /\ importer[p].outcome \in {"MANUAL_IMPORTED", "RESCUED"} => Came
          /\ folder = "audio" => /\ importer[p].outcome = "RESCUED" => lidarr.placed
                                 /\ importer[p].outcome = "MANUAL_IMPORTED" => config.had

\* As long as there are files, nothing is archived as discarded.
FilesHeld ==
    folder = "audio" =>
        /\ side["discarded"] = NoRecord
        /\ discard.pc \in {"idle", "remove"}
        /\ discard.path # "discarded" /\ refresh.path # "discarded"
        /\ \A p \in Importers : importer[p].path # "discarded"

\* An expired release: what its archive holds, and who still knows of it.
Dead(r) == r.state = "expired" /\ r.decision = "REVIEW_REQUIRED"
Gone == \/ side["expired"] # NoRecord
        \/ discard.path = "expired" \/ refresh.path = "expired"
        \/ \E p \in Importers : importer[p].path = "expired"
ExpiredIsDead ==
    /\ side["expired"] # NoRecord => Dead(side["expired"])
    /\ \A p \in Importers : importer[p].path = "expired" => Dead(importer[p].rec)
    /\ refresh.path = "expired" => Dead(refresh.rec)

\* Once it has expired nobody writes to the output folder any more: what is left
\* there is a review whose expiry a crash interrupted.
Alone ==
    /\ side["out"] # NoRecord =>
          /\ importer["worker"].pc \in {"down", "archived"} /\ config.old
          /\ side["out"].decision = "REVIEW_REQUIRED"
          /\ side["out"].state = "pending_review"
          /\ At("worker", "archived") => importer["worker"].path = "out"
    /\ ~Creating
    /\ importer["http"].path # "out" /\ discard.path # "out" /\ refresh.path # "out"
    /\ importer["worker"].path = "out" => ~Up
    /\ refresh.pc # "idle" /\ refresh.path = "none" /\ side["discarded"] = NoRecord
          => Dead(refresh.rec)
ExpiredAlone == Gone => Alone
Expiring ==
    /\ importer["worker"].pc \in {"archived", "unlinked", "removed"} => side["expired"] # NoRecord
    /\ At("worker", "archived") => importer["worker"].path \in {"out", "discarded"}

\* While a release with files is under review, or has expired, nobody imports it.
Untouched ==
    folder = "audio" /\ (Creating \/ side["out"].decision = "REVIEW_REQUIRED" \/ Gone) =>
        /\ ~lidarr.queued
        /\ side["out"].decision \notin Accepts
        /\ \A p \in Importers : importer[p].rec.decision \notin Accepts
        /\ refresh.rec.decision \notin Accepts

\* There is a record, but for the time before the review is written and within
\* a discard.
Unwritten == Creating /\ lock = "free"
Present ==
    /\ folder = "audio" /\ ~Unwritten => side["out"] # NoRecord \/ side["expired"] # NoRecord
    /\ Current = NoRecord /\ spent.crashes = 0 /\ ~Unwritten =>
          discard.pc \in {"blocklist", "archive"}

\* A review is on hold, and visible unless a job was cancelled.
OnHold ==
    /\ Creating /\ folder = "audio" => lidarr.queue
    /\ folder = "audio" /\ ~Creating /\ side["out"].decision = "REVIEW_REQUIRED"
       /\ ~config.lost =>
          /\ proj.hold
          /\ spent.cancels = 0 => ~proj.hidden /\ lidarr.queue
    /\ \A j \in JobIds : jobs[j].cancel => spent.cancels # 0

\* Without a failure, what is archived has left Lidarr's queue and the disk.
InArchive == \/ side["discarded"] # NoRecord \/ discard.pc \in {"archive", "mark"}
             \/ discard.path = "discarded" \/ refresh.path = "discarded"
             \/ \E p \in Importers : importer[p].path = "discarded"
Cleaned ==
    Unharmed =>
        /\ InArchive => ~lidarr.queue
        /\ Gone => /\ At("worker", "archived") \/ ~lidarr.queue
                   /\ importer["worker"].pc \in {"archived", "unlinked"} \/ folder # "audio"

\* Without a failure, the request knows every switch that is to be undone.
Switches ==
    /\ Unharmed /\ ~Came => lidarr.switched \subseteq importer["http"].applied
    /\ importer["http"].pc \in {"idle", "unlocked"} => importer["http"].applied = {}

-----------------------------------------------------------------------------
(* Every step keeps it *)

\* What never comes back: a blocklisting, an import and a placing stay, the
\* grab does not return to Lidarr's queue nor the files to the folder.
Monotonic ==
    /\ lidarr.blocklisted => lidarr'.blocklisted
    /\ lidarr.imported => lidarr'.imported
    /\ lidarr.placed => lidarr'.placed
    /\ lidarr'.queue => lidarr.queue
    /\ config'.had = config.had
    /\ config.old => config'.old
    /\ config.lost => config'.lost
    /\ folder' = "audio" => folder = "audio"

LEMMA StepMonotonic ==
    ASSUME Base, Kinds
    PROVE  Monotonic
  <1> USE DEF Monotonic
  <1>1. Waits \/ Switched \/ Restored => Monotonic
    BY DEF Waits, Switched, Restored, LidarrElse
  <1>2. Opens \/ Holds => Monotonic
    BY DEF Opens, Holds, Stores, Lidarr
  <1>3. \A p \in Importers : TakesUp(p) \/ Proceeds(p) \/ Promotes(p) \/ Finishes(p) => Monotonic
    BY DEF TakesUp, Proceeds, Promotes, Finishes, Stores
  <1>4. Discards \/ Removes \/ Blocklists \/ Archives \/ Marks => Monotonic
    BY DEF Discards, Removes, FolderGoes, Blocklists, Archives, Marks, Lidarr
  <1>5. Reconciles \/ Counts \/ Checks => Monotonic
    BY DEF Reconciles, Counts, Checks, Back, Stores, Lidarr
  <1>6. Runs \/ Falls \/ Ages \/ Boots => Monotonic
    BY DEF Runs, Falls, Ages, Boots
  <1>7. Expires \/ Unlinks \/ Clears \/ Lapses => Monotonic
    BY DEF Expires, Unlinks, Clears, FolderGoes, Lapses, Stores, Lidarr
  <1> HIDE DEF Monotonic
  <1> QED BY <1>1, <1>2, <1>3, <1>4, <1>5, <1>6, <1>7 DEF Kinds

LEMMA StepFilesHeld ==
    ASSUME Base, FilesHeld, Kinds
    PROVE  FilesHeld'
  <1> USE Names, Resting DEF FilesHeld, Base
  <1>0. Find = "discarded" => side["discarded"] # NoRecord
    BY FindFinds DEF Typed
  <1>1. Waits \/ Switched \/ Restored => FilesHeld'
    BY DEF Waits, Switched, Restored, Moves, Resets, Keeps, Turns
  <1>2. Opens \/ Holds => FilesHeld'
    BY DEF Opens, Holds, Stores, Resets, Turns
  <1>3. \A p \in Importers : TakesUp(p) => FilesHeld'
    BY <1>0 DEF TakesUp, Turns
  <1>4. \A p \in Importers : Proceeds(p) => FilesHeld'
    <2> SUFFICES ASSUME NEW p \in Importers, Proceeds(p)
                 PROVE  FilesHeld'
      OBVIOUS
    <2>1. /\ UNCHANGED <<discard, refresh, side, folder>>
          /\ \A q \in Importers : importer'[q].path \in {importer[q].path, "none"}
      BY DEF Proceeds, Advances, Aborts, Reports, Moves, Resets, Turns
    <2> QED BY <2>1
  <1>5. \A p \in Importers : Promotes(p) \/ Finishes(p) => FilesHeld'
    BY DEF Promotes, Finishes, Stores, Moves, Resets, Turns
  <1>6. Discards \/ Removes \/ Blocklists \/ Archives \/ Marks => FilesHeld'
    BY <1>0 DEF Discards, Removes, FolderGoes, Blocklists, Archives, Marks, TurnsDiscard
  <1>7. Reconciles \/ Counts \/ Checks => FilesHeld'
    BY <1>0 DEF Reconciles, Counts, Checks, Back, Stores, TurnsRefresh
  <1>8. Runs \/ Falls \/ Ages => FilesHeld'
    BY DEF Runs, Falls, Ages
  <1>9. Boots \/ Expires \/ Unlinks \/ Clears \/ Lapses => FilesHeld'
    BY <1>0 DEF Boots, Expires, Unlinks, Clears, FolderGoes, Lapses, Stores, Moves, Resets, Turns
  <1> QED BY <1>1, <1>2, <1>3, <1>4, <1>5, <1>6, <1>7, <1>8, <1>9 DEF Kinds

\* A record that was sound stays so.
SoundAfter(r) ==
    /\ r.blocklisted => lidarr'.blocklisted
    /\ Imported(r) => Came'
    /\ r.state = "pending_review" => r.decision = "REVIEW_REQUIRED"
    /\ folder' = "audio" =>
          /\ r.decision = "REVIEW_REQUIRED" =>
                r.outcome = "PENDING" /\ r.state \in {"pending_review", "expired"}
          /\ r.decision \in Accepts => r.state \in {"created", "promoted"}
          /\ r.outcome = "RESCUED" => lidarr'.placed
          /\ r.outcome = "MANUAL_IMPORTED" => config'.had

LEMMA SoundStays ==
    ASSUME Monotonic, NEW r, Sound(r)
    PROVE  SoundAfter(r)
  BY DEF Monotonic, Sound, SoundAfter, Came

LEMMA StepEvident ==
    ASSUME Base, RecordsSound, Evident, Kinds
    PROVE  Evident'
  <1> USE Names, Resting DEF Base
  <1>0. Monotonic
    BY StepMonotonic
  <1> DEFINE E(c, o) == /\ c = "rescan" => lidarr'.placed
                        /\ o \in {"MANUAL_IMPORTED", "RESCUED"} => Came'
                        /\ folder' = "audio" => /\ o = "RESCUED" => lidarr'.placed
                                                /\ o = "MANUAL_IMPORTED" => config'.had
             I == \A q \in Importers : E(importer'[q].pc, importer'[q].outcome)
  <1>1. \A q \in Importers : E(importer[q].pc, importer[q].outcome)
    BY <1>0 DEF Evident, Monotonic, Came
  <1>2. \A p \in Importers : \A c, r, w, o, A : Turns(p, c, r, w, o, A) /\ E(c, o) => I
    BY <1>1 DEF Turns
  <1>3. \A c, o : c # "rescan" /\ (o = "none" \/ \E q \in Importers : o = importer[q].outcome)
                     => E(c, o)
    BY <1>1
  <1>4. \A p \in Importers : \A c : c # "rescan" /\ (Moves(p, c) \/ Resets(p, c)) => I
    BY <1>2, <1>3 DEF Moves, Resets
  <1>5. UNCHANGED importer => I
    BY <1>1
  <1>6. Waits \/ Restored \/ Opens \/ Holds => I
    <2>1. \A A : At("http", "restoring") /\ Keeps(A) => I
      BY <1>2, <1>3 DEF Keeps, At
    <2> QED BY <1>2, <1>3, <1>4, <1>5, <2>1 DEF Waits, Restored, Opens, Holds
  <1>7. Switched => I
    BY <1>2, <1>3 DEF Switched
  <1>8. \A p \in Importers : TakesUp(p) \/ Promotes(p) \/ Finishes(p) => I
    BY <1>2, <1>3, <1>4 DEF TakesUp, Promotes, Finishes
  <1>9. ASSUME NEW p \in Importers, Proceeds(p)
        PROVE  I
    <2> DEFINE m == importer[p]
    <2>1. CASE Aborts(p)
      BY <1>4, <2>1 DEF Aborts
    <2>2. CASE \E c \in Started \ {"finish"} : Moves(p, c) /\ (c = "rescan" => lidarr'.placed)
      <3>1. PICK c \in Started \ {"finish"} : Moves(p, c) /\ (c = "rescan" => lidarr'.placed)
        BY <2>2
      <3>2. E(c, m.outcome)
        BY <1>1, <3>1
      <3> QED BY <1>2, <3>1, <3>2 DEF Moves
    <2>3. CASE \E o \in Outcomes : /\ Reports(p, o)
                                   /\ o = "MANUAL_IMPORTED" => lidarr.imported \/ config.had
                                   /\ o = "RESCUED" => m.pc = "rescan"
      <3>1. PICK o \in Outcomes : /\ Reports(p, o)
                                  /\ o = "MANUAL_IMPORTED" => lidarr.imported \/ config.had
                                  /\ o = "RESCUED" => m.pc = "rescan"
        BY <2>3
      <3>2. E("finish", o)
        BY <1>0, <3>1 DEF Evident, Monotonic, Came
      <3> QED BY <1>2, <3>1, <3>2 DEF Reports
    <2>4. CASE Imported(m.rec) /\ Turns(p, "finish", m.rec, "none", m.rec.outcome, m.applied)
      <3>1. Sound(m.rec)
        BY DEF RecordsSound
      <3>2. E("finish", m.rec.outcome)
        BY <1>0, <3>1, SoundStays DEF Imported, SoundAfter
      <3> QED BY <1>2, <2>4, <3>2
    <2> QED BY <1>9, <2>1, <2>2, <2>3, <2>4 DEF Proceeds, Advances
  <1>10. Discards \/ Removes \/ Blocklists \/ Archives \/ Marks \/ Reconciles \/ Counts \/ Checks
           \/ Runs \/ Ages => I
    BY <1>5 DEF Discards, Removes, Blocklists, Archives, Marks, Reconciles, Counts, Checks, Runs,
                Ages
  <1>11. Falls => I
    BY <1>3 DEF Falls
  <1>12. Boots \/ Expires \/ Unlinks \/ Clears \/ Lapses => I
    BY <1>2, <1>3, <1>4 DEF Boots, Expires, Unlinks, Clears, Lapses
  <1> HIDE DEF I
  <1>13. I
    BY <1>6, <1>7, <1>8, <1>9, <1>10, <1>11, <1>12 DEF Kinds
  <1>14. folder' = "audio" => ~lidarr'.imported
    <2> SUFFICES ASSUME folder' = "audio"
                 PROVE  lidarr'.imported = lidarr.imported
      BY <1>0 DEF Evident, Monotonic
    <2>0. lidarr \in LidarrType /\ lidarr' \in LidarrType
      BY ServiceTypes DEF Typed, ServicesTyped
    <2>1. \A a, b, d, e : Lidarr(a, b, lidarr.imported, d, e) => lidarr'.imported = lidarr.imported
      BY <2>0 DEF Lidarr, LidarrType
    <2>2. Waits \/ Switched \/ Restored \/ Opens \/ Holds => lidarr'.imported = lidarr.imported
      BY <2>1 DEF Waits, Switched, Restored, Opens, Holds, LidarrElse
    <2>3. \A p \in Importers : TakesUp(p) \/ Proceeds(p) \/ Promotes(p) \/ Finishes(p) =>
             lidarr'.imported = lidarr.imported
      BY DEF TakesUp, Proceeds, Promotes, Finishes
    <2>4. Discards \/ Removes \/ Blocklists \/ Archives \/ Marks \/ Reconciles \/ Counts \/ Checks
            => lidarr'.imported = lidarr.imported
      BY <2>1 DEF Discards, Removes, Blocklists, Archives, Marks, Reconciles, Counts, Checks
    <2>5. Runs \/ Falls \/ Ages \/ Boots => lidarr'.imported = lidarr.imported
      BY DEF Runs, Falls, Ages, Boots
    <2>6. Expires \/ Unlinks \/ Clears \/ Lapses => lidarr'.imported = lidarr.imported
      BY <2>1 DEF Expires, Unlinks, Clears, Lapses
    <2> QED BY <2>2, <2>3, <2>4, <2>5, <2>6 DEF Kinds
  <1> QED BY <1>13, <1>14 DEF Evident, I

LEMMA StepRecordsSound ==
    ASSUME Base, RecordsSound, Evident, FilesHeld, Kinds
    PROVE  RecordsSound'
  <1> USE Names, Resting DEF Base
  <1> DEFINE K == \A w \in Places : SoundAfter(side'[w])
             I == \A q \in Importers : SoundAfter(importer'[q].rec)
             D == SoundAfter(discard'.rec)
             R == SoundAfter(refresh'.rec)
             O == folder' = "audio" =>
                     /\ side'["out"].state # "expired"
                     /\ importer'["worker"].pc = "reviewing" =>
                           importer'["worker"].rec.state # "expired"
  <1>0. Monotonic
    BY StepMonotonic
  <1>1. /\ \A w \in Places : SoundAfter(side[w])
        /\ \A p \in Importers : SoundAfter(importer[p].rec)
        /\ SoundAfter(discard.rec) /\ SoundAfter(refresh.rec)
        /\ folder' = "audio" => /\ side["out"].state # "expired"
                                /\ importer["worker"].pc = "reviewing" =>
                                      importer["worker"].rec.state # "expired"
    BY <1>0, SoundStays DEF RecordsSound, Monotonic, Creating, At
  <1>2. SoundAfter(NoRecord)
    BY Values DEF SoundAfter, Accepts, Imported
  <1>3. /\ UNCHANGED side => K
        /\ UNCHANGED importer => I
        /\ UNCHANGED discard => D
        /\ UNCHANGED refresh => R
        /\ discard' = NoReader => D
        /\ refresh' = NoReader => R
        /\ UNCHANGED <<side, importer>> => O
    BY <1>1, <1>2
  <1>4. /\ \A p \in Importers : \A c, r, w, o, A : Turns(p, c, r, w, o, A) /\ SoundAfter(r) => I
        /\ \A p \in Importers : \A c : Moves(p, c) \/ Resets(p, c) => I
        /\ \A A : Keeps(A) => I
    <2>1. \A p \in Importers : \A c, r, w, o, A : Turns(p, c, r, w, o, A) /\ SoundAfter(r) => I
      BY <1>1 DEF Turns
    <2> QED BY <1>1, <1>2, <2>1 DEF Moves, Resets, Keeps
  <1>5. \A w \in Places : \A r : Stores(w, r) /\ SoundAfter(r) => K
    BY <1>1 DEF Stores
  <1>6. /\ \A c, r, w : TurnsDiscard(c, r, w) /\ SoundAfter(r) => D
        /\ \A c, r, w : TurnsRefresh(c, r, w) /\ SoundAfter(r) => R
    BY DEF TurnsDiscard, TurnsRefresh
  <1>7. SoundAfter(Current)
    BY <1>1, <1>2, FindFinds DEF Typed
  <1>8. ASSUME NEW p \in Importers, NEW c, NEW r, NEW w, NEW o, NEW A, Turns(p, c, r, w, o, A),
               UNCHANGED side, c # "reviewing"
        PROVE  O
    BY <1>1, <1>8 DEF Turns
  <1>9. /\ \A p \in Importers : \A c :
              UNCHANGED side /\ c # "reviewing" /\ (Moves(p, c) \/ Resets(p, c)) => O
        /\ \A A : At("http", "restoring") /\ Keeps(A) /\ UNCHANGED side => O
    <2>1. \A A : At("http", "restoring") /\ Keeps(A) /\ UNCHANGED side => O
      BY <1>8 DEF Keeps, At
    <2> QED BY <1>8, <2>1 DEF Moves, Resets
  <1> DEFINE Goal == K /\ I /\ D /\ R /\ O
  <1> HIDE DEF K, I, D, R, O
  <1>10. Waits => Goal
    BY <1>3, <1>4, <1>9 DEF Waits
  <1>11. Switched \/ Restored => Goal
    <2>1. Restored => Goal
      BY <1>3, <1>4, <1>9 DEF Restored
    <2>2. Switched => Goal
      BY <1>1, <1>3, <1>4, <1>8 DEF Switched
    <2> QED BY <2>1, <2>2
  <1>12. \A p \in Importers : TakesUp(p) => Goal
    BY <1>1, <1>3, <1>4, <1>7, <1>8 DEF TakesUp
  <1>13. ASSUME NEW p \in Importers, Proceeds(p)
         PROVE  Goal
    <2>1. UNCHANGED <<discard, refresh, side>> /\ Advances(p)
      BY <1>13 DEF Proceeds
    <2>2. "reviewing" \notin Started
      BY DEF Started
    <2>3. I /\ O
      BY <1>1, <1>4, <1>8, <1>9, <2>1, <2>2 DEF Advances, Aborts, Reports
    <2> QED BY <1>3, <2>1, <2>3
  <1>14. ASSUME NEW p \in Importers, Promotes(p)
         PROVE  Goal
    <2> DEFINE r == Promoted(importer[p].rec)
    <2>1. importer[p].rec \in Record
      BY <1>14 DEF Promotes, Reads, Holding, At, Reading, Started
    <2>2. /\ r.outcome = importer[p].rec.outcome /\ r.decision = "ACCEPT_PROVISIONAL"
          /\ r.state = "promoted" /\ r.blocklisted = importer[p].rec.blocklisted
      BY <2>1, RecordUpdates
    <2> HIDE DEF r
    <2>3. SoundAfter(r)
      BY <1>1, <2>2 DEF SoundAfter, Imported, Accepts
    <2>4. /\ Stores(importer[p].path, r) /\ UNCHANGED <<discard, refresh>>
          /\ Turns(p, "lookup", r, importer[p].path, importer[p].outcome, importer[p].applied)
          /\ importer[p].path \in Places
      BY <1>14 DEF Promotes, r, Reads, Holding, At, Reading, Started
    <2>5. O
      BY <1>1, <2>2, <2>4 DEF O, Stores, Turns
    <2> QED BY <1>3, <1>4, <1>5, <2>3, <2>4, <2>5
  <1>15. ASSUME NEW p \in Importers, Finishes(p)
         PROVE  Goal
    <2> DEFINE m == importer[p]
               r == Outcome(m.rec, m.outcome)
    <2>1. m.pc = "finish" /\ UNCHANGED <<discard, refresh>>
      BY <1>15 DEF Finishes, At
    <2>2. I /\ D /\ R
      BY <1>3, <1>4, <1>15, <2>1 DEF Finishes
    <2>3. CASE UNCHANGED side
      BY <1>3, <1>9, <1>15, <2>2, <2>3 DEF Finishes
    <2>4. CASE m.path \in Places /\ Stores(m.path, r)
      <3>1. m.rec \in Record /\ m.outcome \in Outcomes /\ m.rec.decision \in Accepts
        BY <2>1, <2>4, ImporterFields DEF Reads, Holding, Reading, Started, Typed
      <3>2. /\ r.outcome = m.outcome /\ r.decision = m.rec.decision
            /\ r.state = m.rec.state /\ r.blocklisted = m.rec.blocklisted
        BY <3>1, RecordUpdates
      <3> HIDE DEF r
      <3>3. /\ m.outcome \in {"MANUAL_IMPORTED", "RESCUED"} => Came'
            /\ folder' = "audio" => /\ m.outcome = "RESCUED" => lidarr'.placed
                                    /\ m.outcome = "MANUAL_IMPORTED" => config'.had
        BY <1>0 DEF Evident, Monotonic, Came
      <3>4. SoundAfter(r)
        BY <1>1, <3>1, <3>2, <3>3 DEF SoundAfter, Imported, Accepts
      <3>5. folder' = "audio" => r.state # "expired"
        BY <1>1, <3>1, <3>2 DEF SoundAfter
      <3>6. importer'["worker"].pc # "reviewing"
        BY <1>15, <2>1 DEF Finishes, Moves, Resets, Turns, Threads, Creating, At
      <3>7. O
        BY <1>1, <2>4, <3>5, <3>6 DEF O, Stores
      <3> QED BY <1>5, <2>2, <2>4, <3>4, <3>7
    <2> QED BY <1>15, <2>3, <2>4 DEF Finishes
  <1>16. ASSUME Opens
         PROVE  Goal
    <2>1. SoundAfter(ReviewRecord)
      BY ReviewRecordIs DEF SoundAfter, Imported, Accepts
    <2>2. O
      BY <1>16, ReviewRecordIs DEF Opens, Stores, Turns, O
    <2> QED BY <1>3, <1>4, <1>5, <1>16, <2>1, <2>2 DEF Opens
  <1>17. ASSUME Holds
         PROVE  Goal
    <2> DEFINE r == importer["worker"].rec
    <2>1. /\ r \in Record /\ SoundAfter(r) /\ importer["worker"].pc = "reviewing"
          /\ folder' = "audio" => r.state # "expired"
      BY <1>1, <1>17 DEF Holds, Threads, Creating, At
    <2>2. Resets("worker", "idle") /\ UNCHANGED <<discard, refresh>>
      BY <1>17 DEF Holds
    <2>3. ASSUME NEW b \in BOOLEAN, Stores("out", Judged(r, b)),
                 Lidarr(lidarr.queue, lidarr.queued, lidarr.imported, lidarr.placed,
                        lidarr.blocklisted \/ b)
          PROVE  K /\ O
      <3> DEFINE n == Judged(r, b)
      <3>1. /\ n.outcome = r.outcome /\ n.decision = r.decision
            /\ n.state = r.state /\ n.blocklisted = b
        BY <2>1, RecordUpdates
      <3> HIDE DEF n
      <3>2. SoundAfter(n)
        BY <2>1, <2>3, <3>1 DEF SoundAfter, Imported, Lidarr
      <3>3. K
        BY <1>5, <2>3, <3>2 DEF n
      <3>4. Stores("out", n) /\ importer'["worker"].pc = "idle"
        BY <2>2, <2>3 DEF Resets, Turns, n
      <3>5. O
        BY <2>1, <3>1, <3>4 DEF O, Stores
      <3> QED BY <3>3, <3>5
    <2> QED BY <1>3, <1>4, <1>9, <1>17, <2>2, <2>3 DEF Holds
  <1>18. Discards \/ Marks => Goal
    BY <1>2, <1>3, <1>6, <1>7 DEF Discards, Marks
  <1>19. Removes \/ Clears => Goal
    <2> SUFFICES ASSUME Removes \/ Clears
                 PROVE  Goal
      OBVIOUS
    <2>1. FolderGoes /\ folder' # "audio"
      BY DEF Removes, Clears, FolderGoes
    <2>2. K /\ O
      BY <1>1, <1>2, <2>1 DEF K, O, FolderGoes
    <2> QED BY <1>1, <1>3, <1>4, <1>6, <2>2 DEF Removes, Clears
  <1>20. ASSUME Blocklists
         PROVE  Goal
    <2>1. discard.rec \in Record /\ folder' # "audio"
      BY <1>0, <1>20 DEF Blocklists, Reads, FilesHeld, Monotonic
    <2>2. ASSUME NEW b \in BOOLEAN, NEW d \in BOOLEAN,
                 Lidarr(lidarr.queue /\ ~d, lidarr.queued, lidarr.imported, lidarr.placed,
                        lidarr.blocklisted \/ (b /\ ~discard.rec.blocklisted))
          PROVE  SoundAfter(Closed(discard.rec, "discarded", b))
      <3> DEFINE n == Closed(discard.rec, "discarded", b)
      <3>1. /\ n.outcome = discard.rec.outcome /\ n.state = "discarded"
            /\ n.blocklisted <=> discard.rec.blocklisted \/ b
        BY <2>1, RecordUpdates DEF States
      <3> HIDE DEF n
      <3>2. SoundAfter(n)
        BY <1>1, <2>1, <2>2, <3>1 DEF SoundAfter, Imported, Lidarr
      <3> QED BY <3>2 DEF n
    <2> QED BY <1>3, <1>6, <1>20, <2>2 DEF Blocklists
  <1>21. ASSUME Archives
         PROVE  Goal
    <2>1. folder' # "audio" /\ O
      BY <1>0, <1>21 DEF Archives, FilesHeld, Monotonic, O
    <2>2. K
      BY <1>1, <1>2, <1>21 DEF Archives, K
    <2> QED BY <1>1, <1>3, <1>6, <1>21, <2>1, <2>2 DEF Archives
  <1>22. ASSUME NEW o \in {"MANUAL_IMPORTED", "FAILED"}, refresh.rec \in Record, Back(o),
                UNCHANGED <<importer, lock>>,
                o = "MANUAL_IMPORTED" => Came' /\ folder' # "audio",
                o = "FAILED" => refresh.rec.decision \in Accepts
         PROVE  K /\ O
    <2> DEFINE r == Outcome(refresh.rec, o)
    <2>1. /\ r.outcome = o /\ r.decision = refresh.rec.decision
          /\ r.state = refresh.rec.state /\ r.blocklisted = refresh.rec.blocklisted
      BY <1>22, RecordUpdates DEF Outcomes
    <2> HIDE DEF r
    <2>2. SoundAfter(r)
      BY <1>1, <1>22, <2>1 DEF SoundAfter, Imported, Accepts
    <2>3. folder' = "audio" => r.state # "expired"
      BY <1>1, <1>22, <2>1 DEF SoundAfter
    <2>4. CASE UNCHANGED side
      BY <1>3, <1>22, <2>4
    <2>5. CASE \E w \in Places : Stores(w, r)
      <3>1. K
        BY <1>5, <2>2, <2>5
      <3>2. O
        BY <1>1, <1>22, <2>3, <2>5 DEF O, Stores
      <3> QED BY <3>1, <3>2
    <2> QED BY <1>22, <2>4, <2>5 DEF Back, r
  <1>23. Reconciles => Goal
    BY <1>3, <1>6, <1>7 DEF Reconciles
  <1>24. ASSUME Counts
         PROVE  Goal
    <2>1. refresh.rec \in Record /\ UNCHANGED <<importer, lock, discard>>
      BY <1>24 DEF Counts, Reads
    <2>2. CASE /\ folder # "audio" /\ (lidarr.imported \/ config.had)
               /\ Back("MANUAL_IMPORTED") /\ TurnsRefresh("idle", NoRecord, "none")
      <3>1. Came' /\ folder' # "audio"
        BY <1>0, <2>2 DEF Monotonic, Came
      <3>2. K /\ O
        BY <1>22, <2>1, <2>2, <3>1
      <3> QED BY <1>2, <1>3, <1>6, <2>1, <2>2, <3>2
    <2>3. CASE UNCHANGED side /\ TurnsRefresh("pending", refresh.rec, refresh.path)
      BY <1>1, <1>3, <1>6, <2>1, <2>3
    <2> QED BY <1>24, <2>2, <2>3 DEF Counts
  <1>25. ASSUME Checks
         PROVE  Goal
    <2>1. refresh.rec \in Record /\ UNCHANGED <<importer, lock, discard>>
      BY <1>25 DEF Checks, Reads
    <2>2. R
      BY <1>2, <1>6, <1>25 DEF Checks
    <2>3. CASE UNCHANGED side
      BY <1>3, <2>1, <2>2, <2>3
    <2>4. CASE refresh.rec.decision \in Accepts /\ Back("FAILED")
      <3>1. K /\ O
        BY <1>22, <2>1, <2>4
      <3> QED BY <1>3, <2>1, <2>2, <3>1
    <2> QED BY <1>25, <2>3, <2>4 DEF Checks
  <1>26. Runs \/ Ages => Goal
    BY <1>3 DEF Runs, Ages
  <1>27. Falls => Goal
    <2> SUFFICES ASSUME Falls
                 PROVE  Goal
      OBVIOUS
    <2>1. I
      BY <1>2 DEF Falls, I
    <2>2. O
      BY <1>1 DEF Falls, O
    <2> QED BY <1>3, <2>1, <2>2 DEF Falls
  <1>28. Boots \/ Lapses => Goal
    BY <1>3, <1>4, <1>9 DEF Boots, Lapses
  <1>29. ASSUME Expires
         PROVE  Goal
    <2>1. /\ Current \in Record /\ Current.decision = "REVIEW_REQUIRED"
          /\ UNCHANGED <<discard, refresh>>
      BY <1>29, FindFinds DEF Expires, Overdue, Typed
    <2>2. PICK b \in BOOLEAN :
             /\ Lidarr(lidarr.queue, lidarr.queued, lidarr.imported, lidarr.placed,
                       lidarr.blocklisted \/ (b /\ ~Current.blocklisted))
             /\ Stores("expired", Closed(Current, "expired", b))
      BY <1>29 DEF Expires
    <2> DEFINE n == Closed(Current, "expired", b)
    <2>3. /\ n.outcome = Current.outcome /\ n.state = "expired"
          /\ n.decision = "REVIEW_REQUIRED"
          /\ n.blocklisted <=> Current.blocklisted \/ b
      BY <2>1, RecordUpdates DEF States
    <2>4. Stores("expired", n)
      BY <2>2
    <2> HIDE DEF n
    <2>5. SoundAfter(n)
      BY <1>7, <2>1, <2>2, <2>3 DEF SoundAfter, Imported, Lidarr, Accepts
    <2>6. K
      BY <1>5, <2>4, <2>5
    <2>7. O
      BY <1>1, <1>29, <2>4 DEF Expires, Turns, Stores, O
    <2>8. I
      BY <1>1, <1>4, <1>29 DEF Expires
    <2> QED BY <1>3, <2>1, <2>6, <2>7, <2>8
  <1>30. ASSUME Unlinks
         PROVE  Goal
    <2>1. K
      BY <1>1, <1>2, <1>30 DEF Unlinks, K
    <2>2. side'["out"] \in {side["out"], NoRecord} /\ importer'["worker"].pc = "unlinked"
      BY <1>30 DEF Unlinks, Moves, Turns
    <2>3. O
      BY <1>1, <2>2, Values DEF O
    <2> QED BY <1>3, <1>4, <1>30, <2>1, <2>3 DEF Unlinks
  <1> HIDE DEF Goal
  <1>31. Goal
    BY <1>10, <1>11, <1>12, <1>13, <1>14, <1>15, <1>16, <1>17, <1>18, <1>19, <1>20, <1>21,
       <1>23, <1>24, <1>25, <1>26, <1>27, <1>28, <1>29, <1>30 DEF Kinds
  <1> QED BY <1>31 DEF Goal, K, I, D, R, O, RecordsSound, Sound, SoundAfter, Creating, At

LEMMA StepSwitches ==
    ASSUME Base, Evident, Switches, Kinds, Accounts
    PROVE  Switches'
  <1> USE Names, Resting DEF Base
  <1> DEFINE A0 == importer["http"].applied
             A1 == importer'["http"].applied
             S == Unharmed' /\ ~Came' => lidarr'.switched \subseteq A1
             T == importer'["http"].pc \in {"idle", "unlocked"} => A1 = {}
  <1>0. Monotonic
    BY StepMonotonic
  <1>1. /\ Unharmed' => Unharmed
        /\ ~Came' => ~Came
    BY <1>0 DEF Accounts, Spends, Unharmed, Monotonic, Came
  <1>2. /\ Unharmed' /\ ~Came' => lidarr.switched \subseteq A0
        /\ importer["http"].pc \in {"idle", "unlocked"} => A0 = {}
    BY <1>1 DEF Switches
  <1>3. ASSUME importer'["http"] = importer["http"], lidarr'.switched = lidarr.switched
        PROVE  S /\ T
    BY <1>2, <1>3
  <1>4. ASSUME NEW c, c \notin {"idle", "unlocked"}, Moves("http", c),
               lidarr'.switched = lidarr.switched
        PROVE  S /\ T
    BY <1>2, <1>4 DEF Moves, Turns
  <1>5. ASSUME NEW c, NEW r, NEW w, NEW o, NEW A, Turns("worker", c, r, w, o, A)
        PROVE  importer'["http"] = importer["http"]
    BY <1>5 DEF Turns
  <1>6. ASSUME NEW c, Moves("worker", c) \/ Resets("worker", c)
        PROVE  importer'["http"] = importer["http"]
    BY <1>5, <1>6 DEF Moves, Resets
  <1>7. ASSUME Waits
        PROVE  S /\ T
    <2>1. CASE Resets("http", "idle") /\ At("http", "unlocked")
      BY <1>2, <1>7, <2>1 DEF Waits, Resets, Turns, At
    <2>2. CASE Moves("http", "act")
      BY <1>4, <1>7, <2>2 DEF Waits
    <2>3. CASE importer'["http"] = importer["http"]
      BY <1>3, <1>7, <2>3 DEF Waits
    <2> QED BY <1>6, <1>7, <2>1, <2>2, <2>3 DEF Waits
  <1>8. ASSUME Switched
        PROVE  S /\ T
    <2>1. PICK A \in SUBSET Albums, c \in {"switch", "act", "restoring"} :
             /\ importer'["http"].pc = c /\ A1 = A
             /\ Unharmed' => lidarr'.switched \subseteq lidarr.switched \cup A /\ A0 \subseteq A
      BY <1>8 DEF Switched, Turns
    <2> QED BY <1>2, <2>1
  <1>9. ASSUME Restored
        PROVE  S /\ T
    <2>1. ASSUME NEW A \in SUBSET Albums, Keeps(A),
                 Unharmed' /\ lidarr.switched \subseteq A0 => lidarr'.switched \subseteq A
          PROVE  S /\ T
      BY <1>2, <1>9, <2>1 DEF Restored, Keeps, Turns, At
    <2>2. CASE A0 = {} /\ Resets("http", "idle") /\ UNCHANGED lidarr
      BY <1>2, <2>2 DEF Resets, Turns
    <2> QED BY <1>9, <2>1, <2>2 DEF Restored
  <1>10. Opens \/ Holds => S /\ T
    BY <1>3, <1>5, <1>6 DEF Opens, Holds
  <1>11. ASSUME NEW p \in Importers, TakesUp(p)
         PROVE  S /\ T
    <2>1. CASE p = "worker"
      BY <1>3, <1>5, <1>11, <2>1 DEF TakesUp
    <2>2. CASE p = "http"
      BY <1>2, <1>11, <2>2 DEF TakesUp, Turns, At
    <2> QED BY <2>1, <2>2
  <1>12. ASSUME NEW p \in Importers, Proceeds(p)
         PROVE  S /\ T
    <2>0. lidarr'.switched = lidarr.switched /\ Advances(p)
      BY <1>12 DEF Proceeds
    <2>1. CASE p = "worker"
      <3>1. importer'["http"] = importer["http"]
        BY <1>5, <1>6, <2>0, <2>1 DEF Advances, Aborts, Moves, Reports
      <3> QED BY <1>3, <2>0, <3>1
    <2>2. CASE p = "http"
      <3>1. /\ A1 = A0
            /\ importer'["http"].pc \in {"restoring", "finish"} \cup Started
        BY <2>0, <2>2 DEF Advances, Aborts, Moves, Reports, Turns
      <3>2. importer'["http"].pc \notin {"idle", "unlocked"}
        BY <3>1 DEF Started
      <3> QED BY <1>2, <2>0, <3>1, <3>2
    <2> QED BY <2>1, <2>2
  <1>13. ASSUME NEW p \in Importers, Promotes(p)
         PROVE  S /\ T
    <2>1. CASE p = "worker"
      BY <1>3, <1>5, <1>13, <2>1 DEF Promotes
    <2>2. CASE p = "http"
      BY <1>2, <1>13, <2>2 DEF Promotes, Turns
    <2> QED BY <2>1, <2>2
  <1>14. ASSUME NEW p \in Importers, Finishes(p)
         PROVE  S /\ T
    <2>1. CASE p = "worker"
      BY <1>3, <1>6, <1>14, <2>1 DEF Finishes
    <2>2. CASE p = "http" /\ Moves(p, "restoring")
      BY <1>4, <1>14, <2>2 DEF Finishes
    <2>3. CASE p = "http" /\ Resets(p, "idle")
               /\ (A0 = {} \/ importer["http"].outcome \in {"MANUAL_IMPORTED", "RESCUED"})
      <3>1. A0 = {} \/ Came
        BY <2>3 DEF Evident
      <3> QED BY <1>1, <1>2, <1>14, <2>3, <3>1 DEF Finishes, Resets, Turns
    <2> QED BY <1>14, <2>1, <2>2, <2>3 DEF Finishes
  <1>15. Discards \/ Removes \/ Blocklists \/ Archives \/ Marks => S /\ T
    BY <1>3 DEF Discards, Removes, Blocklists, Archives, Marks
  <1>16. Reconciles \/ Counts \/ Checks \/ Runs \/ Ages => S /\ T
    BY <1>3 DEF Reconciles, Counts, Checks, Runs, Ages
  <1>17. ASSUME Falls
         PROVE  S /\ T
    <2>1. A1 = {} /\ lidarr' = lidarr
      BY <1>17 DEF Falls
    <2>2. Unharmed' => importer["http"].pc = "idle"
      BY <1>17 DEF Falls, Unharmed, Quiet, At
    <2> QED BY <1>2, <2>1, <2>2
  <1>18. Boots \/ Expires \/ Unlinks \/ Clears \/ Lapses => S /\ T
    BY <1>3, <1>5, <1>6 DEF Boots, Expires, Unlinks, Clears, Lapses
  <1> HIDE DEF S, T
  <1>19. S /\ T
    BY <1>7, <1>8, <1>9, <1>10, <1>11, <1>12, <1>13, <1>14, <1>15, <1>16, <1>17, <1>18 DEF Kinds
  <1> QED BY <1>19 DEF Switches, S, T

\* The initial states have every part of it.
LEMMA InitStates ==
    ASSUME Init
    PROVE  /\ folder = "audio" /\ lock = "free" /\ spent.cancels = 0
           /\ discard = NoReader /\ refresh = NoReader
           /\ \A p \in Importers : /\ importer[p].pc \in {"idle", "reviewing"}
                                   /\ importer[p].rec = NoRecord /\ importer[p].path = "none"
                                   /\ importer[p].outcome = "none" /\ importer[p].applied = {}
           /\ importer["http"].pc = "idle"
           /\ side["discarded"] = NoRecord /\ side["expired"] = NoRecord
           /\ ~lidarr.imported /\ lidarr.switched = {}
           /\ \/ /\ Creating /\ side["out"] = NoRecord /\ lidarr.queue /\ ~lidarr.queued
              \/ /\ ~Creating /\ side["out"].decision \in Accepts
                 /\ side["out"].outcome \in {"FAILED", "PENDING"} /\ side["out"].state = "created"
                 /\ ~side["out"].blocklisted /\ side["out"] \in Record
           /\ \A j \in JobIds : ~jobs[j].cancel
  <1>1. PICK first \in {"review", "FAILED", "PENDING"}, d \in {"ACCEPT", "ACCEPT_PROVISIONAL"} :
           /\ importer = [p \in Importers |-> ImporterAt(IF p = "worker" /\ first = "review"
                                                         THEN "reviewing" ELSE "idle")]
           /\ side = [w \in Places |-> IF w = "out" /\ first # "review"
                                       THEN NewRecord(d, first, "created") ELSE NoRecord]
           /\ proj = [status |-> IF first = "FAILED" THEN "failed" ELSE "processing",
                      hold |-> FALSE, hidden |-> first = "FAILED"]
           /\ lidarr = [queue |-> first # "FAILED", queued |-> first = "PENDING",
                        imported |-> FALSE, placed |-> FALSE, blocklisted |-> FALSE,
                        switched |-> {}]
    BY DEF Init
  <1>2. /\ folder = "audio" /\ lock = "free" /\ spent.cancels = 0
        /\ discard = NoReader /\ refresh = NoReader
    BY DEF Init
  <1>3. \A j \in JobIds : ~jobs[j].cancel
    BY DEF Init, JobsInit, AbsentRow
  <1>4. \A c \in {"idle", "reviewing"} :
           /\ ImporterAt(c).pc = c /\ ImporterAt(c).rec = NoRecord
           /\ ImporterAt(c).path = "none" /\ ImporterAt(c).outcome = "none"
           /\ ImporterAt(c).applied = {}
    BY FreshImporter, Names
  <1>5. /\ \A p \in Importers : \E c \in {"idle", "reviewing"} : importer[p] = ImporterAt(c)
        /\ importer["http"] = ImporterAt("idle")
        /\ importer["worker"] = ImporterAt(IF first = "review" THEN "reviewing" ELSE "idle")
    BY <1>1, Names
  <1>6. Creating <=> first = "review"
    BY <1>4, <1>5 DEF Creating, At
  <1>7. /\ side["discarded"] = NoRecord /\ side["expired"] = NoRecord
        /\ side["out"] = IF first = "review" THEN NoRecord ELSE NewRecord(d, first, "created")
    BY <1>1, Names
  <1>8. first # "review" => LET r == NewRecord(d, first, "created")
                            IN  /\ r \in Record /\ r.decision = d /\ r.outcome = first
                                /\ r.state = "created" /\ ~r.blocklisted
    BY DEF NewRecord, NoRecord, Record
  <1>9. /\ ~lidarr.imported /\ lidarr.switched = {}
        /\ lidarr.queue <=> first # "FAILED"
        /\ lidarr.queued <=> first = "PENDING"
    BY <1>1
  <1> QED BY <1>2, <1>3, <1>4, <1>5, <1>6, <1>7, <1>8, <1>9, Names DEF Accepts

\* The records and what they claim, in one invariant.
Claims == Base /\ FilesHeld /\ RecordsSound /\ Evident /\ Switches

LEMMA InitClaims ==
    ASSUME Init
    PROVE  Claims
  <1> USE Names, Resting, Values
  <1>1. FilesHeld
    BY InitStates DEF FilesHeld
  <1>2. /\ Sound(NoRecord)
        /\ side["out"] # NoRecord => Sound(side["out"])
    <2>1. Sound(NoRecord)
      BY DEF Sound, Imported, Accepts
    <2>2. ASSUME side["out"] # NoRecord
          PROVE  Sound(side["out"])
      <3>1. /\ side["out"].decision \in Accepts /\ side["out"].outcome \in {"FAILED", "PENDING"}
            /\ side["out"].state = "created" /\ ~side["out"].blocklisted
        BY <2>2, InitStates
      <3> QED BY <3>1 DEF Sound, Imported, Accepts
    <2> QED BY <2>1, <2>2
  <1>3. RecordsSound
    <2>1. \A w \in Places : Sound(side[w])
      BY <1>2, InitStates
    <2>2. \A p \in Importers : importer[p].rec = NoRecord
      BY InitStates
    <2>3. discard.rec = NoRecord /\ refresh.rec = NoRecord
      BY InitStates
    <2>4. side["out"].state # "expired" /\ NoRecord.state # "expired"
      BY InitStates
    <2> QED BY <1>2, <2>1, <2>2, <2>3, <2>4 DEF RecordsSound
  <1>4. Evident /\ Switches
    BY InitStates DEF Evident, Switches
  <1> QED BY <1>1, <1>3, <1>4, InitBase DEF Claims

LEMMA StepClaims ==
    ASSUME Claims, [Next]_vars
    PROVE  Claims'
  BY StepBase, StepFilesHeld, StepRecordsSound, StepEvident, StepSwitches DEF Claims

\* A request that is over has no release switch left in Lidarr, unless the release
\* came into the library or was there: whichever way its import ended, and with a
\* discard, a reconciliation and the worker in between (server.py 7489-7503).
THEOREM SwitchIsUndone == Spec => []SwitchUndone
  <1>1. Init => Claims
    BY InitClaims
  <1>2. Claims /\ [Next]_vars => Claims'
    BY StepClaims
  <1>3. Claims => SwitchUndone
    BY DEF Claims, Switches, SwitchUndone, Came, At
  <1> QED BY <1>1, <1>2, <1>3, PTL DEF Spec

\* What a thread finds, and what it can no longer do, once the release expired.
LEMMA DeadFacts ==
    ASSUME Base, ExpiredIsDead
    PROVE  /\ Find = "expired" => Dead(Current)
           /\ Overdue => Find # "expired"
           /\ \A p \in Importers :
                 importer[p].path = "expired" =>
                    /\ importer[p].pc \notin Started
                    /\ ~_is_promotable(importer[p].rec)
  <1> USE Names DEF Base
  <1>1. Find = "expired" => Dead(Current)
    BY FindFinds DEF ExpiredIsDead, Typed
  <1>2. Overdue => Find # "expired"
    BY <1>1 DEF Overdue, Dead
  <1>3. ASSUME NEW p \in Importers, importer[p].path = "expired"
        PROVE  importer[p].pc \notin Started /\ ~_is_promotable(importer[p].rec)
    <2>1. importer[p].rec.state = "expired" /\ importer[p].rec.decision = "REVIEW_REQUIRED"
      BY <1>3 DEF ExpiredIsDead, Dead
    <2> QED BY <1>3, <2>1 DEF Reads, Holding, Accepts, _is_promotable
  <1> QED BY <1>1, <1>2, <1>3

LEMMA StepExpiredIsDead ==
    ASSUME Base, ExpiredIsDead, ExpiredAlone, Kinds
    PROVE  ExpiredIsDead'
  <1> USE Names, Resting DEF Base
  <1> DEFINE X == side'["expired"] # NoRecord => Dead(side'["expired"])
             I == \A q \in Importers : importer'[q].path = "expired" => Dead(importer'[q].rec)
             R == refresh'.path = "expired" => Dead(refresh'.rec)
             Goal == X /\ I /\ R
  <1>1. /\ side["expired"] # NoRecord => Dead(side["expired"])
        /\ \A p \in Importers : importer[p].path = "expired" => Dead(importer[p].rec)
        /\ refresh.path = "expired" => Dead(refresh.rec)
    BY DEF ExpiredIsDead
  <1>2. /\ UNCHANGED side => X
        /\ FolderGoes => X
        /\ UNCHANGED importer => I
        /\ UNCHANGED refresh => R
        /\ refresh' = NoReader => R
    BY <1>1 DEF FolderGoes
  <1>3. \A w \in Places : \A r : Stores(w, r) /\ (w = "expired" => Dead(r)) => X
    BY <1>1 DEF Stores
  <1>4. \A p \in Importers : \A c, r, w, o, A :
           Turns(p, c, r, w, o, A) /\ (w = "expired" => Dead(r)) => I
    BY <1>1 DEF Turns
  <1>5. /\ \A p \in Importers : \A c : Moves(p, c) \/ Resets(p, c) => I
        /\ \A A : Keeps(A) => I
    BY <1>1, <1>4 DEF Moves, Resets, Keeps
  <1>6. \A c, r, w : TurnsRefresh(c, r, w) /\ (w = "expired" => Dead(r)) => R
    BY DEF TurnsRefresh
  <1>7. /\ Find = "expired" => Dead(Current)
        /\ Overdue => Find # "expired"
        /\ \A p \in Importers : importer[p].path = "expired" =>
              /\ importer[p].pc \notin Started
              /\ ~_is_promotable(importer[p].rec)
    BY DeadFacts
  <1>8. "finish" \in Started
    BY DEF Started
  <1> HIDE DEF X, I, R
  <1>10. Waits \/ Switched \/ Restored => Goal
    BY <1>1, <1>2, <1>4, <1>5 DEF Waits, Switched, Restored
  <1>11. Opens \/ Holds => Goal
    <2>1. Threads => (Opens => importer["worker"].path # "expired")
      BY DEF Threads, Opens
    <2> QED BY <1>2, <1>3, <1>4, <1>5, <2>1 DEF Opens, Holds
  <1>12. \A p \in Importers : TakesUp(p) => Goal
    BY <1>1, <1>2, <1>4, <1>7 DEF TakesUp
  <1>13. \A p \in Importers : Proceeds(p) => Goal
    BY <1>1, <1>2, <1>4, <1>5 DEF Proceeds, Advances, Aborts, Reports
  <1>14. \A p \in Importers : Promotes(p) => Goal
    <2> SUFFICES ASSUME NEW p \in Importers, Promotes(p)
                 PROVE  Goal
      OBVIOUS
    <2>1. importer[p].path # "expired" /\ importer[p].path \in Places
      BY <1>7 DEF Promotes, Reads, Holding, At, Reading, Started
    <2> QED BY <1>2, <1>3, <1>4, <2>1 DEF Promotes
  <1>15. \A p \in Importers : Finishes(p) => Goal
    <2> SUFFICES ASSUME NEW p \in Importers, Finishes(p)
                 PROVE  Goal
      OBVIOUS
    <2>1. importer[p].path # "expired"
      BY <1>7, <1>8 DEF Finishes, At
    <2> QED BY <1>2, <1>3, <1>5, <2>1 DEF Finishes
  <1>16. Discards \/ Removes \/ Blocklists \/ Marks => Goal
    BY <1>2 DEF Discards, Removes, Blocklists, Marks
  <1>17. Archives => Goal
    <2> SUFFICES ASSUME Archives
                 PROVE  Goal
      OBVIOUS
    <2>1. X
      BY <1>1 DEF Archives, X
    <2> QED BY <1>2, <2>1 DEF Archives
  <1>18. Reconciles => Goal
    BY <1>2, <1>6, <1>7 DEF Reconciles
  <1>19. ASSUME NEW o \in Outcomes, Back(o), refresh.pc # "idle"
         PROVE  X
    <2> DEFINE r == Outcome(refresh.rec, o)
    <2>1. refresh.rec \in Record /\ Up
      BY <1>19, Resting DEF Reads, Threads
    <2>2. r.decision = refresh.rec.decision /\ r.state = refresh.rec.state
      BY <1>19, <2>1, RecordUpdates
    <2> HIDE DEF r
    <2>3. CASE UNCHANGED side
      BY <1>2, <2>3
    <2>4. ASSUME NEW w \in Places, w = refresh.path \/ (refresh.path = "none" /\ w = Find),
                 Stores(w, r)
          PROVE  X
      <3>1. CASE w = refresh.path
        BY <1>1, <1>3, <2>2, <2>4, <3>1 DEF Dead
      <3>2. CASE refresh.path = "none" /\ w = Find
        <4>1. w = "expired" => Gone /\ side["discarded"] = NoRecord
          BY <3>2, FindFinds DEF Gone, Typed
        <4>2. w = "expired" => Dead(refresh.rec)
          BY <1>19, <3>2, <4>1 DEF ExpiredAlone, Alone
        <4> QED BY <1>3, <2>2, <2>4, <4>2 DEF Dead
      <3> QED BY <2>4, <3>1, <3>2
    <2> QED BY <1>19, <2>3, <2>4 DEF Back, r
  <1>20. Counts \/ Checks => Goal
    <2>1. "MANUAL_IMPORTED" \in Outcomes /\ "FAILED" \in Outcomes
      BY DEF Outcomes
    <2> QED BY <1>1, <1>2, <1>6, <1>19, <2>1 DEF Counts, Checks
  <1>21. Runs \/ Ages => Goal
    BY <1>2 DEF Runs, Ages
  <1>22. Falls => Goal
    <2> SUFFICES ASSUME Falls
                 PROVE  Goal
      OBVIOUS
    <2>1. I
      BY DEF Falls, I
    <2> QED BY <1>2, <2>1 DEF Falls
  <1>23. Boots \/ Clears \/ Lapses => Goal
    BY <1>2, <1>5 DEF Boots, Clears, Lapses
  <1>24. ASSUME Expires
         PROVE  Goal
    <2>1. PICK b \in BOOLEAN : Stores("expired", Closed(Current, "expired", b))
      BY <1>24 DEF Expires
    <2>2. Current \in Record /\ Current.decision = "REVIEW_REQUIRED" /\ Find # "expired"
      BY <1>7, <1>24, FindFinds DEF Expires, Overdue, Typed
    <2>3. Dead(Closed(Current, "expired", b))
      BY <2>2, RecordUpdates DEF Dead, States
    <2> QED BY <1>2, <1>3, <1>4, <1>24, <2>1, <2>2, <2>3 DEF Expires
  <1>25. Unlinks => Goal
    <2> SUFFICES ASSUME Unlinks
                 PROVE  Goal
      OBVIOUS
    <2>1. X
      BY <1>1 DEF Unlinks, X
    <2> QED BY <1>2, <1>5, <2>1 DEF Unlinks
  <1> HIDE DEF Goal
  <1>26. Goal
    BY <1>10, <1>11, <1>12, <1>13, <1>14, <1>15, <1>16, <1>17, <1>18, <1>20, <1>21, <1>22, <1>23,
       <1>24, <1>25 DEF Kinds
  <1> QED BY <1>26 DEF Goal, X, I, R, ExpiredIsDead

\* A release is gone once it expires, and not by any other step.
LEMMA GoneFrom ==
    ASSUME Base, Kinds, ~Gone, ~Expires
    PROVE  ~Gone'
  <1> USE Names, Resting DEF Base
  <1> DEFINE X == side'["expired"] = NoRecord
             I == \A q \in Importers : importer'[q].path # "expired"
             D == discard'.path # "expired"
             R == refresh'.path # "expired"
             Goal == X /\ I /\ D /\ R
  <1>1. /\ side["expired"] = NoRecord /\ Find # "expired"
        /\ \A q \in Importers : importer[q].path # "expired"
        /\ discard.path # "expired" /\ refresh.path # "expired"
    BY FindFinds DEF Gone, Typed
  <1>2. /\ UNCHANGED side => X
        /\ FolderGoes => X
        /\ UNCHANGED importer => I
        /\ UNCHANGED discard => D
        /\ discard' = NoReader => D
        /\ UNCHANGED refresh => R
        /\ refresh' = NoReader => R
    BY <1>1 DEF FolderGoes
  <1>3. \A w \in Places : \A r : Stores(w, r) /\ w # "expired" => X
    BY <1>1 DEF Stores
  <1>4. \A p \in Importers : \A c, r, w, o, A : Turns(p, c, r, w, o, A) /\ w # "expired" => I
    BY <1>1 DEF Turns
  <1>5. /\ \A p \in Importers : \A c : Moves(p, c) \/ Resets(p, c) => I
        /\ \A A : Keeps(A) => I
    BY <1>1, <1>4 DEF Moves, Resets, Keeps
  <1>6. /\ \A c, r, w : TurnsDiscard(c, r, w) /\ w # "expired" => D
        /\ \A c, r, w : TurnsRefresh(c, r, w) /\ w # "expired" => R
    BY DEF TurnsDiscard, TurnsRefresh
  <1> HIDE DEF X, I, D, R
  <1>7. Waits \/ Switched \/ Restored \/ Opens \/ Holds => Goal
    BY <1>1, <1>2, <1>3, <1>4, <1>5 DEF Waits, Switched, Restored, Opens, Holds
  <1>8. \A p \in Importers : TakesUp(p) \/ Finishes(p) => Goal
    BY <1>1, <1>2, <1>3, <1>4, <1>5 DEF TakesUp, Finishes
  <1>9. \A p \in Importers : Proceeds(p) => Goal
    BY <1>1, <1>2, <1>4, <1>5 DEF Proceeds, Advances, Aborts, Reports
  <1>10. \A p \in Importers : Promotes(p) => Goal
    <2> SUFFICES ASSUME NEW p \in Importers, Promotes(p)
                 PROVE  Goal
      OBVIOUS
    <2>1. importer[p].path \in Places
      BY DEF Promotes, Reads, Holding, At, Reading, Started
    <2> QED BY <1>1, <1>2, <1>3, <1>4, <2>1 DEF Promotes
  <1>11. Discards \/ Removes \/ Blocklists \/ Marks => Goal
    BY <1>1, <1>2, <1>6 DEF Discards, Removes, Blocklists, Marks
  <1>12. Archives => Goal
    <2> SUFFICES ASSUME Archives
                 PROVE  Goal
      OBVIOUS
    <2>1. X
      BY <1>1 DEF Archives, X
    <2> QED BY <1>1, <1>2, <1>6, <2>1 DEF Archives
  <1>13. Reconciles \/ Counts \/ Checks => Goal
    BY <1>1, <1>2, <1>3, <1>6 DEF Reconciles, Counts, Checks, Back
  <1>14. Runs \/ Ages => Goal
    BY <1>2 DEF Runs, Ages
  <1>15. Falls => Goal
    <2> SUFFICES ASSUME Falls
                 PROVE  Goal
      OBVIOUS
    <2>1. I
      BY DEF Falls, I
    <2> QED BY <1>2, <2>1 DEF Falls
  <1>16. Boots \/ Clears \/ Lapses => Goal
    BY <1>2, <1>5 DEF Boots, Clears, Lapses
  <1>17. Unlinks => Goal
    <2> SUFFICES ASSUME Unlinks
                 PROVE  Goal
      OBVIOUS
    <2>1. X
      BY <1>1 DEF Unlinks, X
    <2> QED BY <1>2, <1>5, <2>1 DEF Unlinks
  <1> HIDE DEF Goal
  <1>18. Goal
    BY <1>7, <1>8, <1>9, <1>10, <1>11, <1>12, <1>13, <1>14, <1>15, <1>16, <1>17 DEF Kinds
  <1> QED BY <1>18 DEF Goal, X, I, D, R, Gone

\* An expiry: the process is down, nobody reads, and the record is taken over.
LEMMA ExpiresFacts ==
    ASSUME Base, ExpiredIsDead, Expires
    PROVE  /\ importer["http"] = ImporterAt("idle") /\ discard = NoReader /\ refresh = NoReader
           /\ importer'["http"] = importer["http"] /\ discard' = NoReader /\ refresh' = NoReader
           /\ importer["worker"].pc = "down" /\ importer["worker"].path = "none"
           /\ importer'["worker"].pc = "archived" /\ importer'["worker"].path = Find
           /\ importer'["worker"].rec = importer["worker"].rec
           /\ Find \in {"out", "discarded"}
           /\ side'["out"] = side["out"] /\ side'["discarded"] = side["discarded"]
           /\ side'["expired"] # NoRecord /\ config.old
           /\ Find = "out" <=> side["out"] # NoRecord
           /\ side["out"] # NoRecord => /\ side["out"].decision = "REVIEW_REQUIRED"
                                        /\ side["out"].state = "pending_review"
           /\ side["out"] = NoRecord => side["discarded"] # NoRecord
           /\ config' = config /\ proj' = proj
           /\ folder' = "audio" <=> folder = "audio"
  <1> USE Names, Resting DEF Base
  <1>0. /\ Overdue /\ At("worker", "down")
        /\ UNCHANGED <<lock, discard, refresh, proj, config>>
        /\ Turns("worker", "archived", importer["worker"].rec, Find, importer["worker"].outcome,
                 importer["worker"].applied)
        /\ \E b \in BOOLEAN : Stores("expired", Closed(Current, "expired", b))
    BY DEF Expires
  <1>1. /\ importer["http"] = ImporterAt("idle") /\ discard = NoReader /\ refresh = NoReader
        /\ importer["worker"].pc = "down" /\ importer["worker"].path = "none"
    BY <1>0 DEF Threads, At, Up
  <1>2. Find # "expired" /\ Find # "none"
    BY <1>0, DeadFacts DEF Expires
  <1>3. /\ Find \in Places /\ Current \in Record
        /\ Current = side[Find] /\ side[Find] # NoRecord
    BY <1>2, FindFinds DEF Typed
  <1>4. /\ side["out"] # NoRecord => Find = "out"
        /\ Find = "discarded" => side["out"] = NoRecord
    BY FindFinds DEF Typed
  <1>5. Find \in {"out", "discarded"} /\ (Find = "out" <=> side["out"] # NoRecord)
    BY <1>2, <1>3, <1>4
  <1>6. config.old /\ Current.decision = "REVIEW_REQUIRED" /\ Current.state = "pending_review"
    BY <1>0 DEF Overdue
  <1>7. side["out"] # NoRecord => /\ side["out"].decision = "REVIEW_REQUIRED"
                                  /\ side["out"].state = "pending_review"
    BY <1>3, <1>5, <1>6
  <1>8. side["out"] = NoRecord => side["discarded"] # NoRecord
    BY <1>3, <1>5
  <1>9. PICK b \in BOOLEAN : Stores("expired", Closed(Current, "expired", b))
    BY <1>0
  <1>10. Closed(Current, "expired", b) # NoRecord
    BY <1>3, RecordUpdates, Values DEF States
  <1>11. /\ side'["out"] = side["out"] /\ side'["discarded"] = side["discarded"]
         /\ side'["expired"] # NoRecord
         /\ folder' = "audio" <=> folder = "audio"
    BY <1>9, <1>10 DEF Stores
  <1>12. /\ importer'["worker"].pc = "archived" /\ importer'["worker"].path = Find
         /\ importer'["worker"].rec = importer["worker"].rec
         /\ importer'["http"] = importer["http"]
    BY <1>0 DEF Turns
  <1> QED BY <1>0, <1>1, <1>5, <1>6, <1>7, <1>8, <1>11, <1>12

\* What can happen while the process is up, and while it is down.
LEMMA UpKinds ==
    ASSUME Kinds, Up
    PROVE  ~Boots /\ ~Ages /\ ~Expires /\ ~Unlinks /\ ~Clears /\ ~Lapses
  BY DEF Boots, Ages, Expires, Unlinks, Clears, Lapses, Up, At

LEMMA DownKinds ==
    ASSUME Base, Kinds, ~Up
    PROVE  /\ importer["http"] = ImporterAt("idle") /\ discard = NoReader /\ refresh = NoReader
           /\ importer["worker"].pc \in {"down", "archived", "unlinked", "removed"}
           /\ At("worker", "down") => importer["worker"].path = "none"
           /\ \/ Waits /\ UNCHANGED <<importer, lock>>
              \/ Runs \/ Falls \/ Ages \/ Boots
              \/ Expires \/ Unlinks \/ Clears \/ Lapses
  <1> USE Names, Resting DEF Base
  <1>1. /\ importer["http"] = ImporterAt("idle") /\ discard = NoReader /\ refresh = NoReader
        /\ importer["worker"].pc \in {"down", "archived", "unlinked", "removed"}
        /\ At("worker", "down") => importer["worker"].path = "none"
    BY DEF Threads, Up
  <1>2. ~Switched /\ ~Restored /\ ~Opens /\ ~Holds
    BY <1>1 DEF Switched, Restored, Opens, Holds, Creating, At
  <1>3. \A p \in Importers : ~TakesUp(p) /\ ~Proceeds(p) /\ ~Promotes(p) /\ ~Finishes(p)
    BY <1>1 DEF TakesUp, Proceeds, Promotes, Finishes, At, Started
  <1>4. /\ ~Discards /\ ~Removes /\ ~Blocklists /\ ~Archives /\ ~Marks
        /\ ~Reconciles /\ ~Counts /\ ~Checks
    BY <1>1 DEF Discards, Removes, Blocklists, Archives, Marks, Reconciles, Counts, Checks
  <1>5. Waits => UNCHANGED <<importer, lock>>
    BY <1>1 DEF Waits, At
  <1> QED BY <1>1, <1>2, <1>3, <1>4, <1>5 DEF Kinds

\* While the process is up nobody reaches the output folder of an expired release,
LEMMA AloneWhileUp ==
    ASSUME Base, ExpiredIsDead, Alone, Kinds, Up
    PROVE  Alone'
  <1> USE Names, Resting DEF Base
  <1> DEFINE X == side'["out"] = NoRecord
             T == side'["discarded"] = NoRecord => side["discarded"] = NoRecord
             I == \A q \in Importers : importer'[q].path # "out" /\ importer'[q].pc # "reviewing"
             D == discard'.path # "out"
             R == refresh'.path # "out"
             P == refresh'.pc # "idle" /\ refresh'.path = "none" /\ side'["discarded"] = NoRecord
                     => Dead(refresh'.rec)
             Goal == X /\ I /\ D /\ R /\ P
  <1>1. /\ side["out"] = NoRecord /\ Find # "out"
        /\ \A q \in Importers : importer[q].path # "out" /\ importer[q].pc # "reviewing"
        /\ discard.path # "out" /\ refresh.path # "out"
        /\ refresh.pc # "idle" /\ refresh.path = "none" /\ side["discarded"] = NoRecord
              => Dead(refresh.rec)
    <2>1. side["out"] = NoRecord
      BY DEF Alone, Up
    <2>2. Find # "out"
      BY <2>1, FindFinds DEF Typed
    <2>3. importer["http"].pc # "reviewing" /\ importer["worker"].pc # "reviewing"
      BY DEF Alone, Creating, At, Threads
    <2> QED BY <2>1, <2>2, <2>3 DEF Alone
  <1>2. /\ UNCHANGED side => X /\ T
        /\ FolderGoes => X /\ T
        /\ UNCHANGED importer => I
        /\ UNCHANGED discard => D
        /\ discard' = NoReader => D
        /\ UNCHANGED refresh => R
        /\ refresh' = NoReader => R /\ P
        /\ UNCHANGED refresh /\ T => P
    BY <1>1 DEF FolderGoes
  <1>3. \A w \in Places : \A r : Stores(w, r) /\ w # "out" /\ r # NoRecord => X /\ T
    BY <1>1 DEF Stores
  <1>4. \A p \in Importers : \A c, r, w, o, A :
           Turns(p, c, r, w, o, A) /\ w # "out" /\ c # "reviewing" => I
    BY <1>1 DEF Turns
  <1>5. /\ \A p \in Importers : \A c : (Moves(p, c) \/ Resets(p, c)) /\ c # "reviewing" => I
        /\ \A A : Keeps(A) => I
    BY <1>1, <1>4 DEF Moves, Resets, Keeps
  <1>6. /\ \A c, r, w : TurnsDiscard(c, r, w) /\ w # "out" => D
        /\ \A c, r, w : TurnsRefresh(c, r, w) /\ w # "out" => R
        /\ \A c, r, w : TurnsRefresh(c, r, w) /\ (c = "idle" \/ w # "none") => P
        /\ \A c, r, w : TurnsRefresh(c, r, w) /\ T /\ (side["discarded"] = NoRecord => Dead(r)) => P
    BY DEF TurnsDiscard, TurnsRefresh
  <1> HIDE DEF X, T, I, D, R, P
  <1>7. Waits \/ Switched \/ Restored => Goal
    BY <1>1, <1>2, <1>4, <1>5 DEF Waits, Switched, Restored
  <1>8. ~Opens /\ ~Holds
    BY <1>1 DEF Opens, Holds, Creating, At
  <1>9. \A p \in Importers : TakesUp(p) => Goal
    BY <1>1, <1>2, <1>4 DEF TakesUp
  <1>10. \A p \in Importers : Proceeds(p) => Goal
    <2>1. \A c \in Started : c # "reviewing"
      BY DEF Started
    <2> QED BY <1>1, <1>2, <1>4, <1>5, <2>1 DEF Proceeds, Advances, Aborts, Reports
  <1>11. \A p \in Importers : Promotes(p) => Goal
    <2> SUFFICES ASSUME NEW p \in Importers, Promotes(p)
                 PROVE  Goal
      OBVIOUS
    <2>1. importer[p].path \in Places /\ importer[p].rec \in Record
      BY DEF Promotes, Reads, Holding, At, Reading, Started
    <2>2. Promoted(importer[p].rec) # NoRecord
      BY <2>1, RecordUpdates, Values
    <2> QED BY <1>1, <1>2, <1>3, <1>4, <2>1, <2>2 DEF Promotes
  <1>12. \A p \in Importers : Finishes(p) => Goal
    <2> SUFFICES ASSUME NEW p \in Importers, Finishes(p)
                 PROVE  Goal
      OBVIOUS
    <2>1. importer[p].rec \in Record /\ importer[p].outcome \in Outcomes
      <3>1. importer[p].rec \in Record /\ importer[p].outcome # "none"
        BY DEF Finishes, Reads, Holding, At, Reading, Started
      <3>2. importer[p].outcome \in Outcomes \cup {"none"}
        BY ImporterFields DEF Typed
      <3> QED BY <3>1, <3>2
    <2>2. Outcome(importer[p].rec, importer[p].outcome) # NoRecord
      BY <2>1, RecordUpdates, Values
    <2> QED BY <1>1, <1>2, <1>3, <1>5, <2>2 DEF Finishes
  <1>13. Discards \/ Removes \/ Blocklists \/ Marks => Goal
    BY <1>1, <1>2, <1>6 DEF Discards, Removes, Blocklists, Marks
  <1>14. Archives => Goal
    <2> SUFFICES ASSUME Archives
                 PROVE  Goal
      OBVIOUS
    <2>1. discard.rec # NoRecord
      BY Values DEF Reads, Archives
    <2>2. X /\ T
      BY <1>1, <2>1 DEF Archives, X, T
    <2> QED BY <1>1, <1>2, <1>6, <2>2 DEF Archives
  <1>15. Reconciles => Goal
    <2> SUFFICES ASSUME Reconciles
                 PROVE  Goal
      OBVIOUS
    <2>1. side["discarded"] = NoRecord => Dead(Current)
      <3>1. Find # "none"
        BY DEF Reconciles
      <3>2. Find = "discarded" => side["discarded"] # NoRecord
        BY FindFinds DEF Typed
      <3>3. Find = "expired" => Dead(Current)
        BY DeadFacts
      <3>4. Find \in AnyPath
        BY FindFinds DEF Typed
      <3> QED BY <1>1, <3>1, <3>2, <3>3, <3>4
    <2> QED BY <1>1, <1>2, <1>6, <2>1 DEF Reconciles
  <1>16. \A o \in Outcomes : Back(o) /\ refresh.pc # "idle" => X /\ T
    <2> SUFFICES ASSUME NEW o \in Outcomes, Back(o), refresh.pc # "idle"
                 PROVE  X /\ T
      OBVIOUS
    <2>1. Outcome(refresh.rec, o) # NoRecord
      BY RecordUpdates, Values DEF Reads
    <2> QED BY <1>1, <1>2, <1>3, <2>1 DEF Back
  <1>17. Counts \/ Checks => Goal
    <2>1. "MANUAL_IMPORTED" \in Outcomes /\ "FAILED" \in Outcomes
      BY DEF Outcomes
    <2>2. Counts /\ refresh'.pc = "pending" /\ UNCHANGED side
              /\ TurnsRefresh("pending", refresh.rec, refresh.path) => P
      BY <1>1, <1>2, <1>6 DEF Counts
    <2> QED BY <1>1, <1>2, <1>6, <1>16, <2>1, <2>2 DEF Counts, Checks, TurnsRefresh
  <1>18. Runs \/ Ages => Goal
    BY <1>2 DEF Runs, Ages
  <1>19. Falls => Goal
    <2> SUFFICES ASSUME Falls
                 PROVE  Goal
      OBVIOUS
    <2>1. I
      BY DEF Falls, I
    <2> QED BY <1>2, <2>1 DEF Falls
  <1>20. ~Boots /\ ~Expires /\ ~Unlinks /\ ~Clears /\ ~Lapses
    BY UpKinds
  <1> HIDE DEF Goal
  <1>21. Goal
    BY <1>7, <1>8, <1>9, <1>10, <1>11, <1>12, <1>13, <1>14, <1>15, <1>17, <1>18, <1>19, <1>20
    DEF Kinds
  <1> QED BY <1>21 DEF Goal, X, I, D, R, P, Alone, Creating, At

\* nor while it is down, and it starts only when the record is gone from there.
LEMMA AloneWhileDown ==
    ASSUME Base, Alone, Kinds, ~Expires, ~Up
    PROVE  Alone'
  <1> USE Names, Resting DEF Base
  <1>1. /\ importer["http"] = ImporterAt("idle") /\ discard = NoReader /\ refresh = NoReader
        /\ importer["worker"].pc \in {"down", "archived", "unlinked", "removed"}
        /\ At("worker", "down") => importer["worker"].path = "none"
    BY DownKinds
  <1>2. /\ side["out"] # NoRecord =>
              /\ importer["worker"].pc \in {"down", "archived"} /\ config.old
              /\ side["out"].decision = "REVIEW_REQUIRED"
              /\ side["out"].state = "pending_review"
              /\ At("worker", "archived") => importer["worker"].path = "out"
    BY DEF Alone
  <1>3. UNCHANGED <<importer, discard, refresh, side>> /\ config'.old = config.old => Alone'
    BY DEF Alone, Creating, At, Up
  <1>4. \/ Waits /\ UNCHANGED <<importer, lock>>
        \/ Runs \/ Falls \/ Ages \/ Boots \/ Unlinks \/ Clears \/ Lapses
    BY DownKinds
  <1>7. (Waits /\ UNCHANGED importer) \/ Runs => Alone'
    BY <1>1, <1>3 DEF Waits, Runs
  <1>8. Ages => Alone'
    BY <1>1, <1>2 DEF Ages, Alone, Creating, At, Up
  <1>9. Falls => Alone'
    BY <1>1, <1>2 DEF Falls, Alone, Creating, At, Up
  <1>10. Boots => Alone'
    <2> SUFFICES ASSUME Boots
                 PROVE  Alone'
      OBVIOUS
    <2>1. side["out"] = NoRecord
      <3>1. side["out"] # NoRecord => Current = side["out"]
        BY FindFinds DEF Typed
      <3> QED BY <1>2, <3>1 DEF Boots, Overdue
    <2>2. /\ UNCHANGED <<discard, refresh, side, config>>
          /\ importer'["http"] = importer["http"] /\ importer'["worker"].pc = "idle"
          /\ importer'["worker"].path = "none"
      BY <1>1 DEF Boots, Moves, Turns
    <2> QED BY <1>1, <2>1, <2>2 DEF Alone, Creating, At, Up
  <1>11. Unlinks => Alone'
    <2> SUFFICES ASSUME Unlinks
                 PROVE  Alone'
      OBVIOUS
    <2>1. side'["out"] = NoRecord
      BY <1>2 DEF Unlinks
    <2>2. /\ UNCHANGED <<discard, refresh, config>>
          /\ importer'["http"] = importer["http"] /\ importer'["worker"].pc = "unlinked"
      BY DEF Unlinks, Moves, Turns
    <2> QED BY <1>1, <2>1, <2>2 DEF Alone, Creating, At, Up
  <1>12. Clears => Alone'
    <2> SUFFICES ASSUME Clears
                 PROVE  Alone'
      OBVIOUS
    <2>1. side'["out"] = NoRecord
      BY DEF Clears, FolderGoes
    <2>2. /\ UNCHANGED <<discard, refresh, config>>
          /\ importer'["http"] = importer["http"] /\ importer'["worker"].pc = "removed"
      BY DEF Clears, Moves, Turns
    <2> QED BY <1>1, <2>1, <2>2 DEF Alone, Creating, At, Up
  <1>13. Lapses => Alone'
    <2> SUFFICES ASSUME Lapses
                 PROVE  Alone'
      OBVIOUS
    <2>1. side["out"] = NoRecord
      BY <1>2 DEF Lapses, At
    <2>2. /\ UNCHANGED <<discard, refresh, side, config>>
          /\ importer'["http"] = importer["http"] /\ importer'["worker"].pc = "down"
      BY DEF Lapses, Resets, Turns
    <2> QED BY <1>1, <2>1, <2>2 DEF Alone, Creating, At, Up
  <1> QED BY <1>4, <1>7, <1>8, <1>9, <1>10, <1>11, <1>12, <1>13

LEMMA StepExpiredAlone ==
    ASSUME Base, ExpiredIsDead, ExpiredAlone, Kinds
    PROVE  ExpiredAlone'
  <1>1. CASE Expires
    <2>1. Alone'
      BY <1>1, ExpiresFacts, Resting DEF Alone, Creating, At, Up
    <2> QED BY <2>1 DEF ExpiredAlone
  <1>2. CASE ~Expires /\ ~Gone
    BY <1>2, GoneFrom DEF ExpiredAlone
  <1>3. CASE ~Expires /\ Gone
    <2>1. Alone
      BY <1>3 DEF ExpiredAlone
    <2>2. Alone'
      BY <1>3, <2>1, AloneWhileUp, AloneWhileDown
    <2> QED BY <2>2 DEF ExpiredAlone
  <1> QED BY <1>1, <1>2, <1>3

\* The archive has the record before the output folder loses it.
LEMMA StepExpiring ==
    ASSUME Base, ExpiredIsDead, Expiring, Kinds
    PROVE  Expiring'
  <1> USE Names, Resting DEF Base
  <1> DEFINE Past == {"archived", "unlinked", "removed"}
             Goal == importer'["worker"].pc \notin Past
  <1>1. CASE Expires
    BY <1>1, ExpiresFacts DEF Expiring, At
  <1>2. CASE Up
    <2>1. importer["worker"].pc \notin Past
      BY <1>2 DEF Up
    <2>2. UNCHANGED importer => Goal
      BY <2>1
    <2>3. \A p \in Importers : \A c, r, w, o, A : Turns(p, c, r, w, o, A) /\ c \notin Past => Goal
      BY <2>1 DEF Turns
    <2>4. /\ \A p \in Importers : \A c : (Moves(p, c) \/ Resets(p, c)) /\ c \notin Past => Goal
          /\ \A A : Keeps(A) /\ At("http", "restoring") => Goal
      BY <2>3 DEF Moves, Resets, Keeps, At
    <2> HIDE DEF Goal
    <2>5. Waits \/ Switched \/ Restored \/ Opens \/ Holds => Goal
      BY <2>2, <2>3, <2>4 DEF Waits, Switched, Restored, Opens, Holds
    <2>6. \A p \in Importers : TakesUp(p) \/ Promotes(p) \/ Finishes(p) => Goal
      BY <2>3, <2>4 DEF TakesUp, Promotes, Finishes
    <2>7. \A p \in Importers : Proceeds(p) => Goal
      <3>1. \A c \in Started : c \notin Past
        BY DEF Started
      <3> QED BY <2>3, <2>4, <3>1 DEF Proceeds, Advances, Aborts, Reports
    <2>8. Discards \/ Removes \/ Blocklists \/ Archives \/ Marks \/ Reconciles \/ Counts
            \/ Checks \/ Runs => Goal
      BY <2>2 DEF Discards, Removes, Blocklists, Archives, Marks, Reconciles, Counts, Checks, Runs
    <2>9. Falls => Goal
      BY DEF Falls, Goal
    <2>10. Goal
      BY <1>2, <2>5, <2>6, <2>7, <2>8, <2>9, UpKinds DEF Kinds
    <2> QED BY <2>10 DEF Goal, Expiring, At
  <1>3. CASE ~Up /\ ~Expires
    <2>1. (Waits /\ UNCHANGED <<importer, lock>>) \/ Runs \/ Ages => Expiring'
      BY DEF Waits, Runs, Ages, Expiring, At
    <2>2. Falls \/ Boots \/ Lapses => Expiring'
      BY DEF Falls, Boots, Lapses, Moves, Resets, Turns, Expiring, At
    <2>3. Unlinks => Expiring'
      <3> SUFFICES ASSUME Unlinks
                   PROVE  Expiring'
        OBVIOUS
      <3>1. side["expired"] # NoRecord /\ importer["worker"].path # "expired"
        BY DEF Unlinks, Expiring, At
      <3>2. side'["expired"] # NoRecord
        BY <3>1 DEF Unlinks
      <3> QED BY <3>2 DEF Unlinks, Moves, Turns, Expiring, At
    <2>4. Clears => Expiring'
      BY DEF Clears, FolderGoes, Moves, Turns, Expiring, At
    <2> QED BY <1>3, <2>1, <2>2, <2>3, <2>4, DownKinds
  <1> QED BY <1>1, <1>2, <1>3

\* What a thread that reads the record now finds in it, with a review's files there.
LEMMA FoundReviewed ==
    ASSUME Base, FilesHeld, ExpiredIsDead, folder = "audio", side["out"].decision \notin Accepts
    PROVE  Current.decision \notin Accepts /\ Find # "discarded"
  <1> USE Names DEF Base
  <1>1. Find # "discarded"
    BY FindFinds DEF Typed, FilesHeld
  <1>2. Find = "expired" => Current.decision \notin Accepts
    BY DeadFacts DEF Dead, Accepts
  <1>3. Find = "none" => Current.decision \notin Accepts
    BY FindFinds, Values DEF Typed, Accepts
  <1>4. Find = "out" => Current = side["out"]
    BY FindFinds DEF Typed
  <1>5. Find \in AnyPath
    BY FindFinds DEF Typed
  <1> QED BY <1>1, <1>2, <1>3, <1>4, <1>5

\* The creation of a review is over once it is on hold.
LEMMA CreatingEnds ==
    ASSUME Base, Kinds
    PROVE  /\ Creating' => Creating
           /\ Creating /\ ~Creating' => Holds
  <1> USE Names, Resting DEF Base
  <1> DEFINE Same == importer'["worker"].pc = importer["worker"].pc
             Goal == /\ importer'["worker"].pc = "reviewing" => importer["worker"].pc = "reviewing"
                     /\ importer["worker"].pc = "reviewing" => Same
  <1>1. UNCHANGED importer => Goal
    OBVIOUS
  <1>2. /\ \A c, r, w, o, A : Turns("http", c, r, w, o, A) => Goal
        /\ \A c, r, w, o, A : Turns("worker", c, r, w, o, A) /\ c # "reviewing"
                                 /\ importer["worker"].pc # "reviewing" => Goal
    BY DEF Turns
  <1>3. /\ \A c : Moves("http", c) \/ Resets("http", c) => Goal
        /\ \A c : (Moves("worker", c) \/ Resets("worker", c)) /\ c # "reviewing"
                     /\ importer["worker"].pc # "reviewing" => Goal
        /\ \A A : Keeps(A) => Goal
    BY <1>2 DEF Moves, Resets, Keeps
  <1> HIDE DEF Goal
  <1>4. Waits \/ Switched \/ Restored => Goal
    BY <1>1, <1>2, <1>3 DEF Waits, Switched, Restored, At
  <1>5. Opens => Goal
    BY DEF Opens, Creating, At, Turns, Goal
  <1>6. \A p \in Importers : TakesUp(p) \/ Promotes(p) \/ Finishes(p) => Goal
    BY <1>2, <1>3 DEF TakesUp, Promotes, Finishes, At
  <1>7. ASSUME NEW p \in Importers, Proceeds(p)
        PROVE  Goal
    <2>1. \A c \in Started : c # "reviewing"
      BY DEF Started
    <2>2. p = "worker" => importer["worker"].pc # "reviewing"
      BY <1>7 DEF Proceeds, Started
    <2> QED BY <1>2, <1>3, <1>7, <2>1, <2>2 DEF Proceeds, Advances, Aborts, Reports
  <1>8. Discards \/ Removes \/ Blocklists \/ Archives \/ Marks \/ Reconciles \/ Counts \/ Checks
          \/ Runs \/ Ages => Goal
    BY <1>1 DEF Discards, Removes, Blocklists, Archives, Marks, Reconciles, Counts, Checks, Runs,
                Ages
  <1>9. Falls => Goal
    BY DEF Falls, Creating, At, Goal
  <1>10. Boots \/ Expires \/ Unlinks \/ Clears \/ Lapses => Goal
    BY <1>2, <1>3 DEF Boots, Expires, Unlinks, Clears, Lapses, At
  <1>11. Holds => ~Creating'
    BY DEF Holds, Resets, Turns, Creating, At
  <1>12. Holds \/ Goal
    BY <1>4, <1>5, <1>6, <1>7, <1>8, <1>9, <1>10 DEF Kinds
  <1> QED BY <1>11, <1>12 DEF Goal, Creating, At, Holds

\* With its files there, a release comes under review only as the review is created.
LEMMA ReviewedFrom ==
    ASSUME Base, FilesHeld, Kinds, folder' = "audio", ~Creating,
           side["out"].decision # "REVIEW_REQUIRED"
    PROVE  side'["out"].decision # "REVIEW_REQUIRED"
  <1> USE Names, Resting DEF Base
  <1> DEFINE X == side'["out"].decision # "REVIEW_REQUIRED"
  <1>0. folder = "audio"
    BY StepMonotonic DEF Monotonic
  <1>1. /\ UNCHANGED side => X
        /\ \A w \in Places : \A r : Stores(w, r) /\ w # "out" => X
        /\ \A w \in Places : \A r : Stores(w, r) /\ r.decision \in Accepts => X
    BY DEF Stores, Accepts
  <1> HIDE DEF X
  <1>2. Waits \/ Switched \/ Restored => X
    BY <1>1 DEF Waits, Switched, Restored
  <1>3. ~Opens /\ ~Holds
    BY DEF Opens, Holds
  <1>4. \A p \in Importers : TakesUp(p) \/ Proceeds(p) => X
    BY <1>1 DEF TakesUp, Proceeds
  <1>5. ASSUME NEW p \in Importers, Promotes(p)
        PROVE  X
    <2>1. importer[p].rec \in Record /\ importer[p].path \in Places
      BY <1>5 DEF Promotes, Reads, Holding, At, Reading, Started
    <2> QED BY <1>1, <1>5, <2>1, RecordUpdates DEF Promotes, Accepts
  <1>6. ASSUME NEW p \in Importers, Finishes(p)
        PROVE  X
    <2>1. CASE importer[p].path = "none"
      BY <1>1, <1>6, <2>1 DEF Finishes
    <2>2. CASE importer[p].path \in Places
      <3>1. /\ importer[p].rec \in Record /\ importer[p].rec.decision \in Accepts
            /\ importer[p].outcome # "none"
        BY <1>6, <2>2 DEF Finishes, Reads, Holding, At, Reading, Started
      <3>2. importer[p].outcome \in Outcomes
        BY <3>1, ImporterFields DEF Typed
      <3> QED BY <1>1, <1>6, <2>2, <3>1, <3>2, RecordUpdates DEF Finishes
    <2> QED BY <1>6, <2>1, <2>2 DEF Finishes
  <1>7. Discards \/ Blocklists \/ Marks \/ Reconciles \/ Runs \/ Falls \/ Ages \/ Boots \/ Lapses => X
    BY <1>1 DEF Discards, Blocklists, Marks, Reconciles, Runs, Falls, Ages, Boots, Lapses
  <1>8. ~Removes /\ ~Archives /\ ~Clears
    BY <1>0 DEF Removes, Archives, Clears, FolderGoes, FilesHeld
  <1>9. Counts => X
    BY <1>0, <1>1 DEF Counts
  <1>10. ASSUME Checks
         PROVE  X
    <2>1. CASE UNCHANGED side
      BY <1>1, <2>1
    <2>2. CASE refresh.rec.decision \in Accepts /\ Back("FAILED")
      <3>1. refresh.rec \in Record /\ "FAILED" \in Outcomes
        BY <1>10 DEF Checks, Reads, Outcomes
      <3> QED BY <1>1, <2>2, <3>1, RecordUpdates DEF Back
    <2> QED BY <1>10, <2>1, <2>2 DEF Checks
  <1>11. Expires => X
    BY <1>1 DEF Expires
  <1>12. Unlinks => X
    BY Values DEF Unlinks, X
  <1> QED BY <1>2, <1>3, <1>4, <1>5, <1>6, <1>7, <1>8, <1>9, <1>10, <1>11, <1>12 DEF Kinds, X

\* What stands in the way of an import: a review with its files, or an expired release.
Withheld == Creating \/ side["out"].decision = "REVIEW_REQUIRED" \/ Gone

LEMMA WithheldFrom ==
    ASSUME Base, FilesHeld, ExpiredIsDead, Kinds, folder' = "audio", Withheld'
    PROVE  Withheld
  <1> SUFFICES ASSUME ~Withheld
               PROVE  FALSE
    OBVIOUS
  <1>1. ~Creating /\ side["out"].decision # "REVIEW_REQUIRED" /\ ~Gone
    BY DEF Withheld
  <1>2. ~Creating'
    BY <1>1, CreatingEnds
  <1>3. side'["out"].decision # "REVIEW_REQUIRED"
    BY <1>1, ReviewedFrom
  <1>4. ~Expires
    <2> SUFFICES ASSUME Expires
                 PROVE  FALSE
      OBVIOUS
    <2>1. side["out"] = NoRecord
      BY <1>1, ExpiresFacts
    <2>2. side["discarded"] # NoRecord
      BY <2>1, ExpiresFacts
    <2>3. folder = "audio"
      BY ExpiresFacts
    <2> QED BY <2>2, <2>3 DEF FilesHeld
  <1>5. ~Gone'
    BY <1>1, <1>4, GoneFrom
  <1> QED BY <1>2, <1>3, <1>5 DEF Withheld

\* Nobody promotes it on the way.
LEMMA NoPromotion ==
    ASSUME Base, FilesHeld, ExpiredIsDead, ExpiredAlone, Kinds, folder' = "audio", Withheld',
           NEW p \in Importers
    PROVE  ~Promotes(p)
  <1> USE Names, Resting DEF Base
  <1> SUFFICES ASSUME Promotes(p)
               PROVE  FALSE
    OBVIOUS
  <1>0. /\ folder = "audio" /\ At(p, "act") /\ _is_promotable(importer[p].rec)
        /\ Stores(importer[p].path, Promoted(importer[p].rec))
        /\ importer[p].rec \in Record /\ importer[p].path \in Places
    BY StepMonotonic DEF Monotonic, Promotes, Reads, Holding, At, Reading
  <1>1. importer[p].path = "out"
    BY <1>0, DeadFacts DEF FilesHeld
  <1>2. side'["out"].decision = "ACCEPT_PROVISIONAL"
    BY <1>0, <1>1, RecordUpdates DEF Stores
  <1>3. Up /\ ~Creating
    BY <1>0 DEF Threads, At, Up, Creating
  <1>4. ~Creating'
    BY <1>3, CreatingEnds
  <1>5. ~Gone
    BY <1>1, <1>3 DEF ExpiredAlone, Alone
  <1>6. ~Expires
    BY <1>3, UpKinds
  <1>7. ~Gone'
    BY <1>5, <1>6, GoneFrom
  <1> QED BY <1>2, <1>4, <1>7 DEF Withheld

LEMMA StepUntouched ==
    ASSUME Base, FilesHeld, ExpiredIsDead, ExpiredAlone, Untouched, Kinds
    PROVE  Untouched'
  <1> USE Names, Resting DEF Base
  <1> SUFFICES ASSUME folder' = "audio", Withheld'
               PROVE  /\ ~lidarr'.queued
                      /\ side'["out"].decision \notin Accepts
                      /\ \A p \in Importers : importer'[p].rec.decision \notin Accepts
                      /\ refresh'.rec.decision \notin Accepts
    BY DEF Untouched, Withheld
  <1>1. Withheld /\ folder = "audio"
    BY WithheldFrom, StepMonotonic DEF Monotonic
  <1>2. /\ ~lidarr.queued
        /\ side["out"].decision \notin Accepts
        /\ \A p \in Importers : importer[p].rec.decision \notin Accepts
        /\ refresh.rec.decision \notin Accepts
    BY <1>1 DEF Untouched, Withheld
  <1> DEFINE Q == ~lidarr'.queued
             X == side'["out"].decision \notin Accepts
             I == \A q \in Importers : importer'[q].rec.decision \notin Accepts
             R == refresh'.rec.decision \notin Accepts
             Goal == Q /\ X /\ I /\ R
  <1>3. /\ UNCHANGED lidarr \/ LidarrElse => Q
        /\ \A a, b, d, e : Lidarr(a, lidarr.queued, b, d, e) => Q
        /\ UNCHANGED side => X
        /\ UNCHANGED importer => I
        /\ UNCHANGED refresh => R
        /\ refresh' = NoReader => R
    BY <1>2, Values DEF Lidarr, LidarrElse, Accepts
  <1>4. \A w \in Places : \A r : Stores(w, r) /\ (w # "out" \/ r.decision \notin Accepts) => X
    BY <1>2 DEF Stores
  <1>5. \A p \in Importers : \A c, r, w, o, A :
           Turns(p, c, r, w, o, A) /\ r.decision \notin Accepts => I
    BY <1>2 DEF Turns
  <1>6. /\ \A p \in Importers : \A c : Moves(p, c) \/ Resets(p, c) => I
        /\ \A A : Keeps(A) => I
    BY <1>2, <1>5, Values DEF Moves, Resets, Keeps, Accepts
  <1>7. \A c, r, w : TurnsRefresh(c, r, w) /\ r.decision \notin Accepts => R
    BY DEF TurnsRefresh
  <1>8. Current.decision \notin Accepts /\ NoRecord.decision \notin Accepts
    BY <1>1, <1>2, FoundReviewed, Values DEF Accepts
  <1> HIDE DEF Q, X, I, R
  <1>9. Waits \/ Switched \/ Restored => Goal
    BY <1>2, <1>3, <1>5, <1>6 DEF Waits, Switched, Restored
  <1>10. ReviewRecord.decision \notin Accepts
    BY DEF ReviewRecord, NewRecord, NoRecord, Accepts
  <1>11. Opens => Goal
    BY <1>3, <1>4, <1>5, <1>10 DEF Opens
  <1>12. Holds => Goal
    <2> SUFFICES ASSUME Holds
                 PROVE  Goal
      OBVIOUS
    <2>1. \A b \in BOOLEAN : Judged(importer["worker"].rec, b).decision \notin Accepts
      <3>1. importer["worker"].rec \in Record
        BY DEF Holds, Threads
      <3> QED BY <1>2, <3>1, RecordUpdates
    <2> QED BY <1>3, <1>4, <1>6, <2>1 DEF Holds
  <1>13. \A p \in Importers : TakesUp(p) => Goal
    BY <1>3, <1>5, <1>8 DEF TakesUp
  <1>14. ASSUME NEW p \in Importers, Proceeds(p)
         PROVE  Goal
    <2>1. I
      BY <1>2, <1>5, <1>6, <1>14 DEF Proceeds, Advances, Aborts, Reports
    <2>2. importer[p].pc # "post"
      BY <1>2 DEF Reads, Holding, Started
    <2>3. Q
      BY <1>2, <1>14, <2>2 DEF Proceeds, Q
    <2> QED BY <1>3, <1>14, <2>1, <2>3 DEF Proceeds
  <1>15. \A p \in Importers : ~Promotes(p)
    BY NoPromotion
  <1>16. ASSUME NEW p \in Importers, Finishes(p)
         PROVE  Goal
    <2>1. importer[p].path = "none"
      BY <1>2, <1>16 DEF Finishes, Reads, Holding, At, Started
    <2>2. UNCHANGED side
      BY <1>16, <2>1 DEF Finishes
    <2> QED BY <1>3, <1>6, <1>16, <2>2 DEF Finishes
  <1>17. Discards \/ Blocklists \/ Marks => Goal
    BY <1>3 DEF Discards, Blocklists, Marks
  <1>18. ~Removes /\ ~Archives /\ ~Clears
    BY <1>1 DEF Removes, Archives, Clears, FolderGoes, FilesHeld
  <1>19. Reconciles => Goal
    BY <1>3, <1>7, <1>8 DEF Reconciles
  <1>20. Counts \/ Checks => Goal
    BY <1>1, <1>2, <1>3, <1>7, <1>8 DEF Counts, Checks
  <1>21. Runs => Goal
    BY <1>2 DEF Runs
  <1>22. Falls => Goal
    <2> SUFFICES ASSUME Falls
                 PROVE  Goal
      OBVIOUS
    <2>1. \A q \in Importers : importer'[q].rec = NoRecord
      BY DEF Falls
    <2>2. I
      BY <1>8, <2>1 DEF I
    <2> QED BY <1>3, <2>2 DEF Falls
  <1>23. Ages \/ Boots \/ Lapses => Goal
    BY <1>3, <1>6 DEF Ages, Boots, Lapses
  <1>24. Expires => Goal
    BY <1>2, <1>3, <1>4, <1>5 DEF Expires
  <1>25. Unlinks => Goal
    <2> SUFFICES ASSUME Unlinks
                 PROVE  Goal
      OBVIOUS
    <2>1. X
      BY <1>2, <1>8 DEF Unlinks, X
    <2> QED BY <1>3, <1>6, <2>1 DEF Unlinks
  <1> HIDE DEF Goal
  <1>26. Goal
    BY <1>9, <1>11, <1>12, <1>13, <1>14, <1>15, <1>16, <1>17, <1>18, <1>19, <1>20, <1>21, <1>22,
       <1>23, <1>24, <1>25 DEF Kinds
  <1> QED BY <1>26 DEF Goal, Q, X, I, R

\* There is a current record as long as there is one in some place.
LEMMA NoneIsCurrent ==
    /\ Current = NoRecord <=> \A w \in Places : side[w] = NoRecord
    /\ (Current = NoRecord)' <=> \A w \in Places : side'[w] = NoRecord
  BY Names DEF Current, Find

\* Only the removal of the folder by a discard takes a record without leaving one.
LEMMA RecordsRemain ==
    ASSUME Base, Expiring, Kinds, ~Removes, NEW v \in Places, side[v] # NoRecord
    PROVE  \E w \in Places : side'[w] # NoRecord
  <1> USE Names, Resting DEF Base
  <1> DEFINE X == \E w \in Places : side'[w] # NoRecord
  <1>1. /\ UNCHANGED side => X
        /\ \A w \in Places : \A r : Stores(w, r) /\ r # NoRecord => X
    BY DEF Stores
  <1> HIDE DEF X
  <1>2. Waits \/ Switched \/ Restored => X
    BY <1>1 DEF Waits, Switched, Restored
  <1>3. Opens => X
    BY <1>1, ReviewRecordIs, Values DEF Opens
  <1>4. Holds => X
    <2>0. Creating /\ lock = "worker" => importer["worker"].rec \in Record
      BY DEF Threads
    <2>1. Holds => importer["worker"].rec \in Record
      BY <2>0 DEF Holds
    <2>2. Holds => \A b \in BOOLEAN : Judged(importer["worker"].rec, b) # NoRecord
      BY <2>1, RecordUpdates, Values
    <2> QED BY <1>1, <2>2 DEF Holds
  <1>5. \A p \in Importers : TakesUp(p) \/ Proceeds(p) => X
    BY <1>1 DEF TakesUp, Proceeds
  <1>6. ASSUME NEW p \in Importers, Promotes(p)
        PROVE  X
    <2>1. importer[p].rec \in Record /\ importer[p].path \in Places
      BY <1>6 DEF Promotes, Reads, Holding, At, Reading
    <2> QED BY <1>1, <1>6, <2>1, RecordUpdates, Values DEF Promotes
  <1>7. ASSUME NEW p \in Importers, Finishes(p)
        PROVE  X
    <2>1. importer[p].rec \in Record /\ importer[p].outcome # "none"
      BY <1>7 DEF Finishes, Reads, Holding, At, Reading, Started
    <2>2. importer[p].outcome \in Outcomes
      BY <2>1, ImporterFields DEF Typed
    <2> QED BY <1>1, <1>7, <2>1, <2>2, RecordUpdates, Values DEF Finishes
  <1>8. Discards \/ Blocklists \/ Marks \/ Reconciles \/ Runs \/ Falls \/ Ages \/ Boots \/ Lapses => X
    BY <1>1 DEF Discards, Blocklists, Marks, Reconciles, Runs, Falls, Ages, Boots, Lapses
  <1>9. Archives => X
    BY Values DEF Archives, Reads, X
  <1>10. \A o \in Outcomes : Back(o) /\ refresh.pc # "idle" => X
    <2>1. \A o \in Outcomes : refresh.pc # "idle" => Outcome(refresh.rec, o) # NoRecord
      BY RecordUpdates, Values DEF Reads
    <2> QED BY <1>1, <2>1 DEF Back
  <1>11. Counts \/ Checks => X
    <2>1. "MANUAL_IMPORTED" \in Outcomes /\ "FAILED" \in Outcomes
      BY DEF Outcomes
    <2> QED BY <1>1, <1>10, <2>1 DEF Counts, Checks
  <1>12. ASSUME Expires
         PROVE  X
    <2>1. Current \in Record
      BY <1>12, FindFinds DEF Expires, Typed
    <2>2. \A b \in BOOLEAN : Closed(Current, "expired", b) # NoRecord
      BY <2>1, RecordUpdates, Values DEF States
    <2> QED BY <1>1, <1>12, <2>2 DEF Expires
  <1>13. Unlinks \/ Clears => X
    <2>1. Unlinks => side["expired"] # NoRecord /\ importer["worker"].path # "expired"
      BY DEF Unlinks, Expiring, At
    <2>2. Clears => side["expired"] # NoRecord
      BY DEF Clears, Expiring, At
    <2>3. Unlinks => X
      BY <2>1 DEF Unlinks, X
    <2>4. Clears => X
      BY <2>2 DEF Clears, FolderGoes, X
    <2> QED BY <2>3, <2>4
  <1> QED BY <1>2, <1>3, <1>4, <1>5, <1>6, <1>7, <1>8, <1>9, <1>11, <1>12, <1>13 DEF Kinds, X

\* The first record of a review is written as soon as its creation is under way.
LEMMA WritesFirst ==
    ASSUME Base, Kinds, Unwritten, ~Unwritten'
    PROVE  Opens
  <1> USE Names, Resting DEF Base
  <1>1. /\ importer["worker"].pc = "reviewing" /\ importer["http"].pc = "idle" /\ lock = "free"
        /\ discard.pc = "idle" /\ refresh.pc = "idle"
        /\ \A w \in Places : side[w] = NoRecord
    BY DEF Threads, Unwritten, Creating, At
  <1>2. Find = "none" /\ Up
    BY <1>1, FindFinds DEF Typed, Up
  <1>3. UNCHANGED <<importer, lock>> => Unwritten'
    BY DEF Unwritten, Creating, At
  <1>4. ~Waits /\ ~Switched /\ ~Restored /\ ~Holds
    BY <1>1, <1>3 DEF Waits, Switched, Restored, Holds, At
  <1>5. \A p \in Importers : ~TakesUp(p) /\ ~Proceeds(p) /\ ~Promotes(p) /\ ~Finishes(p)
    BY <1>1, <1>2 DEF TakesUp, Proceeds, Promotes, Finishes, At, Started
  <1>6. /\ ~Discards /\ ~Removes /\ ~Blocklists /\ ~Archives /\ ~Marks
        /\ ~Reconciles /\ ~Counts /\ ~Checks
    BY <1>1, <1>2 DEF Discards, Removes, Blocklists, Archives, Marks, Reconciles, Counts, Checks
  <1>7. ~Runs /\ ~Falls
    BY <1>3 DEF Runs, Falls, Unwritten
  <1> QED BY <1>2, <1>4, <1>5, <1>6, <1>7, UpKinds DEF Kinds

LEMMA StepPresent ==
    ASSUME Base, FilesHeld, Expiring, Present, Kinds, Accounts
    PROVE  Present'
  <1> USE Names, Resting DEF Base
  <1>1. Opens => side'["out"] # NoRecord
    BY ReviewRecordIs, Values DEF Opens, Stores
  <1>2. ASSUME folder' = "audio", ~Unwritten'
        PROVE  side'["out"] # NoRecord \/ side'["expired"] # NoRecord
    <2>1. folder = "audio"
      BY <1>2, StepMonotonic DEF Monotonic
    <2>2. CASE Unwritten
      BY <1>1, <1>2, <2>2, WritesFirst
    <2>3. CASE ~Unwritten
      <3>1. side["out"] # NoRecord \/ side["expired"] # NoRecord
        BY <2>1, <2>3 DEF Present
      <3>2. ~Removes
        BY <1>2 DEF Removes, FolderGoes
      <3>3. \E w \in Places : side'[w] # NoRecord
        BY <3>1, <3>2, RecordsRemain
      <3>4. FilesHeld'
        BY StepFilesHeld
      <3>5. side'["discarded"] = NoRecord
        BY <1>2, <3>4 DEF FilesHeld
      <3> QED BY <3>3, <3>5
    <2> QED BY <2>2, <2>3
  <1>3. ASSUME (Current = NoRecord)', spent'.crashes = 0, ~Unwritten'
        PROVE  discard'.pc \in {"blocklist", "archive"}
    <2>1. ~Opens /\ ~Unwritten
      BY <1>1, <1>3, WritesFirst, NoneIsCurrent
    <2>2. CASE Removes
      BY <2>2 DEF Removes, TurnsDiscard
    <2>3. CASE ~Removes
      <3>1. \A w \in Places : side[w] = NoRecord
        BY <1>3, <2>3, RecordsRemain, NoneIsCurrent
      <3>2. discard.pc \in {"blocklist", "archive"}
        <4>1. spent.crashes = 0
          BY <1>3 DEF Accounts, Spends
        <4> QED BY <2>1, <3>1, <4>1, NoneIsCurrent DEF Present
      <3> DEFINE D == discard'.pc \in {"blocklist", "archive"}
      <3>3. UNCHANGED discard => D
        BY <3>2
      <3>4. Blocklists => D
        BY DEF Blocklists, TurnsDiscard
      <3> HIDE DEF D
      <3>5. Waits \/ Switched \/ Restored \/ Holds => D
        BY <3>3 DEF Waits, Switched, Restored, Holds
      <3>6. \A p \in Importers : TakesUp(p) \/ Proceeds(p) \/ Promotes(p) \/ Finishes(p) => D
        BY <3>3 DEF TakesUp, Proceeds, Promotes, Finishes
      <3>7. ~Discards /\ ~Marks
        BY <3>2 DEF Discards, Marks
      <3>8. ~Archives
        <4>1. Archives => side'["discarded"] # NoRecord
          BY Values DEF Archives, Reads
        <4> QED BY <1>3, <4>1, NoneIsCurrent
      <3>9. Reconciles \/ Counts \/ Checks \/ Runs \/ Ages \/ Boots => D
        BY <3>3 DEF Reconciles, Counts, Checks, Runs, Ages, Boots
      <3>10. ~Falls
        BY <1>3, <3>2 DEF Falls, Quiet
      <3>11. Expires \/ Unlinks \/ Clears \/ Lapses => D
        BY <3>3 DEF Expires, Unlinks, Clears, Lapses
      <3> QED BY <2>1, <2>3, <3>4, <3>5, <3>6, <3>7, <3>8, <3>9, <3>10, <3>11 DEF Kinds, D
    <2> QED BY <2>2, <2>3
  <1> QED BY <1>2, <1>3 DEF Present

\* A review about to be created keeps its grab in Lidarr's queue.
LEMMA QueueAwaitsReview ==
    ASSUME Base, FilesHeld, Untouched, Kinds, Creating, folder' = "audio", lidarr.queue
    PROVE  Creating' \/ Holds => lidarr'.queue
  <1> USE Names, Resting DEF Base
  <1>1. /\ importer["worker"].pc = "reviewing" /\ importer["http"].pc \in {"idle", "unlocked"}
        /\ folder = "audio" /\ Up
    BY StepMonotonic DEF Monotonic, Threads, Creating, At, Up
  <1>2. ~lidarr.queued /\ refresh.rec.decision \notin Accepts
    BY <1>1 DEF Untouched
  <1> DEFINE Q == lidarr'.queue
  <1>3. /\ UNCHANGED lidarr \/ LidarrElse => Q
        /\ \A a, b, d, e : Lidarr(lidarr.queue, a, b, d, e) => Q
    BY DEF LidarrElse, Lidarr
  <1> HIDE DEF Q
  <1>4. Waits \/ Switched \/ Restored \/ Opens \/ Holds => Q
    BY <1>3 DEF Waits, Switched, Restored, Opens, Holds
  <1>5. \A p \in Importers : TakesUp(p) => Q
    BY <1>3 DEF TakesUp
  <1>6. \A p \in Importers : ~Proceeds(p) /\ ~Promotes(p) /\ ~Finishes(p)
    BY <1>1 DEF Proceeds, Promotes, Finishes, At, Started
  <1>7. Discards \/ Removes \/ Archives \/ Marks => Q
    BY <1>3 DEF Discards, Removes, Archives, Marks
  <1>8. ~Blocklists /\ ~Runs /\ ~Falls
    BY <1>1, <1>2 DEF Blocklists, Runs, Falls, FilesHeld
  <1>9. Reconciles \/ Counts \/ Checks => Q
    BY <1>2, <1>3 DEF Reconciles, Counts, Checks
  <1> QED BY <1>1, <1>4, <1>5, <1>6, <1>7, <1>8, <1>9, UpKinds DEF Kinds, Q

\* A review that stays one stays on hold, and visible unless a job is cancelled.
LEMMA HoldStays ==
    ASSUME Base, FilesHeld, ExpiredAlone, Expiring, Untouched, OnHold, Kinds, Accounts,
           ~Creating, side["out"].decision = "REVIEW_REQUIRED",
           folder' = "audio", side'["out"].decision = "REVIEW_REQUIRED", ~config'.lost
    PROVE  /\ proj'.hold
           /\ spent'.cancels = 0 => ~proj'.hidden /\ lidarr'.queue
  <1> USE Names, Resting DEF Base
  <1>1. /\ folder = "audio"
        /\ ~lidarr.queued /\ refresh.rec.decision \notin Accepts
        /\ \A p \in Importers : importer[p].rec.decision \notin Accepts
    <2>1. folder = "audio"
      BY StepMonotonic DEF Monotonic
    <2> QED BY <2>1 DEF Untouched
  <1>2. proj.hold /\ (spent.cancels = 0 => ~proj.hidden /\ lidarr.queue)
    BY <1>1, StepMonotonic DEF OnHold, Monotonic
  <1>3. spent'.cancels = 0 => spent.cancels = 0
    BY DEF Accounts, Spends
  <1>4. side["out"] # NoRecord /\ side'["out"] # NoRecord
    BY Values
  <1>5. importer["worker"].pc \in {"archived", "unlinked", "removed"} =>
           At("worker", "archived") /\ importer["worker"].path = "out"
    BY <1>4 DEF Expiring, ExpiredAlone, Gone, Alone, At
  <1> DEFINE G == /\ proj'.hold
                  /\ spent'.cancels = 0 => ~proj'.hidden /\ lidarr'.queue
             Q == lidarr.queue => lidarr'.queue
  <1>6. /\ UNCHANGED proj /\ Q => G
        /\ proj'.hold = proj.hold /\ proj'.hidden = proj.hidden /\ Q => G
        /\ UNCHANGED lidarr \/ LidarrElse => Q
        /\ \A a, b, d, e : Lidarr(lidarr.queue, a, b, d, e) => Q
    BY <1>2, <1>3 DEF LidarrElse, Lidarr
  <1> HIDE DEF G, Q
  <1>7. Waits \/ Switched \/ Restored \/ Opens => G
    BY <1>6 DEF Waits, Switched, Restored, Opens
  <1>8. ~Holds
    BY DEF Holds
  <1>9. \A p \in Importers : TakesUp(p) \/ Promotes(p) \/ Finishes(p) => G
    BY <1>6 DEF TakesUp, Promotes, Finishes
  <1>10. ASSUME NEW p \in Importers, Proceeds(p)
         PROVE  G
    <2>1. CASE UNCHANGED <<lidarr, proj>>
      BY <1>6, <2>1
    <2>2. CASE /\ p = "worker" /\ is_job_cancel_requested(importer[p].job)
               /\ UNCHANGED lidarr /\ proj'.hold = proj.hold
      <3>1. importer[p].job \in JobIds
        BY ImporterFields DEF Typed
      <3>2. spent.cancels # 0
        BY <2>2, <3>1 DEF OnHold, is_job_cancel_requested
      <3> QED BY <1>2, <1>3, <2>2, <3>2 DEF G
    <2> QED BY <1>1, <1>10, <2>1, <2>2 DEF Proceeds
  <1>11. Discards \/ Removes \/ Archives => G
    BY <1>6 DEF Discards, Removes, Archives
  <1>12. ~Blocklists /\ ~Marks /\ ~Runs
    BY <1>1 DEF Blocklists, Marks, Runs, FilesHeld
  <1>13. Reconciles \/ Counts \/ Checks => G
    BY <1>1, <1>6 DEF Reconciles, Counts, Checks
  <1>14. Falls \/ Ages \/ Boots => G
    BY <1>6 DEF Falls, Ages, Boots
  <1>15. Expires => G
    BY <1>6 DEF Expires
  <1>16. ~Unlinks
    BY <1>4, <1>5 DEF Unlinks, At
  <1>17. Clears => G
    BY <1>6 DEF Clears
  <1>18. ~Lapses
    BY <1>5 DEF Lapses, At
  <1> QED BY <1>7, <1>8, <1>9, <1>10, <1>11, <1>12, <1>13, <1>14, <1>15, <1>16, <1>17, <1>18
          DEF Kinds, G

LEMMA StepOnHold ==
    ASSUME Base, FilesHeld, ExpiredAlone, Expiring, Untouched, OnHold, Kinds, Accounts
    PROVE  OnHold'
  <1> USE Names DEF Base
  <1>1. folder' = "audio" => folder = "audio"
    BY StepMonotonic DEF Monotonic
  <1>2. Creating' /\ folder' = "audio" => lidarr'.queue
    BY <1>1, CreatingEnds, QueueAwaitsReview DEF OnHold
  <1>3. ASSUME folder' = "audio", ~Creating', side'["out"].decision = "REVIEW_REQUIRED",
               ~config'.lost
        PROVE  /\ proj'.hold
               /\ spent'.cancels = 0 => ~proj'.hidden /\ lidarr'.queue
    <2>1. CASE Creating
      <3>1. Holds
        BY <1>3, <2>1, CreatingEnds
      <3>2. lidarr'.queue
        BY <1>1, <1>3, <2>1, <3>1, QueueAwaitsReview DEF OnHold
      <3> QED BY <3>1, <3>2 DEF Holds
    <2>2. CASE ~Creating
      BY <1>3, <2>2, ReviewedFrom, HoldStays
    <2> QED BY <2>1, <2>2
  <1>4. \A j \in JobIds : jobs'[j].cancel => spent'.cancels # 0
    BY DEF OnHold, Accounts, Spends
  <1> QED BY <1>2, <1>3, <1>4 DEF OnHold

\* Nothing of the discard's archive is known before the grab has been blocklisted.
LEMMA InArchiveFrom ==
    ASSUME Base, Kinds, ~InArchive, ~Blocklists
    PROVE  ~InArchive'
  <1> USE Names, Resting DEF Base
  <1> DEFINE X == side'["discarded"] = NoRecord
             I == \A q \in Importers : importer'[q].path # "discarded"
             D == discard'.pc \notin {"archive", "mark"} /\ discard'.path # "discarded"
             R == refresh'.path # "discarded"
             Goal == X /\ I /\ D /\ R
  <1>1. /\ side["discarded"] = NoRecord /\ Find # "discarded"
        /\ discard.pc \notin {"archive", "mark"} /\ discard.path # "discarded"
        /\ \A q \in Importers : importer[q].path # "discarded"
        /\ refresh.path # "discarded"
    BY FindFinds DEF InArchive, Typed
  <1>2. /\ UNCHANGED side => X
        /\ FolderGoes => X
        /\ UNCHANGED importer => I
        /\ UNCHANGED discard => D
        /\ discard' = NoReader => D
        /\ UNCHANGED refresh => R
        /\ refresh' = NoReader => R
    BY <1>1 DEF FolderGoes
  <1>3. \A w \in Places : \A r : Stores(w, r) /\ w # "discarded" => X
    BY <1>1 DEF Stores
  <1>4. \A p \in Importers : \A c, r, w, o, A : Turns(p, c, r, w, o, A) /\ w # "discarded" => I
    BY <1>1 DEF Turns
  <1>5. /\ \A p \in Importers : \A c : Moves(p, c) \/ Resets(p, c) => I
        /\ \A A : Keeps(A) => I
    BY <1>1, <1>4 DEF Moves, Resets, Keeps
  <1>6. /\ \A c, r, w : TurnsDiscard(c, r, w) /\ c \notin {"archive", "mark"} /\ w # "discarded"
                           => D
        /\ \A c, r, w : TurnsRefresh(c, r, w) /\ w # "discarded" => R
    BY DEF TurnsDiscard, TurnsRefresh
  <1> HIDE DEF X, I, D, R
  <1>7. Waits \/ Switched \/ Restored \/ Opens \/ Holds => Goal
    BY <1>1, <1>2, <1>3, <1>4, <1>5 DEF Waits, Switched, Restored, Opens, Holds
  <1>8. \A p \in Importers : TakesUp(p) \/ Finishes(p) => Goal
    BY <1>1, <1>2, <1>3, <1>4, <1>5 DEF TakesUp, Finishes
  <1>9. \A p \in Importers : Proceeds(p) => Goal
    BY <1>1, <1>2, <1>4, <1>5 DEF Proceeds, Advances, Aborts, Reports
  <1>10. ASSUME NEW p \in Importers, Promotes(p)
         PROVE  Goal
    <2>1. importer[p].path \in Places
      BY <1>10 DEF Promotes, Reads, Holding, At, Reading, Started
    <2> QED BY <1>1, <1>2, <1>3, <1>4, <1>10, <2>1 DEF Promotes
  <1>11. Discards \/ Removes => Goal
    BY <1>1, <1>2, <1>6 DEF Discards, Removes
  <1>12. ~Archives /\ ~Marks
    BY <1>1 DEF Archives, Marks
  <1>13. Reconciles \/ Counts \/ Checks => Goal
    BY <1>1, <1>2, <1>3, <1>6 DEF Reconciles, Counts, Checks, Back
  <1>14. Runs \/ Ages => Goal
    BY <1>2 DEF Runs, Ages
  <1>15. Falls => Goal
    <2> SUFFICES ASSUME Falls
                 PROVE  Goal
      OBVIOUS
    <2>1. I
      BY DEF Falls, I
    <2> QED BY <1>2, <2>1 DEF Falls
  <1>16. Boots \/ Expires \/ Clears \/ Lapses => Goal
    BY <1>1, <1>2, <1>3, <1>4, <1>5 DEF Boots, Expires, Clears, Lapses
  <1>17. Unlinks => Goal
    <2> SUFFICES ASSUME Unlinks
                 PROVE  Goal
      OBVIOUS
    <2>1. X
      BY <1>1 DEF Unlinks, X
    <2> QED BY <1>2, <1>5, <2>1 DEF Unlinks
  <1> HIDE DEF Goal
  <1>18. Goal
    BY <1>7, <1>8, <1>9, <1>10, <1>11, <1>12, <1>13, <1>14, <1>15, <1>16, <1>17 DEF Kinds
  <1> QED BY <1>18 DEF Goal, X, I, D, R, InArchive

LEMMA StepCleaned ==
    ASSUME Base, ExpiredIsDead, Cleaned, Kinds, Accounts
    PROVE  Cleaned'
  <1> USE Names, Resting DEF Base
  <1> SUFFICES ASSUME Unharmed'
               PROVE  /\ InArchive' => ~lidarr'.queue
                      /\ Gone' => /\ importer'["worker"].pc = "archived" \/ ~lidarr'.queue
                                  /\ \/ importer'["worker"].pc \in {"archived", "unlinked"}
                                     \/ folder' # "audio"
    BY DEF Cleaned, At
  <1>1. Unharmed
    BY DEF Unharmed, Accounts, Spends
  <1>2. /\ InArchive => ~lidarr.queue
        /\ Gone => /\ importer["worker"].pc = "archived" \/ ~lidarr.queue
                   /\ importer["worker"].pc \in {"archived", "unlinked"} \/ folder # "audio"
    BY <1>1 DEF Cleaned, At
  <1>3. /\ lidarr'.queue => lidarr.queue
        /\ folder' = "audio" => folder = "audio"
    BY StepMonotonic DEF Monotonic
  <1>4. InArchive' => ~lidarr'.queue
    <2>1. Blocklists => ~lidarr'.queue
      BY DEF Blocklists, Lidarr
    <2> QED BY <1>2, <1>3, <2>1, InArchiveFrom
  <1>5. ASSUME Gone'
        PROVE  /\ importer'["worker"].pc = "archived" \/ ~lidarr'.queue
               /\ importer'["worker"].pc \in {"archived", "unlinked"} \/ folder' # "audio"
    <2>1. CASE Expires
      BY <2>1, ExpiresFacts
    <2>2. CASE ~Expires
      <3>1. Gone
        BY <1>5, <2>2, GoneFrom
      <3>2. CASE ~lidarr.queue /\ folder # "audio"
        BY <1>3, <3>2
      <3>3. CASE importer["worker"].pc \in {"archived", "unlinked"}
        <4>1. ~Up
          BY <3>3 DEF Up
        <4>2. UNCHANGED importer \/ Unlinks \/ Clears
          <5>1. ~Falls
            BY <3>3 DEF Falls, Quiet, At, Unharmed
          <5>2. ~Ages /\ ~Boots /\ ~Lapses
            BY <3>3 DEF Ages, Boots, Lapses, At
          <5> QED BY <2>2, <4>1, <5>1, <5>2, DownKinds DEF Runs
        <4>3. CASE UNCHANGED importer
          BY <1>2, <1>3, <3>1, <4>3
        <4>4. CASE Unlinks
          BY <4>4 DEF Unlinks, Lidarr, Moves, Turns
        <4>5. CASE Clears
          BY <1>2, <1>3, <3>1, <4>5 DEF Clears, FolderGoes, At
        <4> QED BY <4>2, <4>3, <4>4, <4>5
      <3> QED BY <1>2, <3>1, <3>2, <3>3
    <2> QED BY <2>1, <2>2
  <1> QED BY <1>4, <1>5

-----------------------------------------------------------------------------
(* The promises of the review lifecycle *)

IInv == /\ Claims /\ ExpiredIsDead /\ ExpiredAlone /\ Expiring
        /\ Untouched /\ Present /\ OnHold /\ Cleaned

LEMMA InitIInv ==
    ASSUME Init
    PROVE  IInv
  <1> USE Names, Resting, Values
  <1>1. /\ side["discarded"] = NoRecord /\ side["expired"] = NoRecord
        /\ discard = NoReader /\ refresh = NoReader
        /\ \A p \in Importers : /\ importer[p].pc \in {"idle", "reviewing"}
                                /\ importer[p].rec = NoRecord /\ importer[p].path = "none"
        /\ lock = "free" /\ \A j \in JobIds : ~jobs[j].cancel
    BY InitStates
  <1>2. \/ Creating /\ side["out"] = NoRecord /\ lidarr.queue /\ ~lidarr.queued
        \/ ~Creating /\ side["out"].decision \in Accepts /\ side["out"] \in Record
    BY InitStates
  <1>3. ~Gone /\ ~InArchive
    BY <1>1 DEF Gone, InArchive
  <1>4. ExpiredIsDead /\ ExpiredAlone /\ Expiring
    BY <1>1, <1>3 DEF ExpiredIsDead, ExpiredAlone, Expiring, At
  <1>5. Untouched
    <2>1. NoRecord.decision \notin Accepts
      BY DEF Accepts
    <2> QED BY <1>1, <1>2, <1>3, <2>1 DEF Untouched, Accepts
  <1>6. Present
    <2>1. Creating => Unwritten
      BY <1>1 DEF Unwritten
    <2>2. ~Creating => side["out"] # NoRecord
      BY <1>2
    <2> QED BY <2>1, <2>2, NoneIsCurrent DEF Present
  <1>7. OnHold
    BY <1>1, <1>2 DEF OnHold, Accepts
  <1>8. Cleaned
    BY <1>3 DEF Cleaned
  <1> QED BY <1>4, <1>5, <1>6, <1>7, <1>8, InitClaims DEF IInv

LEMMA StepIInv ==
    ASSUME IInv, [Next]_vars
    PROVE  IInv'
  <1>1. Base /\ FilesHeld /\ Kinds /\ Accounts
    BY StepBase DEF IInv, Claims
  <1>2. /\ ExpiredIsDead /\ ExpiredAlone /\ Expiring
        /\ Untouched /\ Present /\ OnHold /\ Cleaned
    BY DEF IInv
  <1>3. Claims'
    BY StepClaims DEF IInv
  <1>4. ExpiredIsDead' /\ ExpiredAlone' /\ Expiring'
    BY <1>1, <1>2, StepExpiredIsDead, StepExpiredAlone, StepExpiring
  <1>5. Untouched'
    BY <1>1, <1>2, StepUntouched
  <1>6. Present'
    BY <1>1, <1>2, StepPresent
  <1>7. OnHold'
    BY <1>1, <1>2, StepOnHold
  <1>8. Cleaned'
    BY <1>1, <1>2, StepCleaned
  <1> QED BY <1>3, <1>4, <1>5, <1>6, <1>7, <1>8 DEF IInv

\* The inductive invariant of the review lifecycle: what each thread knows and may
\* still do, and what records, archive, hold and Lidarr's queue have to do with each
\* other, holds however the five threads interleave, fail and restart.
THEOREM ReviewInvariant == Spec => []IInv
  <1>1. Init => IInv
    BY InitIInv
  <1>2. IInv /\ [Next]_vars => IInv'
    BY StepIInv
  <1> QED BY <1>1, <1>2, PTL DEF Spec

LEMMA HoldFollows ==
    ASSUME IInv
    PROVE  HoldFollowsReview
  <1> USE Names DEF IInv, Claims
  <1>1. ASSUME side["out"].state = "pending_review", folder = "audio", ~Creating,
               ~config.lost
        PROVE  /\ proj.hold
               /\ spent.cancels = 0 => ~proj.hidden /\ lidarr.queue
    <2>1. side["out"].decision = "REVIEW_REQUIRED"
      BY <1>1 DEF RecordsSound, Sound
    <2> QED BY <1>1, <2>1 DEF OnHold
  <1>2. ASSUME Archived, Quiet, Unharmed
        PROVE  ~lidarr.queue /\ folder # "audio"
    <2>1. CASE side["discarded"] # NoRecord
      BY <1>2, <2>1 DEF Cleaned, InArchive, FilesHeld
    <2>2. CASE side["expired"] # NoRecord
      <3>1. importer["worker"].pc = "idle"
        BY <1>2 DEF Quiet, At
      <3> QED BY <1>2, <2>2, <3>1 DEF Cleaned, Gone, At
    <2> QED BY <1>2, <2>1, <2>2 DEF Archived
  <1>3. Current.blocklisted => lidarr.blocklisted
    <2>1. \A w \in Places : side[w].blocklisted => lidarr.blocklisted
      BY DEF RecordsSound, Sound
    <2>2. \/ Current = NoRecord
          \/ Find \in Places /\ Current = side[Find]
      BY FindFinds DEF Base, Typed
    <2> QED BY <2>1, <2>2, Values
  <1> QED BY <1>1, <1>2, <1>3 DEF HoldFollowsReview, PendingReview

\* A pending review is on hold, and visible and in Lidarr's queue unless a job of it is
\* cancelled; without a failure, what was discarded or has expired has left the queue
\* and the disk; and a record claims a blocklisting only if there was one: whatever
\* thread writes back a stale copy (server.py 4836-4841, 6942-6962, 7575-7595).
THEOREM ReviewIsHeld == Spec => []HoldFollowsReview
  <1>1. IInv => HoldFollowsReview
    BY HoldFollows
  <1> QED BY <1>1, ReviewInvariant, PTL

LEMMA Actionable ==
    ASSUME IInv
    PROVE  HeldIsActionable
  <1> USE Names DEF IInv, Claims
  <1> DEFINE r == side["out"]
  <1> SUFFICES ASSUME folder = "audio", ~Archived, ~Creating, discard.pc = "idle"
               PROVE  \/ r.outcome = "RESCUED" /\ lidarr.placed
                      \/ r.outcome = "MANUAL_IMPORTED" /\ config.had
                      \/ "promote" \in available_actions(r) /\ _is_promotable(r)
                      \/ /\ "retry_import" \in available_actions(r)
                         /\ _is_retryable_verified_import(r)
    BY DEF HeldIsActionable
  <1>1. r \in Record
    <2>1. r # NoRecord
      BY DEF Present, Unwritten, Archived
    <2>2. r \in AnyRecord
      BY DEF Base, Typed, DiskTyped
    <2> QED BY <2>1, <2>2, Values
  <1>2. r.decision \in Decisions /\ r.outcome \in Outcomes
    BY <1>1, Values
  <1>3. /\ r.decision = "REVIEW_REQUIRED" =>
              r.outcome = "PENDING" /\ r.state = "pending_review"
        /\ r.decision \in Accepts => r.state \in {"created", "promoted"}
        /\ r.outcome = "RESCUED" => lidarr.placed
        /\ r.outcome = "MANUAL_IMPORTED" => config.had
    BY DEF RecordsSound, Sound
  <1> HIDE DEF r
  <1>4. CASE r.decision = "REVIEW_REQUIRED"
    BY <1>3, <1>4 DEF available_actions, _is_promotable, Imported
  <1>5. CASE r.decision \in Accepts /\ r.outcome \in {"FAILED", "PENDING"}
    <2>1. ~Imported(r) /\ Unfinished(r)
      BY <1>5 DEF Imported, Unfinished
    <2> QED BY <1>3, <1>5, <2>1 DEF available_actions, _is_retryable_verified_import, Accepts
  <1> QED BY <1>2, <1>3, <1>4, <1>5 DEF Decisions, Outcomes, Accepts

\* Files that are neither imported nor given up have a record for which the dashboard
\* offers an action that its endpoint accepts, after any interleaving of promotes,
\* retries, switches, discards, reconciliations, crashes and failures
\* (server.py 6434-6454, dashboard.py 142-170).
THEOREM HeldReleaseIsActionable == Spec => []HeldIsActionable
  <1>1. IInv => HeldIsActionable
    BY Actionable
  <1> QED BY <1>1, ReviewInvariant, PTL

LEMMA NeverImported ==
    ASSUME IInv, [Next]_vars, Archived
    PROVE  lidarr'.imported = lidarr.imported /\ lidarr'.placed = lidarr.placed
  <1> USE Names
  <1>0. Base /\ FilesHeld /\ Untouched /\ Kinds
    BY StepBase DEF IInv, Claims
  <1>1. folder = "audio" => /\ ~lidarr.queued
                            /\ \A p \in Importers : importer[p].rec.decision \notin Accepts
    BY <1>0 DEF Archived, FilesHeld, Untouched, Gone
  <1> DEFINE G == lidarr'.imported = lidarr.imported /\ lidarr'.placed = lidarr.placed
  <1>2. /\ lidarr \in LidarrType /\ lidarr' \in LidarrType
        /\ lidarr.imported \in BOOLEAN /\ lidarr.placed \in BOOLEAN
        /\ lidarr'.imported \in BOOLEAN /\ lidarr'.placed \in BOOLEAN
    <2>1. lidarr \in LidarrType /\ lidarr' \in LidarrType
      BY <1>0, ServiceTypes DEF Base, Typed, ServicesTyped
    <2> QED BY <2>1 DEF LidarrType
  <1>3. /\ UNCHANGED lidarr \/ LidarrElse => G
        /\ \A a, b, d : Lidarr(a, b, lidarr.imported, lidarr.placed, d) => G
    BY <1>2 DEF Lidarr, LidarrElse
  <1> HIDE DEF G
  <1>4. Waits \/ Switched \/ Restored \/ Opens \/ Holds => G
    BY <1>3 DEF Waits, Switched, Restored, Opens, Holds
  <1>5. \A p \in Importers : TakesUp(p) \/ Promotes(p) \/ Finishes(p) => G
    BY <1>3 DEF TakesUp, Promotes, Finishes
  <1>6. ASSUME NEW p \in Importers, Proceeds(p)
        PROVE  G
    <2>1. ~(importer[p].pc = "copy" /\ folder = "audio")
      BY <1>0, <1>1 DEF Base, Reads, Holding, Started
    <2>2. /\ lidarr'.imported = lidarr.imported
          /\ lidarr'.placed <=> lidarr.placed
      BY <1>6, <2>1 DEF Proceeds
    <2> QED BY <1>2, <2>2 DEF G
  <1>7. Discards \/ Removes \/ Blocklists \/ Archives \/ Marks => G
    BY <1>3 DEF Discards, Removes, Blocklists, Archives, Marks
  <1>8. Reconciles \/ Counts \/ Checks => G
    BY <1>3 DEF Reconciles, Counts, Checks
  <1>9. Runs => G
    BY <1>1 DEF Runs, G
  <1>10. Falls \/ Ages \/ Boots => G
    BY <1>3 DEF Falls, Ages, Boots
  <1>11. Expires \/ Unlinks \/ Clears \/ Lapses => G
    BY <1>3 DEF Expires, Unlinks, Clears, Lapses
  <1> QED BY <1>0, <1>4, <1>5, <1>6, <1>7, <1>8, <1>9, <1>10, <1>11 DEF Kinds, G

\* Once a release is archived as discarded or expired, neither Lidarr nor a thread that
\* read its record before brings it into the library: with the files still there, only
\* an expiry has archived it, and no importer holds a record that it would import
\* (server.py 7575-7594, 6942-6962).
THEOREM DiscardIsForGood == Spec => DiscardIsFinal
  <1>1. IInv /\ [Next]_vars =>
           [Archived => lidarr'.imported = lidarr.imported /\ lidarr'.placed = lidarr.placed]_vars
    BY NeverImported
  <1> QED BY <1>1, ReviewInvariant, PTL DEF Spec, DiscardIsFinal

LEMMA LostOnlyByRemoval ==
    ASSUME IInv, [Next]_vars, Current # NoRecord, (Current = NoRecord)'
    PROVE  discard.pc = "remove"
  <1>1. Base /\ Expiring /\ Kinds
    BY StepBase DEF IInv, Claims
  <1>2. PICK v \in Places : side[v] # NoRecord
    BY NoneIsCurrent
  <1>3. \A w \in Places : side'[w] = NoRecord
    BY NoneIsCurrent
  <1>4. Removes
    BY <1>1, <1>2, <1>3, RecordsRemain
  <1> QED BY <1>4 DEF Removes

\* A release keeps a record whatever expires, imports or writes back a stale copy: only
\* a discard's removal of the folder takes the last one, and unless the process dies
\* right there the discard is about to archive it (server.py 7575-7595, 6942-6962).
THEOREM RecordIsKept == Spec => RecordKept
  <1>1. IInv /\ [Next]_vars =>
           [Current # NoRecord /\ Current' = NoRecord => discard.pc = "remove"]_vars
    BY LostOnlyByRemoval
  <1>2. IInv => (Current = NoRecord /\ ~Creating /\ spent.crashes = 0
                    => discard.pc \in {"blocklist", "archive"})
    BY DEF IInv, Present, Unwritten
  <1> QED BY <1>1, <1>2, ReviewInvariant, PTL DEF Spec, RecordKept
=============================================================================
