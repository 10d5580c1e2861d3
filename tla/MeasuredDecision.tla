--------------------------- MODULE MeasuredDecision ---------------------------
(***************************************************************************)
(* _compute_verification on top of the evidence rows: what the import      *)
(* thread decides about a candidate while measurers overlap, the file on   *)
(* disk changes and sensors are upgraded (LibraryEvidence).  The decision  *)
(* changes no shared state, so it is a function of the row and of a case,  *)
(* and the properties speak of every case in every state in which the      *)
(* import thread, done with measuring, may be deciding.                    *)
(***************************************************************************)
EXTENDS LibraryEvidence, LibraryComparison, VerificationPolicy

CONSTANTS
    Qualities,   \* what a content of the file may be like
    Cases        \* what a decision may be asked about

Content == [lossless : BOOLEAN, bit_depth : Nat, sample_rate : Nat,
            integrity : {"ok", "corrupt", "odd_tags", "unchecked"}, genuine : BOOLEAN]

\* A candidate with its files and rip, the fresh rows of the album's other
\* tracks, the settings, and whether the library is mounted and the rows read.
Case == [release : Release, rip : Rips,
         files : SUBSET [bit_depth : Nat, sample_rate : Nat],
         others : SUBSET {t \in Track : t.integrity_ok \in {"None", "0", "1"}},
         readable : BOOLEAN,
         cd_rip_scoring : BOOLEAN, measured_existing : BOOLEAN,
         require_integrity : BOOLEAN]

\* A validator that was given no audio file suspects none.
Plausible(r) ==
    r.tracks = 0 => /\ ~r.has_flac /\ ~r.fake_hi_res
                    /\ r.verdict \in {"UNKNOWN", "ERROR"}

ASSUME MeasuredDecisionAssumption ==
    /\ Qualities \subseteq Content
    /\ Cases \subseteq Case
    /\ \A c \in Cases : Plausible(c.release)

\* The contents a decision now depends on, and what they may be like.
Relevant ==
    {file, row.codec} \cup (IF OnDisk THEN {row.integrity_ok, row.authentic} ELSE {})
Histories == [Relevant \ {0} -> Qualities]

\* The import thread is done with measuring.
Deciding == task["import"].pc = "idle"

-----------------------------------------------------------------------------
(* The row as the decision reads it *)

\* upsert_library_evidence and the others store int(bool(...)), NULL for None.
Stored(integrity) ==
    CASE integrity = "ok" -> "1" [] integrity = "corrupt" -> "0" [] OTHER -> "None"

\* A verdict that is not fresh for its own sensor is stripped, and integrity is
\* known when it is fresh and not about odd tags.  For a row whose metadata is
\* fresh.
_decision_evidence_view(q) ==
    [status |-> row.status,
     lossless |-> q[row.codec].lossless, bit_depth |-> q[row.codec].bit_depth,
     sample_rate |-> q[row.codec].sample_rate,
     integrity_ok |-> IF is_integrity_row_fresh /\ row.integrity_ok # 0
                      THEN Stored(q[row.integrity_ok].integrity) ELSE "None",
     integrity_known |->
        /\ is_integrity_row_fresh
        /\ row.integrity_ok # 0 => q[row.integrity_ok].integrity # "odd_tags",
     spectral_status |-> IF is_spectral_row_fresh THEN "measured" ELSE "none",
     authentic |-> IF ~is_spectral_row_fresh \/ row.authentic = 0 THEN "None"
                   ELSE IF q[row.authentic].genuine THEN "1" ELSE "0"]

\* Mutant: the row is not held against the file on disk.
StaleRow(q) == IF row.status = "measured" THEN {_decision_evidence_view(q)} ELSE {}

\* This track's row, if it may drive the decision.
FreshRow(q) == IF is_measured_row_fresh THEN {_decision_evidence_view(q)} ELSE {}

FreshRows(c, q) == c.others \cup FreshRow(q)

-----------------------------------------------------------------------------
(* The decision *)

_candidate_quality(c) ==
    LET r == c.release
        valid == overrides(r) \cap (HardGates \cup {"no_audio_files"}) = {}
    IN [valid |-> valid,
        authentic |-> r.verdict = "AUTHENTIC" /\ "fake_hi_res" \notin overrides(r),
        tier |-> IF c.files = {} THEN 0
                 ELSE Weakest({tier_rank(valid, f.bit_depth, f.sample_rate) : f \in c.files}),
        complete |-> r.expected_tracks > 0 /\ r.tracks >= r.expected_tracks,
        tier_known |-> c.files # {} /\ \A f \in c.files : f.bit_depth # 0 /\ f.sample_rate # 0]

_map_measured_verdict(audio, verdict) ==
    IF verdict \in {"downgrade", "review"} /\ audio \in Accepting THEN "REVIEW_REQUIRED"
    ELSE IF verdict = "upgrade" /\ audio = "REVIEW_REQUIRED" THEN "ACCEPT_PROVISIONAL"
    ELSE audio

\* The verdict on the measured rows.
Comparison(c, q) ==
    compare(_candidate_quality(c), album_quality(FreshRows(c, q)),
            /\ c.release.expected_tracks > 0
            /\ c.release.existing_tracks < c.release.expected_tracks,
            SpectralOn, c.require_integrity)

\* Measured evidence takes part: switched on, readable, and some row is fresh.
MeasuredCounts(c, q) ==
    c.measured_existing /\ c.readable /\ Measured(FreshRows(c, q)) # {}

_apply_measured_existing(audio, c, q) ==
    IF MeasuredCounts(c, q) THEN _map_measured_verdict(audio, Comparison(c, q)) ELSE audio

_compute_verification(c, q) ==
    LET ripped == IF c.cd_rip_scoring THEN _apply_cd_rip_scoring(decide(c.release), c.rip)
                  ELSE decide(c.release)
        audio == _apply_measured_existing(ripped, c, q)
    IN apply_track_count_guard(
           combine_audio_identity_decision(audio, c.release.identity), c.release)

-----------------------------------------------------------------------------
(* Properties *)

Gated(r) == no_audio_files(r) \/ validator_error(r) \/ codec_mismatch(r)
Suspect(r) == r.fake_hi_res \/ r.verdict \in {"FAKE_CERTAIN", "FAKE"}

\* Neither a verified rip nor a measured upgrade nor a missing track rescues a
\* release that failed a hard gate or is another album; an ambiguous one is
\* never imported unseen; and a fake is only when rip scoring is on, the rip is
\* verified and no measured evidence has a say.
GatesHold ==
    Deciding => \A q \in Histories, c \in Cases :
        LET decision == _compute_verification(c, q) IN
        /\ Gated(c.release) \/ c.release.identity = "WRONG_ALBUM" => decision = "BLOCK"
        /\ c.release.identity \in {"AMBIGUOUS_EDITION", "INSUFFICIENT_EVIDENCE"}
              => decision \notin Accepting
        /\ Suspect(c.release) /\ decision \in Accepting
              => c.cd_rip_scoring /\ c.rip = "verified" /\ ~MeasuredCounts(c, q)

\* The tiers of the tracks whose evidence takes part, this one's as it is on
\* disk now.
TiersOnDisk(c, q) ==
    {TierOf(t) : t \in Measured(c.others)}
        \cup {tier_rank(q[file].lossless, q[file].bit_depth, q[file].sample_rate) :
                t \in FreshRow(q)}

CalledFake(c, q) ==
    SpectralOn /\ \E t \in FreshRows(c, q) : t.spectral_status = "measured" /\ t.authentic = "0"

\* Where measured evidence counts, a candidate is imported unseen only if it is
\* authentic and not below the weakest track as the files are on disk at the
\* decision, whatever was measured, replaced or upgraded before; unless a track
\* is called a fake.
NeverReplacesBetter ==
    Deciding => \A q \in Histories, c \in Cases :
        MeasuredCounts(c, q) /\ _compute_verification(c, q) \in Accepting =>
            /\ c.release.verdict = "AUTHENTIC" /\ ~c.release.fake_hi_res
            /\ \/ CalledFake(c, q)
               \/ _candidate_quality(c).tier >= Weakest(TiersOnDisk(c, q))

\* compare(): "A measured integrity defect (any_invalid) is always an upgrade".
DefectIsUpgrade ==
    Deciding /\ is_measured_row_fresh /\ is_integrity_row_fresh /\ row.integrity_ok # 0 =>
        \A q \in Histories, c \in Cases :
            /\ q[row.integrity_ok].integrity = "corrupt"
            /\ _candidate_quality(c).valid /\ _candidate_quality(c).authentic
            => Comparison(c, q) = "upgrade"
=============================================================================
