-------------------------- MODULE VerificationPolicy --------------------------
(***************************************************************************)
(* The V2 verification policy: what becomes of a downloaded release, from  *)
(* its validator verdict, the library's quality label, track counts and    *)
(* the identity of the release.  Pure functions of one record of inputs:   *)
(* every list of files, response or setting is reduced to what is read.    *)
(***************************************************************************)
EXTENDS Integers

Verdicts == {"AUTHENTIC", "WARNING", "SUSPICIOUS", "FAKE_CERTAIN", "FAKE", "UNKNOWN", "ERROR"}
Identities == {"SAME_RELEASE", "SAME_FAMILY", "AMBIGUOUS_EDITION",
               "INSUFFICIENT_EVIDENCE", "WRONG_ALBUM"}
Accepting == {"ACCEPT", "ACCEPT_PROVISIONAL"}

\* What _compute_verification is given or reads itself.
Release ==
    [verdict : Verdicts,            \* overall_verdict of the validator
     detective_error : BOOLEAN,     \* the validator did not answer
     fake_hi_res : BOOLEAN,
     has_flac : BOOLEAN,
     codec_gate_skipped : BOOLEAN,  \* the source had non-FLAC files left out
     importable : BOOLEAN,          \* Lidarr matches every file to a track
     tracks : Nat,                  \* audio files in the folder
     expected_tracks : Nat, existing_tracks : Nat,   \* Lidarr's statistics, 0 unknown
     existing_kbps : Nat,           \* of the best quality label, 0 for nothing
     new_kbps : Nat,
     identity : Identities]

HardGates == {"codec_mismatch", "flac_t_fail", "validator_error"}

-----------------------------------------------------------------------------
(* Score and overrides *)

no_audio_files(r) == r.tracks = 0
validator_error(r) ==
    ~no_audio_files(r) /\ (r.detective_error \/ r.verdict \in {"UNKNOWN", "ERROR"})
codec_mismatch(r) == (r.tracks > 0 /\ ~r.has_flac) \/ r.codec_gate_skipped

DetectiveScore(verdict) ==
    CASE verdict = "AUTHENTIC" -> 35 [] verdict = "WARNING" -> 18
      [] verdict = "SUSPICIOUS" -> 5 [] OTHER -> 0

compute_components(r) ==
      (IF no_audio_files(r) THEN 0 ELSE 25)
    + (IF ~validator_error(r) /\ r.has_flac THEN 25 ELSE 0)
    + DetectiveScore(r.verdict)
    + (IF ~no_audio_files(r) /\ r.importable THEN 15 ELSE 0)

\* The first hard gate that fails is the only override; flac_t_failed is
\* always passed as False.
overrides(r) ==
    (IF codec_mismatch(r) THEN {"codec_mismatch"}
     ELSE IF validator_error(r) THEN {"validator_error"}
     ELSE (IF r.verdict = "SUSPICIOUS" /\ compute_components(r) > 60
           THEN {"suspicious_cap_60"} ELSE {})
          \cup (IF r.fake_hi_res THEN {"fake_hi_res"} ELSE {}))
    \cup (IF no_audio_files(r) THEN {"no_audio_files"} ELSE {})

score(r) ==
    IF overrides(r) \cap (HardGates \cup {"no_audio_files"}) # {} THEN 0
    ELSE IF "suspicious_cap_60" \in overrides(r) THEN 60
    ELSE compute_components(r)

-----------------------------------------------------------------------------
(* The audio axis *)

is_complete_upgrade(r) ==
    /\ r.expected_tracks > 0
    /\ r.existing_tracks < r.expected_tracks
    /\ r.tracks >= r.expected_tracks

\* new_kbps > existing_kbps * 1.2
is_kbps_upgrade(r) == r.existing_kbps = 0 \/ 5 * r.new_kbps > 6 * r.existing_kbps

decide(r) ==
    IF overrides(r) \cap HardGates # {} THEN "BLOCK"
    ELSE IF "fake_hi_res" \in overrides(r) THEN "REVIEW_REQUIRED"
    ELSE IF r.verdict \in {"FAKE_CERTAIN", "FAKE"}
         THEN IF r.existing_kbps > 0 /\ ~is_complete_upgrade(r)
              THEN "BLOCK" ELSE "REVIEW_REQUIRED"
    ELSE IF r.verdict = "SUSPICIOUS"
         THEN IF is_complete_upgrade(r) \/ (r.existing_kbps < 1400 /\ is_kbps_upgrade(r))
              THEN "ACCEPT_PROVISIONAL" ELSE "BLOCK"
    ELSE IF score(r) < 20
         THEN IF is_complete_upgrade(r) THEN "ACCEPT_PROVISIONAL" ELSE "BLOCK"
    ELSE IF score(r) >= 70 THEN "ACCEPT" ELSE "ACCEPT_PROVISIONAL"

\* `rip' is the CD-rip evidence: none, verified by AccurateRip, warned of by a
\* log, or neither.
Rips == {"none", "verified", "mismatch", "plain"}

\* Mutant: a verified rip is good whatever was decided.
RipSettles(audio, rip) ==
    IF rip = "verified" THEN "ACCEPT_PROVISIONAL"
    ELSE IF rip = "mismatch" /\ audio \in Accepting THEN "REVIEW_REQUIRED"
    ELSE audio

_apply_cd_rip_scoring(audio, rip) ==
    IF audio = "REVIEW_REQUIRED" /\ rip = "verified" THEN "ACCEPT_PROVISIONAL"
    ELSE IF audio \in Accepting /\ rip = "mismatch" THEN "REVIEW_REQUIRED"
    ELSE audio

-----------------------------------------------------------------------------
(* The identity axis and the track-count guard *)

combine_audio_identity_decision(audio, identity) ==
    IF audio = "BLOCK" \/ identity = "WRONG_ALBUM" THEN "BLOCK"
    ELSE IF \/ audio = "REVIEW_REQUIRED"
            \/ identity \in {"AMBIGUOUS_EDITION", "INSUFFICIENT_EVIDENCE"}
         THEN "REVIEW_REQUIRED"
    ELSE audio

edition_track_count_mismatch(r) ==
    /\ r.identity \in {"SAME_FAMILY", "AMBIGUOUS_EDITION"}
    /\ r.expected_tracks > 0 /\ r.tracks > 0
    /\ r.tracks >= r.expected_tracks + 4 \/ 2 * r.tracks >= 3 * r.expected_tracks

track_count_undercount_mismatch(r) ==
    /\ r.identity \in {"SAME_RELEASE", "SAME_FAMILY", "AMBIGUOUS_EDITION"}
    /\ r.expected_tracks > 0 /\ r.tracks > 0
    /\ r.existing_tracks >= r.expected_tracks
    /\ r.tracks < r.expected_tracks

apply_track_count_guard(decision, r) ==
    IF decision \in Accepting
       /\ (edition_track_count_mismatch(r) \/ track_count_undercount_mismatch(r))
    THEN "REVIEW_REQUIRED" ELSE decision
=============================================================================
