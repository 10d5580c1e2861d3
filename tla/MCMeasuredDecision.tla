-------------------------- MODULE MCMeasuredDecision --------------------------
EXTENDS MeasuredDecision

\* A CD track that does not decode, a sound hi-res one, and a faked one.
Cd == [lossless |-> TRUE, bit_depth |-> 16, sample_rate |-> 44100,
       integrity |-> "corrupt", genuine |-> TRUE]
HiRes == [Cd EXCEPT !.bit_depth = 24, !.sample_rate = 96000, !.integrity = "ok"]

MCQualities == {Cd, HiRes, [HiRes EXCEPT !.genuine = FALSE]}

\* A complete, sound release of twelve tracks; the cases vary it.
Sound == [verdict |-> "AUTHENTIC", detective_error |-> FALSE, fake_hi_res |-> FALSE,
          has_flac |-> TRUE, codec_gate_skipped |-> FALSE, importable |-> TRUE,
          tracks |-> 12, expected_tracks |-> 12, existing_tracks |-> 12,
          existing_kbps |-> 1411, new_kbps |-> 3000, identity |-> "SAME_RELEASE"]

Releases ==
    {[Sound EXCEPT !.verdict = v, !.fake_hi_res = h] :
        v \in {"AUTHENTIC", "FAKE"}, h \in BOOLEAN}
    \cup {[Sound EXCEPT !.identity = i] : i \in {"AMBIGUOUS_EDITION", "WRONG_ALBUM"}}
    \cup {[Sound EXCEPT !.existing_tracks = 7, !.verdict = v] : v \in {"SUSPICIOUS", "FAKE"}}
    \cup {[Sound EXCEPT !.identity = "SAME_FAMILY", !.tracks = 19],
          [Sound EXCEPT !.codec_gate_skipped = TRUE], [Sound EXCEPT !.detective_error = TRUE],
          [Sound EXCEPT !.tracks = 0, !.has_flac = FALSE, !.verdict = "UNKNOWN"]}

Other == [status |-> "measured", lossless |-> TRUE, bit_depth |-> 24, sample_rate |-> 44100,
          integrity_ok |-> "1", integrity_known |-> TRUE, spectral_status |-> "measured",
          authentic |-> "1"]

Case0 == [release |-> Sound, rip |-> "verified", others |-> {}, readable |-> TRUE,
          files |-> {[bit_depth |-> 16, sample_rate |-> 44100]},
          cd_rip_scoring |-> TRUE, measured_existing |-> TRUE, require_integrity |-> FALSE]

MCCases ==
    {[Case0 EXCEPT !.release = r] : r \in Releases}
    \cup {[Case0 EXCEPT !.others = {Other}, !.rip = "none",
                       !.files = {[bit_depth |-> d, sample_rate |-> 44100]}] : d \in {0, 16, 24}}
    \cup {[Case0 EXCEPT !.files = {[bit_depth |-> 24, sample_rate |-> 44100]}],
          [Case0 EXCEPT !.rip = "mismatch", !.require_integrity = TRUE],
          [Case0 EXCEPT !.readable = FALSE, !.release.fake_hi_res = TRUE],
          [Case0 EXCEPT !.measured_existing = FALSE, !.release.verdict = "FAKE"]}
=============================================================================
