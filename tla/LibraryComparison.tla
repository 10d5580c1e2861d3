-------------------------- MODULE LibraryComparison --------------------------
(***************************************************************************)
(* A candidate release against the measured tracks of the album it would   *)
(* replace: the roll-up of the album's evidence rows and the precedence of *)
(* validity, authenticity, lossless tier and completeness.                 *)
(*                                                                         *)
(* A column that Python sees as None is 0 or "None".  A stored Boolean is  *)
(* an integer when it is read back, "0" or "1", and not Python's False or  *)
(* True, which is what the probes return.                                  *)
(***************************************************************************)
EXTENDS Integers

Tiers == 0 .. 3

\* 0 lossy or unknown, 1 lossless 16 bit, 2 24 bit, 3 24 bit above 48 kHz
tier_rank(lossless, bit_depth, sample_rate) ==
    LET depth == IF bit_depth = 0 THEN 16 ELSE bit_depth
        rate == IF sample_rate = 0 THEN 44100 ELSE sample_rate
    IN IF ~lossless THEN 0 ELSE IF depth < 24 THEN 1 ELSE IF rate <= 48000 THEN 2 ELSE 3

\* An evidence row as album_quality reads it.
Track == [status : {"none", "measured", "unmeasured"},
          lossless : BOOLEAN, bit_depth : Nat, sample_rate : Nat,
          integrity_ok : {"None", "False", "True", "0", "1"}, integrity_known : BOOLEAN,
          spectral_status : {"none", "measured", "unmeasured"},
          authentic : {"None", "0", "1"}]

TierOf(t) == tier_rank(t.lossless, t.bit_depth, t.sample_rate)

Weakest(tiers) == CHOOSE t \in tiers : \A u \in tiers : t <= u

Measured(rows) == {r \in rows : r.status = "measured"}

\* The release is as good as its weakest track, and known when every track is.
\* any_invalid is `integrity_ok is False'.
album_quality(rows) ==
    LET tracks == Measured(rows) IN
    [any_invalid |-> \E r \in tracks : r.integrity_ok = "False",
     min_tier |-> Weakest({TierOf(r) : r \in tracks}),
     any_fake |-> \E r \in tracks : r.spectral_status = "measured" /\ r.authentic = "0",
     authenticity_known |-> \A r \in tracks : r.spectral_status = "measured",
     integrity_known |-> \A r \in tracks : r.integrity_known]

\* The axes in their order: each line speaks when the ones above it are even.
compare(candidate, existing, existing_incomplete, authenticity, integrity) ==
    CASE ~candidate.valid -> "downgrade"
      [] candidate.valid /\ ~candidate.authentic -> "review"
      [] candidate.valid /\ candidate.authentic ->
            IF existing.any_invalid \/ (authenticity /\ existing.any_fake) THEN "upgrade"
            ELSE IF ~candidate.tier_known THEN "review"
            ELSE IF \/ candidate.tier > existing.min_tier
                    \/ /\ candidate.tier = existing.min_tier
                       /\ candidate.complete /\ existing_incomplete
                 THEN "upgrade"
            ELSE IF \/ integrity /\ ~existing.integrity_known
                    \/ authenticity /\ ~existing.authenticity_known
                 THEN "review"
            ELSE IF candidate.tier < existing.min_tier THEN "downgrade" ELSE "equivalent"
=============================================================================
