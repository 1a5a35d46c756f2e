------------------------------- MODULE MCGemini -------------------------------
(* Gemini for TLC: three chunks, the first of two parameters with another  *)
(* chunk used between them, and a recomputation in the backward pass.      *)
EXTENDS Gemini

CONSTANTS k1, k2, k3, pa, pb, pc, pd

MCChunkOf == (pa :> k1) @@ (pb :> k1) @@ (pc :> k2) @@ (pd :> k3)
MCFwd == <<<<pa>>, <<pc>>, <<pb, pd>>>>
MCBwd == <<<<pb, pd>>, <<pc>>, <<pc>>, <<pa>>>>

Static == [auto |-> FALSE, margin |-> FALSE, accumulate |-> FALSE, overflows |-> {},
           kept |-> {}, prefetch |-> 0, infers |-> "no", pinned |-> FALSE]
Auto   == [Static EXCEPT !.auto = TRUE]
MCConfigs ==
  {[Static EXCEPT !.overflows = {pb}, !.infers = "scatters"],
   [Static EXCEPT !.infers = "keeps", !.pinned = TRUE],
   [Auto EXCEPT !.kept = {k2}, !.margin = TRUE, !.infers = "scatters", !.pinned = TRUE],
   [Auto EXCEPT !.overflows = {pb, pc}, !.prefetch = 1, !.pinned = TRUE],
   [Auto EXCEPT !.margin = TRUE, !.prefetch = 2],
   [Static EXCEPT !.kept = {k2}, !.prefetch = 2],
   [Static EXCEPT !.accumulate = TRUE, !.infers = "scatters"],
   [Auto EXCEPT !.accumulate = TRUE, !.prefetch = 1, !.pinned = TRUE]}

\* Configurations that go wrong: the first is a run, the others are for a reader
\* who wants to see a trace.  They break GradsComplete, GradsComplete,
\* ComputesOnWeights, NeverRaises and NeverRaises.  They are the ones that
\* Supported of GeminiProofs excludes.
OverflowAmidAccumulation == {[Static EXCEPT !.accumulate = TRUE, !.overflows = {pb}]}
KeptAndAccumulated       == {[Static EXCEPT !.accumulate = TRUE, !.kept = {k2}]}
PrefetchInInference      == {[Static EXCEPT !.prefetch = 1, !.infers = "scatters"]}
InferenceAmidAccumulation ==
  {[Static EXCEPT !.accumulate = TRUE, !.infers = "midway"]}
MovedAmidAccumulation == {[Auto EXCEPT !.accumulate = TRUE, !.margin = TRUE]}
===============================================================================
