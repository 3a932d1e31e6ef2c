--------------------------- MODULE DocumentedStream ---------------------------
(***************************************************************************)
(* What the documents say of cloud transcription, and the session of the   *)
(* Deepgram adapter does not keep.                                         *)
(***************************************************************************)
EXTENDS DeepgramStream

\* "A final update for a segment finalizes that segment and supersedes prior partial
\* content" (docs/testing/property-catalogs/realtime-transcript-processor.md): no segment
\* is left partial with the text of an utterance that has its final result.  The
\* segment_id of a result is made of the chunk that is the latest when it arrives.
FinalSupersedes ==
  \A u \in ended, i \in SegmentIds : holds[i] = u => segments[i] # "partial"
=============================================================================
