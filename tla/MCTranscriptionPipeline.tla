----------------------- MODULE MCTranscriptionPipeline -----------------------
(***************************************************************************)
(* Small instances of TranscriptionPipeline for TLC.                       *)
(***************************************************************************)
EXTENDS TranscriptionPipeline, TLC

RecordRequests == {"begin", "join", "stop", "disconnect", "segment",
                   "redo_segments", "remove_segments"}
PromptRequests == {"file", "finish", "prompt", "delete_prompt"}
UploadRequests == PromptRequests \cup {"end"}
FileRequests   == {"file", "finish"}
TakeRequests   == {"begin", "segment", "stop"}

TextOnly    == {"text"}
AnyOutcome  == {"text", "blank", "error"}

\* Takes, result ids, tabs and HTTP slots are interchangeable: no action
\* names or orders them.
Symmetry == Permutations(Takes) \cup Permutations(ResultIds)
              \cup Permutations(Posts)

\* Sessions too, where all of them have a purpose prompt.
SessionSymmetry == Symmetry \cup Permutations(Sessions)
=============================================================================
