------------------------------ MODULE MCSessions ------------------------------
(* A recorded session on the server and, apart from it, the narrative of one.  *)
(* The two share no state: a behaviour is one of the recording or one of the   *)
(* narrative, the other staying at its initial state, so that the states to    *)
(* explore are the sum of theirs and not the product.                          *)
EXTENDS Recording, Narrative

CONSTANTS u1, u2, w1, w2, n1, n2

VARIABLE part

On(p) == part = p

RecordingPart == On("recording") /\ RecordingNext /\ UNCHANGED <<part, narrativeVars>>
NarrativePart == On("narrative") /\ NarrativeNext /\ UNCHANGED <<part, recordingVars>>

\* RecordingFairness, for the recording's behaviours.
PartFairness ==
  /\ \A u \in Uploaders : WF_recordingVars(On("recording") /\ UploadSteps(u))
  /\ \A w \in Scrubbers : WF_recordingVars(On("recording") /\ ScrubSteps(w))
  /\ \A q \in Seqs, b \in Contents : WF_recordingVars(On("recording") /\ LateWrite(q, b))
  /\ WF_recordingVars(On("recording") /\ AnalysisSteps)
  /\ WF_recordingVars(On("recording") /\ TimePasses("capped"))
  /\ WF_recordingVars(On("recording") /\ MarkSessionDeleting)
  /\ WF_recordingVars(On("recording") /\ DeletionGrace)
  /\ WF_recordingVars(On("recording") /\ RemovePrefix)
  /\ WF_recordingVars(On("recording") /\ DeleteMarkedSession)
  /\ WF_recordingVars(On("recording") /\ SweepDeletedPrefixes)

PartInit ==
  /\ RecordingInit /\ NarrativeInit /\ part \in {"recording", "narrative"}

PartSpec ==
  /\ PartInit
  /\ [][RecordingPart \/ NarrativePart]_<<part, recordingVars, narrativeVars>>
  /\ PartFairness
=============================================================================
