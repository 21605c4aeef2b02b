-------------------------- MODULE MCMeetingPipeline --------------------------
EXTENDS MeetingPipeline, TLC

\* Nothing tells one meeting from another, or one mic.
Symmetry == Permutations(Meetings) \cup Permutations(Mics)

\* Every meeting is passed and indexed once, and once more after every crash: the
\* journal's bound never binds.
MCMaxJobs == 2 * Cardinality(Meetings) + MaxCrashes
=============================================================================
