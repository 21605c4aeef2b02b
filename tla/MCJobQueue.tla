----------------------------- MODULE MCJobQueue -----------------------------
EXTENDS JobQueue

\* main.py registers every kind but summarize_meeting.
MCRegistered == Kinds \ {"summarize_meeting"}
=============================================================================
