--------------------------- MODULE MCBackgroundJobs ---------------------------
\* An instance of BackgroundJobs for TLC, with the constants Jobs.cfg gives.
EXTENDS BackgroundJobs
=============================================================================
