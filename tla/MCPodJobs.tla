------------------------------- MODULE MCPodJobs -------------------------------
\* PodJobs for pods with one service of either kind, with two or three of: the jobs
\* of two pods, clean_all_unused, a restart; or for pods with both services, with
\* the delete jobs of one.
EXTENDS PodJobs
===============================================================================
