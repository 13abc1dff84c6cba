---------------------------- MODULE MCUserStorage ----------------------------
\* UserStorage with one pod that is deleted while another is created, or by
\* delete_pod and delete_all_user, or by delete_all_user next to clean_all_unused;
\* or with two that are deleted at the same time.
EXTENDS UserStorage
===============================================================================
