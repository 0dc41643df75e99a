------------------------------ MODULE MCDeploy ------------------------------
(* Deploy on the repository's own revisions, with every settled version of   *)
(* production as a start.                                                    *)
EXTENDS Deploy

Adding == [adds |-> TRUE, removes |-> FALSE, post_deploy |-> FALSE]

initial_schema == Adding
drop_comments == [adds |-> FALSE, removes |-> TRUE, post_deploy |-> TRUE]
add_rate_limit_hits == Adding
add_email_verified == Adding
add_session_version == Adding
add_feedback == Adding
add_is_seed == Adding
replace_category == [adds |-> TRUE, removes |-> TRUE, post_deploy |-> FALSE]
add_steward_interest == Adding

\* src/migrations/versions, by down_revision.
Revisions == <<initial_schema, drop_comments, add_rate_limit_hits,
               add_email_verified, add_session_version, add_feedback,
               add_is_seed, replace_category, add_steward_interest>>
=============================================================================
