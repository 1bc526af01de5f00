------------------------------ MODULE MCVoting ------------------------------
EXTENDS Voting
CONSTANTS v1, v2, s1, s2, s3

MCVoteVoters == {<<v1, v2>>}

\* Every server once, and one that is listed twice, to have a weight.
MCKeyServers == {<<s1, s2, s3>>, <<s1, s2, s1>>}
=============================================================================
