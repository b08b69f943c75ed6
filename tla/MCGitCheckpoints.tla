-------------------------- MODULE MCGitCheckpoints --------------------------
(* A repository with two files, one of a name that git prints in quotes.   *)
EXTENDS GitCheckpoints

MCQuoted == {"accented"}
=============================================================================
