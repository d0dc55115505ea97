--------------------------- MODULE MCTokenManager ---------------------------
(***************************************************************************)
(* Values for the constants of TokenManager that a configuration file      *)
(* cannot express.                                                         *)
(***************************************************************************)
EXTENDS TokenManager, AudienceFlag

\* Two audiences in the values of the chart.
Configured == {<<"aud1">>, <<"aud2">>}

\* The flag as its description says, and as the chart writes it.
FromDescription == AudiencesOf(<<"aud1", ",", "aud2">>)
FromChart == AudiencesOf(listToString(<<"aud1", "aud2">>))
=============================================================================
