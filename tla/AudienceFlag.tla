---------------------------- MODULE AudienceFlag ----------------------------
(***************************************************************************)
(* The way of the audiences from the values of the Helm chart to the       *)
(* reconciler: the chart joins them into --token-request-audience, and     *)
(* runMain of cmd/main.go splits the flag.  A string is a sequence of      *)
(* symbols; what an audience is made of does not matter, so that one       *)
(* symbol stands for it.                                                   *)
(***************************************************************************)
EXTENDS Sequences, SequencesExt

\* join ", " of listToString in templates/_helpers.tpl
listToString(audiences) ==
  FoldLeft(LAMBDA flag, aud : IF flag = <<>> THEN <<aud>> ELSE flag \o <<",", " ", aud>>,
           <<>>, audiences)

\* strings.Split(flag, ","): the string up to the n-th comma starts anew after it.
Split(flag) ==
  FoldLeft(LAMBDA parts, c : IF c = "," THEN Append(parts, <<>>)
                             ELSE [parts EXCEPT ![Len(parts)] = Append(@, c)],
           <<<<>>>>, flag)

\* runMain
AudiencesOf(flag) == IF flag = <<>> THEN <<>> ELSE Split(flag)
=============================================================================
