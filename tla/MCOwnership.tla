----------------------------- MODULE MCOwnership -----------------------------
(***************************************************************************)
(* A repository for the TLC instance of Ownership: nested directories, a     *)
(* document inside another spec's scope, and scopes that tie.                *)
(***************************************************************************)
EXTENDS Ownership

MCNames == {"src", "main", "api", "call", "doc"}
MCFiles == {<<"src", "main">>, <<"src", "api", "call">>, <<"src", "api", "doc">>, <<"doc">>}
MCDocs  == 1 :> <<"doc">> @@ 2 :> <<"src", "api", "doc">>
MCDirectories == {<<"src">>, <<"src", "api">>}
MCScopes == (SUBSET MCDirectories) \ {{}}
=============================================================================
