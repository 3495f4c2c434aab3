----------------------------- MODULE OAuthCispApi -----------------------------
(*****************************************************************************)
(* Package psd2/oauthcisp: the token endpoint for the confirmation of funds. *)
(*****************************************************************************)
EXTENDS GeneratedClient

NewCispOauth2TokenRequest ==
  [method |-> "POST", path |-> <<"cisp", "oauth2", "token">>, query |-> {},
   params |-> NoParams, body |-> "form"]

ParseCispOauth2TokenResponse ==
  [NoCases EXCEPT !.struct = {200}]

\* The operations of the client, by name.
Operations ==
  [CispOauth2Token |->
     [request |-> NewCispOauth2TokenRequest,
      parse |-> ParseCispOauth2TokenResponse]]
===============================================================================
